----------------------------- MODULE ScanLedger -----------------------------
(***************************************************************************)
(* What the smart scan of jankurai promises, without its files, processes  *)
(* and clocks: an audit is narrowed to the files git reports (or skipped)  *)
(* only for a commit and an auditor version that some earlier full audit   *)
(* examined and found clean.  SmartScan implements it.                     *)
(***************************************************************************)
CONSTANTS
    Commits,    \* the commits of the audited repository
    Versions    \* the versions of the auditor

VARIABLES
    certified,  \* pairs a full audit reported clean
    narrowed    \* pairs an audit was narrowed or skipped for

Pairs == Commits \X Versions

TypeOK == /\ certified \subseteq Pairs
          /\ narrowed \subseteq Pairs

Init == /\ certified = {}
        /\ narrowed = {}

Certify(c, v) == /\ certified' = certified \cup {<<c, v>>}
                 /\ UNCHANGED narrowed

Narrow(c, v) == /\ <<c, v>> \in certified
                /\ narrowed' = narrowed \cup {<<c, v>>}
                /\ UNCHANGED certified

Next == \E c \in Commits, v \in Versions : Certify(c, v) \/ Narrow(c, v)

Spec == Init /\ [][Next]_<<certified, narrowed>>
=============================================================================
