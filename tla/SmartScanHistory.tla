-------------------------- MODULE SmartScanHistory --------------------------
(* SmartScan with one more history variable: the last full audit that      *)
(* reported, for what save_state's comment says of a failed save.          *)
EXTENDS SmartScan

VARIABLE lastFull

HistInit ==
    /\ Init
    /\ lastFull = [commit |-> NoHead, version |-> installed, clean |-> FALSE]

Reporting(p) == pc[p] = "full" /\ pc'[p] = "open"

HistNext ==
    /\ Next
    /\ \/ \E p \in Auditors :
            /\ Reporting(p)
            /\ lastFull' = [commit |-> rpt[p].head, version |-> ver[p],
                            clean |-> Clean(rpt[p])]
       \/ (\A p \in Auditors : ~Reporting(p)) /\ UNCHANGED lastFull

HistSpec == HistInit /\ [][HistNext]_<<vars, lastFull>>
FairHistSpec == HistSpec /\ Fairness

\* smart_scan.rs:124 of a failed save: "the worst outcome is an unnecessary full
\* scan on the next invocation".  So it never costs a necessary one: no audit is
\* narrowed for the commit and version whose last full audit had findings.
NoNarrowAfterDirtyFull ==
    [][\A p \in Auditors : Narrows(p) =>
         ~ /\ lastFull.commit = rec[p].commit
           /\ lastFull.version = ver[p]
           /\ ~lastFull.clean]_<<vars, lastFull>>
=============================================================================
