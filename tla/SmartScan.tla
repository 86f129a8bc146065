----------------------------- MODULE SmartScan ------------------------------
(***************************************************************************)
(* audit/smart_scan.rs: auditor processes that decide, from a state record *)
(* on disk, the commit git names, the clock and a roulette, whether to     *)
(* audit the whole tree, only the files git reports as changed, or nothing *)
(* at all, and that save a new record after a full audit.                  *)
(*                                                                         *)
(* The steps of decide() and save_state() are the code's; a step ends at   *)
(* every read or write of something another process can change: the state  *)
(* file, HEAD, the clock, the working tree.  The caller that audits and    *)
(* then saves, the developer, git, the clock and the file system are       *)
(* modelled from how smart_scan.rs uses them (external).  Env says what    *)
(* these surroundings may do:                                              *)
(*   "dirty"     a full audit may run over uncommitted changes             *)
(*   "midedit"   the developer works while an auditor runs                 *)
(*   "gitfail"   a git command fails                                       *)
(*   "savefail"  create_dir_all, open or write fails in save_state         *)
(*   "crash"     an auditor is killed between two steps                    *)
(*   "undecided" the caller saves a report without a decision              *)
(*   "setback"   the clock is set back                                     *)
(*   "upgrade"   another auditor version is installed                      *)
(*                                                                         *)
(* Operators whose name ends in what they get wrong (StillValidAnyHead,    *)
(* OverdueLate, ...) are faults: they take no part in Spec, and a run of   *)
(* the check puts each in the place of the operator after it.              *)
(***************************************************************************)
EXTENDS Integers, FiniteSets

CONSTANTS
    Auditors,       \* auditor processes working on one repository
    Files,          \* paths of the working tree
    Contents,       \* what a file may hold
    Absent,         \* ... when it does not exist
    Commits,        \* commits the developer may create
    NoHead,         \* git names no commit
    Versions,       \* auditor versions
    Hard,           \* Hard[v]: contents version v reports a hard finding for
    Capped,         \* Capped[v]: contents for which version v applies a cap
    Ignored,        \* files git status does not mention
    Quoted,         \* files whose name git status prints escaped
    Interval,       \* config.interval_secs, in ticks
    RatePermille,   \* config.roulette_rate * 1000
    MaxSkew,        \* bound on how far the clock is set back
    Env             \* see above

ASSUME ConstAssumption ==
    /\ NoHead \notin Commits
    /\ Absent \notin Contents
    /\ Versions # {}
    /\ Hard \in [Versions -> SUBSET Contents]
    /\ Capped \in [Versions -> SUBSET Contents]
    /\ Interval \in Nat
    /\ RatePermille \in Int
    /\ MaxSkew \in Nat

VARIABLES
    head,       \* the commit HEAD names, or NoHead
    made,       \* the commits that exist
    tree,       \* tree[c][f]: content of f in commit c
    wt,         \* the working tree
    file,       \* target/jankurai/audit-state.json: "empty" (or absent),
                \* "torn" (does not parse) or "record"
    disk,       \* the SmartScanState it holds when file = "record"
    installed,  \* the installed auditor version
    pc,         \* where each auditor is
    ver,        \* AUDITOR_VERSION of the running binary
    rec,        \* the SmartScanState decide loaded or save_state built
    rpt,        \* what the full audit has collected
    scope,      \* the paths of SmartScanDecision::Fast
    verdict,    \* what the auditor last told its user
    certified,  \* history: pairs a full audit reported clean
    narrowed    \* history: pairs an audit was narrowed for

repo == <<head, made, tree, wt>>
state == <<file, disk>>
ghosts == <<certified, narrowed>>
local == <<pc, ver, rec, rpt, scope, verdict>>
vars == <<repo, state, installed, local, ghosts>>

-----------------------------------------------------------------------------
Holds == Contents \cup {Absent}
Heads == Commits \cup {NoHead}
\* Beyond the interval, or with the timer disabled, ages are not told apart.
Ages == -MaxSkew .. (IF Interval = 0 THEN 0 ELSE Interval + 1)

\* SmartScanState; age is the clock minus last_full_scan_at, kept within Ages.
Records == [commit : Heads, hard : BOOLEAN, caps : BOOLEAN,
            version : Versions, age : Ages]

\* What the report will be built from: the inventory's verdict and git.head.
Reports == [inv : BOOLEAN, hard : BOOLEAN, caps : BOOLEAN,
            asked : BOOLEAN, head : Heads]

Blank == [commit |-> NoHead, hard |-> TRUE, caps |-> TRUE,
          version |-> CHOOSE v \in Versions : TRUE, age |-> 0]
NoReport == [inv |-> FALSE, hard |-> FALSE, caps |-> FALSE,
             asked |-> FALSE, head |-> NoHead]

Steps == {"idle", "load", "head", "clock", "status", "full",
          "open", "write", "fast"}
Verdicts == {"none", "skip", "fast", "error", "clean", "hard"}

Committed(h) == IF h = NoHead THEN [f \in Files |-> Absent] ELSE tree[h]

\* The files `git status --porcelain -u` has a line for.
Changed == {f \in Files \ Ignored : wt[f] # Committed(head)[f]}
HardFiles(v) == {f \in Files : wt[f] \in Hard[v]}
CappedFiles(v) == {f \in Files : wt[f] \in Capped[v]}

\* No hard finding and no cap applied: of a record or of a report.
Clean(r) == ~r.hard /\ ~r.caps
AllIdle == \A p \in Auditors : pc[p] = "idle"

Init == /\ head = NoHead
        /\ made = {}
        /\ tree = [c \in Commits |-> [f \in Files |-> Absent]]
        /\ wt = [f \in Files |-> Absent]
        /\ file = "empty"
        /\ disk = Blank
        /\ installed \in Versions
        /\ pc = [p \in Auditors |-> "idle"]
        /\ ver = [p \in Auditors |-> installed]
        /\ rec = [p \in Auditors |-> Blank]
        /\ rpt = [p \in Auditors |-> NoReport]
        /\ scope = [p \in Auditors |-> {}]
        /\ verdict = [p \in Auditors |-> "none"]
        /\ certified = {}
        /\ narrowed = {}

-----------------------------------------------------------------------------
(* The auditor.  Go(p, s) moves p on, Done(p, v) ends its invocation.      *)

Go(p, s) == pc' = [pc EXCEPT ![p] = s]
Tell(p, v) == verdict' = [verdict EXCEPT ![p] = v]
Done(p) == /\ Go(p, "idle")
           /\ rec' = [rec EXCEPT ![p] = Blank]
           /\ rpt' = [rpt EXCEPT ![p] = NoReport]
           /\ scope' = [scope EXCEPT ![p] = {}]

\* The first check of decide(): an explicit --full leaves the record unread.
Start(p, enabled) ==
    /\ pc[p] = "idle"
    /\ ver' = [ver EXCEPT ![p] = installed]
    /\ Tell(p, "none")
    /\ Go(p, IF enabled THEN "load" ELSE "full")
    /\ UNCHANGED <<repo, state, installed, rec, rpt, scope, ghosts>>

\* load_state(): None for a file that is absent, unreadable or not a record.
LoadState(p) ==
    /\ pc[p] = "load"
    /\ IF file = "record"
       THEN Go(p, "head") /\ rec' = [rec EXCEPT ![p] = disk]
       ELSE Go(p, "full") /\ UNCHANGED rec
    /\ UNCHANGED <<repo, state, installed, ver, rpt, scope, verdict, ghosts>>

\* What `git rev-parse --short HEAD` may answer; NoHead when it fails.
RevParse == {head} \cup (IF "gitfail" \in Env THEN {NoHead} ELSE {})

StillValidAnyHead(p, h) == ~rec[p].hard /\ ~rec[p].caps /\ rec[p].version = ver[p]
StillValidAnyVersion(p, h) == h # NoHead /\ rec[p].commit = h /\ Clean(rec[p])
StillValidCapped(p, h) == /\ h # NoHead
                          /\ rec[p].commit = h
                          /\ ~rec[p].hard
                          /\ rec[p].version = ver[p]

\* The record vouches for commit h: current, clean and of this version.
StillValid(p, h) == /\ h # NoHead
                    /\ rec[p].commit = h
                    /\ ~rec[p].hard
                    /\ ~rec[p].caps
                    /\ rec[p].version = ver[p]

GoFull(p) == Go(p, "full") /\ rec' = [rec EXCEPT ![p] = Blank]

CurrentCommit(p) ==
    /\ pc[p] = "head"
    /\ \E h \in RevParse :
         IF StillValid(p, h) THEN Go(p, "clock") /\ UNCHANGED rec ELSE GoFull(p)
    /\ UNCHANGED <<repo, state, installed, ver, rpt, scope, verdict, ghosts>>

Elapsed(r) == IF r.age > 0 THEN r.age ELSE 0
OverdueLate(r) == Interval > 0 /\ Elapsed(r) > Interval + 1
Overdue(r) == Interval > 0 /\ Elapsed(r) > Interval

\* roulette(): ns is the clock's nanoseconds modulo 100, the threshold is the
\* rate in percent, truncated.
Roulette(ns) == /\ RatePermille > 0
                /\ RatePermille >= 1000 \/ ns < RatePermille \div 10

CheckClock(p) ==
    /\ pc[p] = "clock"
    /\ \E fires \in {Roulette(ns) : ns \in 0 .. 99} :
         IF Overdue(rec[p]) \/ fires
         THEN GoFull(p)
         ELSE Go(p, "status") /\ UNCHANGED rec
    /\ UNCHANGED <<repo, state, installed, ver, rpt, scope, verdict, ghosts>>

\* Skip or Fast: the audit is narrowed on the strength of rec[p].
Narrow(p, changed, paths) ==
    /\ narrowed' = narrowed \cup {<<rec[p].commit, ver[p]>>}
    /\ rec' = [rec EXCEPT ![p] = Blank]
    /\ scope' = [scope EXCEPT ![p] = paths]
    /\ IF changed = {}
       THEN Go(p, "idle") /\ Tell(p, "skip")
       ELSE Go(p, "fast") /\ Tell(p, "fast")
    /\ UNCHANGED rpt

\* git_status_changed_files(): a line of an escaped name is counted, but the
\* path taken from it is no file of the tree.  The exit status of git is not
\* looked at: a git that fails has printed nothing.  A git that cannot be
\* spawned ends the audit with an error.
GitStatus(p) ==
    /\ pc[p] = "status"
    /\ \/ Narrow(p, Changed, Changed \ Quoted)
       \/ "gitfail" \in Env /\ Narrow(p, {}, {})
       \/ "gitfail" \in Env /\ Done(p) /\ Tell(p, "error") /\ UNCHANGED narrowed
    /\ UNCHANGED <<repo, state, installed, ver, certified>>

-----------------------------------------------------------------------------
(* The caller: a fast audit reads the files of its scope; a full audit     *)
(* takes the inventory and asks git for HEAD, in either order, reports,    *)
(* and calls save_state.                                                   *)

FastScan(p) ==
    /\ pc[p] = "fast"
    /\ Tell(p, IF HardFiles(ver[p]) \cap scope[p] = {} THEN "clean" ELSE "hard")
    /\ Done(p)
    /\ UNCHANGED <<repo, state, installed, ver, ghosts>>

FullInventory(p) ==
    /\ pc[p] = "full"
    /\ ~rpt[p].inv
    /\ "dirty" \in Env \/ Changed = {}
    /\ rpt' = [rpt EXCEPT ![p] = [@ EXCEPT !.inv = TRUE,
                                            !.hard = HardFiles(ver[p]) # {},
                                            !.caps = CappedFiles(ver[p]) # {}]]
    /\ UNCHANGED <<repo, state, installed, pc, ver, rec, scope, verdict, ghosts>>

FullHead(p) ==
    /\ pc[p] = "full"
    /\ ~rpt[p].asked
    /\ \E h \in RevParse :
         rpt' = [rpt EXCEPT ![p] = [@ EXCEPT !.asked = TRUE, !.head = h]]
    /\ UNCHANGED <<repo, state, installed, pc, ver, rec, scope, verdict, ghosts>>

\* The hard-finding count save_state takes from the report: 0 when the report
\* has no decision.
SavedHardForgotten(p) == {FALSE}
SavedHard(p) == {rpt[p].hard} \cup (IF "undecided" \in Env THEN {FALSE} ELSE {})

\* A clean report of a tree whose commit git could name.
CertifiesUnborn(r) == Clean(r)
Certifies(r) == Clean(r) /\ r.head # NoHead

\* The report is shown, and the record to save is built from it.
Report(p) ==
    /\ pc[p] = "full"
    /\ rpt[p].inv
    /\ rpt[p].asked
    /\ Tell(p, IF rpt[p].hard THEN "hard" ELSE "clean")
    /\ certified' = certified \cup
         (IF Certifies(rpt[p]) THEN {<<rpt[p].head, ver[p]>>} ELSE {})
    /\ \E hard \in SavedHard(p) :
         rec' = [rec EXCEPT ![p] = [commit |-> rpt[p].head, hard |-> hard,
                                    caps |-> rpt[p].caps,
                                    version |-> ver[p], age |-> 0]]
    /\ rpt' = [rpt EXCEPT ![p] = NoReport]
    /\ Go(p, "open")
    /\ UNCHANGED <<repo, state, installed, ver, scope, narrowed>>

\* std::fs::write opens the file with truncation ...
OpenState(p) ==
    /\ pc[p] = "open"
    /\ \/ Go(p, "write") /\ file' = "empty" /\ disk' = Blank
          /\ UNCHANGED <<rec, rpt, scope>>
       \/ "savefail" \in Env /\ Done(p) /\ UNCHANGED state
    /\ UNCHANGED <<repo, installed, ver, verdict, ghosts>>

\* ... and then writes.  Where another auditor has written since, a longer
\* record of its keeps its tail: the file holds this record or does not parse.
WriteState(p) ==
    /\ pc[p] = "write"
    /\ \/ file' = "record" /\ disk' = rec[p]
       \/ /\ file # "empty" \/ "savefail" \in Env
          /\ file' = "torn" /\ disk' = Blank
       \/ "savefail" \in Env /\ UNCHANGED state
    /\ Done(p)
    /\ UNCHANGED <<repo, installed, ver, verdict, ghosts>>

Auditor(p) ==
    \/ \E enabled \in BOOLEAN : Start(p, enabled)
    \/ LoadState(p) \/ CurrentCommit(p) \/ CheckClock(p) \/ GitStatus(p)
    \/ FastScan(p) \/ FullInventory(p) \/ FullHead(p) \/ Report(p)
    \/ OpenState(p) \/ WriteState(p)

Crash(p) ==
    /\ "crash" \in Env
    /\ pc[p] # "idle"
    /\ Done(p)
    /\ UNCHANGED <<repo, state, installed, ver, verdict, ghosts>>

-----------------------------------------------------------------------------
(* The surroundings.                                                       *)

MayWork == "midedit" \in Env \/ AllIdle

Edit(f, x) ==
    /\ MayWork
    /\ wt[f] # x
    /\ wt' = [wt EXCEPT ![f] = x]
    /\ UNCHANGED <<head, made, tree, state, installed, local, ghosts>>

\* Some of the changed files are committed.
Commit(c, S) ==
    /\ MayWork
    /\ c \notin made
    /\ S # {}
    /\ tree' = [tree EXCEPT ![c] = [f \in Files |->
                   IF f \in S THEN wt[f] ELSE Committed(head)[f]]]
    /\ made' = made \cup {c}
    /\ head' = c
    /\ UNCHANGED <<wt, state, installed, local, ghosts>>

\* From a clean tree; files git ignores stay where they are.
Checkout(c) ==
    /\ MayWork
    /\ Changed = {}
    /\ c \in made \ {head}
    /\ head' = c
    /\ wt' = [f \in Files |-> IF f \in Ignored THEN wt[f] ELSE tree[c][f]]
    /\ UNCHANGED <<made, tree, state, installed, local, ghosts>>

Upgrade(v) ==
    /\ "upgrade" \in Env
    /\ installed # v
    /\ installed' = v
    /\ UNCHANGED <<repo, state, local, ghosts>>

\* The clock moves by d under every record that is still in use.
Shift(r, d) == IF r = Blank \/ r.age + d \notin Ages THEN r
               ELSE [r EXCEPT !.age = @ + d]
Clock(d) ==
    /\ disk' = Shift(disk, d)
    /\ rec' = [p \in Auditors |-> Shift(rec[p], d)]
    /\ UNCHANGED <<repo, file, installed, pc, ver, rpt, scope, verdict, ghosts>>

Tick == Clock(1)
SetBack == "setback" \in Env /\ Clock(-1)

Surroundings ==
    \/ \E f \in Files, x \in Holds : Edit(f, x)
    \/ \E c \in Commits, S \in SUBSET Changed : Commit(c, S)
    \/ \E c \in Commits : Checkout(c)
    \/ \E v \in Versions : Upgrade(v)
    \/ Tick \/ SetBack
    \/ \E p \in Auditors : Crash(p)

Next == (\E p \in Auditors : Auditor(p)) \/ Surroundings

Spec == Init /\ [][Next]_vars

(* Audits are run again and again, an auditor that runs is scheduled, and  *)
(* time passes.  Nothing forces the developer, a failure or an upgrade.    *)
Fairness == /\ \A p \in Auditors : WF_vars(Auditor(p))
            /\ WF_vars(Tick)
FairSpec == Spec /\ Fairness

-----------------------------------------------------------------------------
(* Safety.                                                                 *)

\* Every variable keeps its type.
TypeOK ==
    /\ head \in made \cup {NoHead}
    /\ made \subseteq Commits
    /\ tree \in [Commits -> [Files -> Holds]]
    /\ wt \in [Files -> Holds]
    /\ file \in {"empty", "torn", "record"}
    /\ disk \in Records
    /\ installed \in Versions
    /\ pc \in [Auditors -> Steps]
    /\ ver \in [Auditors -> Versions]
    /\ rec \in [Auditors -> Records]
    /\ rpt \in [Auditors -> Reports]
    /\ scope \in [Auditors -> SUBSET Files]
    /\ verdict \in [Auditors -> Verdicts]
    /\ certified \subseteq Commits \X Versions
    /\ narrowed \subseteq Heads \X Versions

\* A record that says clean speaks of a full audit that was.
Vouched(r) == Clean(r) /\ r.commit # NoHead
                => <<r.commit, r.version>> \in certified

\* A clean record, on disk or in an auditor's hands, was earned by a full audit
\* of that commit by that version; an auditor past the checks of decide() holds
\* such a record of its own version; audits are narrowed for earned records
\* only.  Whatever two auditors, crashes, failed saves, upgrades and edits do to
\* the file between the steps.
DiskVouched == file = "record" => Vouched(disk)
HeldVouched == \A p \in Auditors :
    pc[p] \in {"head", "clock", "status", "open", "write"} => Vouched(rec[p])
ChecksPassed == \A p \in Auditors :
    pc[p] \in {"clock", "status"} => StillValid(p, rec[p].commit)
RecordCertified == /\ DiskVouched
                   /\ HeldVouched
                   /\ ChecksPassed
                   /\ narrowed \subseteq certified

Narrows(p) == pc[p] = "status" /\ verdict'[p] \in {"skip", "fast"}

\* No hard finding is missed by a narrowed audit: when decide() answers Skip or
\* Fast, every file with a hard finding is among the paths it returns.
NarrowCoversHard ==
    [][\A p \in Auditors : Narrows(p) => HardFiles(ver[p]) \subseteq scope'[p]]_vars

\* What a disciplined environment adds: git answers, full audits run on a clean
\* tree, nobody works while an auditor runs, git status speaks of every file by
\* its name, and every saved report has a decision.
Disciplined == /\ Env \cap {"dirty", "midedit", "gitfail", "undecided"} = {}
               /\ Ignored = {}
               /\ Quoted = {}

\* In a disciplined environment a certified pair says of the commit's tree what
\* a full audit of it would: no hard finding.  The other conjuncts tie what an
\* auditor has collected to the repository as it is.
CertifiedClean == \A c \in Commits, v \in Versions : <<c, v>> \in certified =>
    c \in made /\ \A f \in Files : tree[c][f] \notin Hard[v]
InventoryCurrent == \A p \in Auditors : rpt[p].inv =>
    /\ pc[p] = "full"
    /\ Changed = {}
    /\ rpt[p].hard = (HardFiles(ver[p]) # {})
HeadCurrent == \A p \in Auditors :
    /\ rpt[p].asked => pc[p] = "full" /\ rpt[p].head = head
    /\ pc[p] \in {"clock", "status"} => rec[p].commit = head
CertifiedTrees == /\ CertifiedClean
                  /\ InventoryCurrent
                  /\ HeadCurrent

\* smart_scan.rs:62 of Skip: "Git status is empty and last full scan is still
\* valid - nothing to do": there is no hard finding anywhere.
SkipHasNothingToDo ==
    [][\A p \in Auditors : (pc[p] = "status" /\ verdict'[p] = "skip")
         => HardFiles(ver[p]) = {}]_vars

\* What ScanLedger promises, kept by SmartScan.
Ledger == INSTANCE ScanLedger WITH certified <- certified, narrowed <- narrowed,
                                  Commits <- Commits, Versions <- Versions
LedgerSpec == Ledger!Spec

-----------------------------------------------------------------------------
(* Liveness.                                                               *)

HardNow == HardFiles(installed) # {}

\* With a timer, a hard finding that stays is reported again and again, however
\* often audits are narrowed in between: the record that hides it ages until
\* the interval forces a full audit.
Backstop == (<>[](HardNow /\ \A p \in Auditors : pc[p] # "idle" => ver[p] = installed))
              => []<>(\E p \in Auditors : verdict[p] = "hard")
=============================================================================
