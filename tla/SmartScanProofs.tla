-------------------------- MODULE SmartScanProofs ---------------------------
(***************************************************************************)
(* Theorems about SmartScan, and about its history of full audits, for     *)
(* every set of auditors, files, commits and versions, and for every       *)
(* environment the theorem names.                                          *)
(***************************************************************************)
EXTENDS SmartScanHistory, TLAPS

-----------------------------------------------------------------------------
(* Type correctness.                                                       *)

LEMMA BlankIsRecord == Blank \in Records
<1>1. 0 \in Ages
  BY ConstAssumption DEF Ages
<1>2. (CHOOSE v \in Versions : TRUE) \in Versions
  BY ConstAssumption
<1> QED BY <1>1, <1>2 DEF Blank, Records, Heads

LEMMA NoReportIsReport == NoReport \in Reports
BY DEF NoReport, Reports, Heads

\* The clock changes nothing in a record but its age.
LEMMA ShiftedRecord ==
  ASSUME NEW r \in Records, NEW d \in Int
  PROVE  /\ Shift(r, d) \in Records
         /\ Shift(r, d).commit = r.commit
         /\ Shift(r, d).version = r.version
         /\ Shift(r, d).hard = r.hard
         /\ Shift(r, d).caps = r.caps
BY DEF Shift, Records

LEMMA CommittedType ==
  ASSUME TypeOK, NEW h \in made \cup {NoHead}
  PROVE  Committed(h) \in [Files -> Holds]
BY DEF TypeOK, Committed, Holds

LEMMA RevParseType == ASSUME TypeOK PROVE RevParse \subseteq Heads
BY DEF TypeOK, RevParse, Heads

\* One invocation of an auditor keeps every variable in its type.
LEMMA AuditorType ==
  ASSUME TypeOK, NEW p \in Auditors, Auditor(p)
  PROVE  TypeOK'
<1> USE BlankIsRecord, NoReportIsReport DEF TypeOK, Go, Tell, Done, Steps, Verdicts,
        repo, state, local, ghosts
<1>1. ASSUME NEW enabled \in BOOLEAN, Start(p, enabled) PROVE TypeOK'
  BY <1>1 DEF Start
<1>2. CASE LoadState(p)
  BY <1>2 DEF LoadState
<1>3. CASE CurrentCommit(p)
  BY <1>3 DEF CurrentCommit, GoFull
<1>4. CASE CheckClock(p)
  BY <1>4 DEF CheckClock, GoFull
<1>5. CASE GitStatus(p)
  <2>1. Changed \subseteq Files
    BY DEF Changed
  <2>3. rec[p].commit \in Heads
    BY DEF Records
  <2>4. CASE Narrow(p, Changed, Changed \ Quoted)
    BY <1>5, <2>1, <2>3, <2>4 DEF GitStatus, Narrow
  <2>5. CASE Narrow(p, {}, {})
    BY <1>5, <2>3, <2>5 DEF GitStatus, Narrow
  <2>6. CASE Done(p) /\ Tell(p, "error") /\ UNCHANGED narrowed
    BY <1>5, <2>6 DEF GitStatus
  <2> QED BY <1>5, <2>4, <2>5, <2>6 DEF GitStatus
<1>6. CASE FastScan(p)
  BY <1>6 DEF FastScan
<1>7. CASE FullInventory(p)
  <2> DEFINE r == [rpt[p] EXCEPT !.inv = TRUE,
                                 !.hard = HardFiles(ver[p]) # {},
                                 !.caps = CappedFiles(ver[p]) # {}]
  <2>1. r \in Reports
    BY DEF Reports
  <2>2. rpt' = [rpt EXCEPT ![p] = r]
    BY <1>7 DEF FullInventory
  <2> QED BY <1>7, <2>1, <2>2 DEF FullInventory
<1>8. CASE FullHead(p)
  <2>1. PICK h \in RevParse :
          rpt' = [rpt EXCEPT ![p] = [rpt[p] EXCEPT !.asked = TRUE, !.head = h]]
    BY <1>8 DEF FullHead
  <2>2. [rpt[p] EXCEPT !.asked = TRUE, !.head = h] \in Reports
    BY RevParseType DEF Reports
  <2> QED BY <1>8, <2>1, <2>2 DEF FullHead
<1>9. CASE Report(p)
  <2>1. rpt[p].head # NoHead => rpt[p].head \in Commits
    BY DEF Reports, Heads
  <2>2. 0 \in Ages
    BY ConstAssumption DEF Ages
  <2>3. \A hard \in SavedHard(p) :
          [commit |-> rpt[p].head, hard |-> hard, caps |-> rpt[p].caps,
           version |-> ver[p], age |-> 0] \in Records
    BY <2>2 DEF SavedHard, Reports, Records
  <2>4. certified' \subseteq Commits \X Versions
    BY <1>9, <2>1 DEF Report, Certifies
  <2>5. rec' \in [Auditors -> Records]
    BY <1>9, <2>3 DEF Report
  <2>6. /\ pc' \in [Auditors -> Steps]
        /\ rpt' \in [Auditors -> Reports]
        /\ verdict' \in [Auditors -> Verdicts]
    BY <1>9 DEF Report
  <2>7. UNCHANGED <<head, made, tree, wt, file, disk, installed, ver, scope, narrowed>>
    BY <1>9 DEF Report
  <2> QED BY <2>4, <2>5, <2>6, <2>7
<1>10. CASE OpenState(p)
  <2>1. CASE Done(p) /\ UNCHANGED state
    BY <1>10, <2>1 DEF OpenState
  <2>2. CASE Go(p, "write") /\ file' = "empty" /\ disk' = Blank
                            /\ UNCHANGED <<rec, rpt, scope>>
    BY <1>10, <2>2 DEF OpenState
  <2> QED BY <1>10, <2>1, <2>2 DEF OpenState
<1>11. CASE WriteState(p)
  BY <1>11 DEF WriteState
<1> QED BY <1>1, <1>2, <1>3, <1>4, <1>5, <1>6, <1>7, <1>8, <1>9, <1>10, <1>11
        DEF Auditor

\* So does every step of the surroundings.
LEMMA SurroundingsType ==
  ASSUME TypeOK, Surroundings
  PROVE  TypeOK'
<1> USE DEF TypeOK, repo, state, local, ghosts
<1>1. ASSUME NEW f \in Files, NEW x \in Holds, Edit(f, x) PROVE TypeOK'
  BY <1>1 DEF Edit
<1>2. ASSUME NEW c \in Commits, NEW S \in SUBSET Changed, Commit(c, S) PROVE TypeOK'
  <2>1. Committed(head) \in [Files -> Holds]
    BY CommittedType
  <2>2. [f \in Files |-> IF f \in S THEN wt[f] ELSE Committed(head)[f]]
          \in [Files -> Holds]
    BY <2>1
  <2> QED BY <1>2, <2>2 DEF Commit
<1>3. ASSUME NEW c \in Commits, Checkout(c) PROVE TypeOK'
  BY <1>3 DEF Checkout
<1>4. ASSUME NEW v \in Versions, Upgrade(v) PROVE TypeOK'
  BY <1>4 DEF Upgrade
<1>5. ASSUME NEW d \in Int, Clock(d) PROVE TypeOK'
  <2>1. disk' \in Records
    BY <1>5, ShiftedRecord DEF Clock
  <2>2. rec' \in [Auditors -> Records]
    BY <1>5, ShiftedRecord DEF Clock
  <2> QED BY <1>5, <2>1, <2>2 DEF Clock
<1>6. CASE Tick
  BY <1>5, <1>6 DEF Tick
<1>7. CASE SetBack
  BY <1>5, <1>7 DEF SetBack
<1>8. ASSUME NEW p \in Auditors, Crash(p) PROVE TypeOK'
  BY <1>8, BlankIsRecord, NoReportIsReport DEF Crash, Done, Go, Steps
<1> QED BY <1>1, <1>2, <1>3, <1>4, <1>6, <1>7, <1>8 DEF Surroundings

LEMMA TypeStep == TypeOK /\ [Next]_vars => TypeOK'
<1> SUFFICES ASSUME TypeOK, [Next]_vars PROVE TypeOK'
  OBVIOUS
<1>1. CASE UNCHANGED vars
  BY <1>1 DEF TypeOK, vars, repo, state, local, ghosts
<1>2. CASE Next
  BY <1>2, AuditorType, SurroundingsType DEF Next
<1> QED BY <1>1, <1>2

LEMMA TypeInit == Init => TypeOK
BY BlankIsRecord, NoReportIsReport
   DEF Init, TypeOK, Holds, Steps, Verdicts

\* Type correctness: every variable keeps its type in every environment.
THEOREM TypeCorrect == Spec => []TypeOK
BY TypeInit, TypeStep, PTL DEF Spec

-----------------------------------------------------------------------------
(* The record on disk.  RecordCertified is inductive as it stands, provided *)
(* every report that is saved has a decision.                               *)

\* The steps that leave the records and the history alone, and only move
\* auditors to where nothing is asked of their record.
LEMMA CertifiedAuditor ==
  ASSUME "undecided" \notin Env, TypeOK, RecordCertified,
         NEW p \in Auditors, Auditor(p)
  PROVE  RecordCertified'
<1> USE DEF RecordCertified, DiskVouched, HeldVouched, ChecksPassed, Vouched, Clean,
            StillValid, TypeOK, Go, Tell, Done, repo, state, local, ghosts
<1>1. ASSUME NEW enabled \in BOOLEAN, Start(p, enabled) PROVE RecordCertified'
  BY <1>1 DEF Start
<1>2. CASE LoadState(p)
  BY <1>2 DEF LoadState
<1>3. CASE CurrentCommit(p)
  BY <1>3 DEF CurrentCommit, GoFull
<1>4. CASE CheckClock(p)
  BY <1>4 DEF CheckClock, GoFull
<1>5. CASE GitStatus(p)
  <2>1. <<rec[p].commit, ver[p]>> \in certified
    BY <1>5 DEF GitStatus
  <2>2. CASE Narrow(p, Changed, Changed \ Quoted)
    BY <1>5, <2>1, <2>2 DEF GitStatus, Narrow
  <2>3. CASE Narrow(p, {}, {})
    BY <1>5, <2>1, <2>3 DEF GitStatus, Narrow
  <2>4. CASE Done(p) /\ Tell(p, "error") /\ UNCHANGED narrowed
    BY <1>5, <2>4 DEF GitStatus
  <2> QED BY <1>5, <2>2, <2>3, <2>4 DEF GitStatus
<1>6. CASE FastScan(p)
  BY <1>6 DEF FastScan
<1>7. CASE FullInventory(p)
  BY <1>7 DEF FullInventory
<1>8. CASE FullHead(p)
  BY <1>8 DEF FullHead
<1>9. CASE Report(p)
  <2>1. rec' = [rec EXCEPT ![p] = [commit |-> rpt[p].head, hard |-> rpt[p].hard,
                                   caps |-> rpt[p].caps,
                                   version |-> ver[p], age |-> 0]]
    BY <1>9 DEF Report, SavedHard
  <2>2. Vouched(rec[p])'
    BY <1>9, <2>1 DEF Report, Certifies
  <2>3. certified \subseteq certified'
    BY <1>9 DEF Report
  <2>4. \A q \in Auditors \ {p} : rec'[q] = rec[q] /\ pc'[q] = pc[q]
    BY <1>9, <2>1 DEF Report
  <2>5. pc'[p] = "open" /\ UNCHANGED <<file, disk, ver, narrowed>>
    BY <1>9 DEF Report
  <2>6. DiskVouched'
    BY <2>3, <2>5
  <2>7. HeldVouched'
    BY <2>2, <2>3, <2>4
  <2>8. ChecksPassed'
    BY <2>4, <2>5
  <2> QED BY <2>3, <2>5, <2>6, <2>7, <2>8
<1>10. CASE OpenState(p)
  <2>1. CASE Done(p) /\ UNCHANGED state
    BY <1>10, <2>1 DEF OpenState
  <2>2. CASE Go(p, "write") /\ file' = "empty" /\ disk' = Blank
                            /\ UNCHANGED <<rec, rpt, scope>>
    BY <1>10, <2>2 DEF OpenState
  <2> QED BY <1>10, <2>1, <2>2 DEF OpenState
<1>11. CASE WriteState(p)
  BY <1>11 DEF WriteState
<1> QED BY <1>1, <1>2, <1>3, <1>4, <1>5, <1>6, <1>7, <1>8, <1>9, <1>10, <1>11
        DEF Auditor

LEMMA CertifiedSurroundings ==
  ASSUME TypeOK, RecordCertified, Surroundings
  PROVE  RecordCertified'
<1> USE DEF RecordCertified, DiskVouched, HeldVouched, ChecksPassed, Vouched, Clean,
            StillValid, repo, state, local, ghosts
<1>1. ASSUME NEW f \in Files, NEW x \in Holds, Edit(f, x) PROVE RecordCertified'
  BY <1>1 DEF Edit
<1>2. ASSUME NEW c \in Commits, NEW S \in SUBSET Changed, Commit(c, S)
      PROVE RecordCertified'
  BY <1>2 DEF Commit
<1>3. ASSUME NEW c \in Commits, Checkout(c) PROVE RecordCertified'
  BY <1>3 DEF Checkout
<1>4. ASSUME NEW v \in Versions, Upgrade(v) PROVE RecordCertified'
  BY <1>4 DEF Upgrade
<1>5. ASSUME NEW d \in Int, Clock(d) PROVE RecordCertified'
  <2>1. /\ disk'.commit = disk.commit /\ disk'.version = disk.version
        /\ disk'.hard = disk.hard /\ disk'.caps = disk.caps
    BY <1>5, ShiftedRecord DEF Clock, TypeOK
  <2>2. \A p \in Auditors :
          /\ rec'[p].commit = rec[p].commit /\ rec'[p].version = rec[p].version
          /\ rec'[p].hard = rec[p].hard /\ rec'[p].caps = rec[p].caps
    BY <1>5, ShiftedRecord DEF Clock, TypeOK
  <2> QED BY <1>5, <2>1, <2>2 DEF Clock
<1>6. CASE Tick
  BY <1>5, <1>6 DEF Tick
<1>7. CASE SetBack
  BY <1>5, <1>7 DEF SetBack
<1>8. ASSUME NEW p \in Auditors, Crash(p) PROVE RecordCertified'
  BY <1>8 DEF Crash, Done, Go, TypeOK
<1> QED BY <1>1, <1>2, <1>3, <1>4, <1>6, <1>7, <1>8 DEF Surroundings

LEMMA CertifiedStep ==
  ASSUME "undecided" \notin Env
  PROVE  TypeOK /\ RecordCertified /\ [Next]_vars => RecordCertified'
<1> SUFFICES ASSUME TypeOK, RecordCertified, [Next]_vars PROVE RecordCertified'
  OBVIOUS
<1>1. CASE UNCHANGED vars
  BY <1>1 DEF RecordCertified, DiskVouched, HeldVouched, ChecksPassed, Vouched,
              Clean, StillValid, vars, repo, state, local, ghosts
<1>2. CASE Next
  BY <1>2, CertifiedAuditor, CertifiedSurroundings DEF Next
<1> QED BY <1>1, <1>2

LEMMA CertifiedInit == Init => RecordCertified
BY DEF Init, RecordCertified, DiskVouched, HeldVouched, ChecksPassed

\* A record that says clean was earned, whatever the interleaving of auditors,
\* crashes, failed saves and developers, and audits are narrowed for earned
\* records only.
THEOREM RecordsAreCertified ==
  ASSUME "undecided" \notin Env
  PROVE  Spec => []RecordCertified
<1>1. TypeOK /\ RecordCertified /\ [Next]_vars => RecordCertified'
  BY CertifiedStep
<1> QED BY <1>1, CertifiedInit, TypeCorrect, PTL DEF Spec

-----------------------------------------------------------------------------
(* SmartScan implements ScanLedger.                                        *)

LEMMA LedgerStep ==
  ASSUME TypeOK, RecordCertified, [Next]_vars
  PROVE  [Ledger!Next]_<<certified, narrowed>>
<1> DEFINE Stutter == UNCHANGED <<certified, narrowed>>
<1>1. ASSUME NEW p \in Auditors, Report(p)
      PROVE  Stutter \/ Ledger!Next
  <2>1. CASE Clean(rpt[p]) /\ rpt[p].head # NoHead
    <3>1. rpt[p].head \in Commits /\ ver[p] \in Versions
      BY <2>1 DEF TypeOK, Reports, Heads
    <3>2. Ledger!Certify(rpt[p].head, ver[p])
      BY <1>1, <2>1 DEF Report, Certifies, Ledger!Certify
    <3> QED BY <3>1, <3>2 DEF Ledger!Next
  <2>2. CASE ~ (Clean(rpt[p]) /\ rpt[p].head # NoHead)
    BY <1>1, <2>2 DEF Report, Certifies
  <2> QED BY <2>1, <2>2
<1>2. ASSUME NEW p \in Auditors, GitStatus(p)
      PROVE  Stutter \/ Ledger!Next
  <2>1. <<rec[p].commit, ver[p]>> \in certified
    BY <1>2 DEF GitStatus, RecordCertified, HeldVouched, ChecksPassed, StillValid,
                Vouched, Clean
  <2>2. rec[p].commit \in Commits /\ ver[p] \in Versions
    BY <2>1 DEF TypeOK
  <2>3. Stutter \/ narrowed' = narrowed \cup {<<rec[p].commit, ver[p]>>}
    BY <1>2 DEF GitStatus, Narrow
  <2>4. UNCHANGED certified
    BY <1>2 DEF GitStatus
  <2> QED BY <2>1, <2>2, <2>3, <2>4 DEF Ledger!Next, Ledger!Narrow
<1>3. ASSUME NEW p \in Auditors, Auditor(p)
      PROVE  Stutter \/ Ledger!Next
  BY <1>1, <1>2, <1>3
     DEF Auditor, Start, LoadState, CurrentCommit, CheckClock, FastScan,
         FullInventory, FullHead, OpenState, WriteState, ghosts
<1>4. CASE Surroundings
  BY <1>4 DEF Surroundings, Edit, Commit, Checkout, Upgrade, Tick, SetBack, Clock,
              Crash, ghosts
<1>5. CASE UNCHANGED vars
  BY <1>5 DEF vars, ghosts
<1> QED BY <1>3, <1>4, <1>5 DEF Next

\* Read through its two history variables, the smart scan is a ledger: an audit
\* is narrowed only for a commit and a version already certified by a full audit.
THEOREM ImplementsLedger ==
  ASSUME "undecided" \notin Env
  PROVE  Spec => LedgerSpec
<1>1. Init => Ledger!Init
  BY DEF Init, Ledger!Init
<1>2. TypeOK /\ RecordCertified /\ [Next]_vars => [Ledger!Next]_<<certified, narrowed>>
  BY LedgerStep
<1> QED BY <1>1, <1>2, TypeCorrect, RecordsAreCertified, PTL
        DEF Spec, LedgerSpec, Ledger!Spec

-----------------------------------------------------------------------------
(* Soundness of the narrowed audit in a disciplined environment.           *)

\* Without ignored files and with a clean tree, the working tree is HEAD's.
LEMMA CleanTree ==
  ASSUME Disciplined, TypeOK, Changed = {}, head # NoHead
  PROVE  \A f \in Files : wt[f] = tree[head][f]
BY DEF Disciplined, Changed, Committed

LEMMA SoundAuditor ==
  ASSUME Disciplined, TypeOK, CertifiedTrees, NEW p \in Auditors, Auditor(p)
  PROVE  CertifiedTrees'
<1> USE DEF CertifiedTrees, InventoryCurrent, HeadCurrent, CertifiedClean,
            TypeOK, Go, Tell, Done, repo, state, local, ghosts, Disciplined
<1>a. UNCHANGED <<head, made, tree, wt>>
  BY DEF Auditor, Start, LoadState, CurrentCommit, CheckClock, GitStatus, FastScan,
         FullInventory, FullHead, Report, OpenState, WriteState
<1>b. UNCHANGED Changed /\ \A v \in Versions : UNCHANGED HardFiles(v)
  BY <1>a DEF Changed, HardFiles, Committed
<1>c. RevParse = {head}
  BY DEF RevParse
<1>d. ~NoReport.inv /\ ~NoReport.asked
  BY DEF NoReport
<1>1. ASSUME NEW enabled \in BOOLEAN, Start(p, enabled) PROVE CertifiedTrees'
  BY <1>1, <1>a, <1>b DEF Start
<1>2. CASE LoadState(p)
  BY <1>2, <1>a, <1>b DEF LoadState
<1>3. CASE CurrentCommit(p)
  BY <1>3, <1>a, <1>b, <1>c DEF CurrentCommit, GoFull, StillValid
<1>4. CASE CheckClock(p)
  BY <1>4, <1>a, <1>b DEF CheckClock, GoFull
<1>5. CASE GitStatus(p)
  BY <1>5, <1>a, <1>b DEF GitStatus, Narrow
<1>6. CASE FastScan(p)
  BY <1>6, <1>a, <1>b, <1>d DEF FastScan
<1>7. CASE FullInventory(p)
  <2> DEFINE r == [rpt[p] EXCEPT !.inv = TRUE,
                                 !.hard = HardFiles(ver[p]) # {},
                                 !.caps = CappedFiles(ver[p]) # {}]
  <2>1. r.inv /\ r.hard = (HardFiles(ver[p]) # {}) /\ r.asked = rpt[p].asked
              /\ r.head = rpt[p].head
    BY DEF Reports
  <2>2. rpt' = [rpt EXCEPT ![p] = r] /\ Changed = {} /\ pc[p] = "full"
    BY <1>7 DEF FullInventory
  <2>3. UNCHANGED <<pc, ver, rec, certified>>
    BY <1>7 DEF FullInventory
  <2>4. InventoryCurrent'
    BY <2>1, <2>2, <2>3, <1>b
  <2> QED BY <2>1, <2>2, <2>3, <2>4, <1>a
<1>8. CASE FullHead(p)
  <2> DEFINE r == [rpt[p] EXCEPT !.asked = TRUE, !.head = head]
  <2>1. r.asked /\ r.head = head /\ r.inv = rpt[p].inv /\ r.hard = rpt[p].hard
    BY DEF Reports
  <2>2. rpt' = [rpt EXCEPT ![p] = r] /\ pc[p] = "full"
    BY <1>8, <1>c DEF FullHead
  <2>3. UNCHANGED <<pc, ver, rec, certified>>
    BY <1>8 DEF FullHead
  <2>4. InventoryCurrent'
    BY <2>1, <2>2, <2>3, <1>b
  <2> QED BY <2>1, <2>2, <2>3, <2>4, <1>a
<1>9. CASE Report(p)
  <2>1. /\ rpt[p].inv /\ rpt[p].asked /\ pc[p] = "full"
        /\ rpt' = [rpt EXCEPT ![p] = NoReport] /\ pc' = [pc EXCEPT ![p] = "open"]
        /\ ver' = ver
        /\ \A q \in Auditors \ {p} : rec'[q] = rec[q]
    BY <1>9 DEF Report
  <2>2. InventoryCurrent'
    BY <2>1, <1>b, <1>d
  <2>3. HeadCurrent'
    BY <2>1, <1>a, <1>d
  <2>4. CertifiedClean'
    <3>1. CASE certified' = certified
      BY <3>1, <1>a
    <3>2. CASE /\ Clean(rpt[p]) /\ rpt[p].head # NoHead
               /\ certified' = certified \cup {<<rpt[p].head, ver[p]>>}
      <4>1. rpt[p].head = head /\ Changed = {} /\ HardFiles(ver[p]) = {}
        BY <2>1, <3>2 DEF Clean
      <4>2. \A f \in Files : tree[head][f] \notin Hard[ver[p]]
        BY <4>1, <3>2, CleanTree DEF HardFiles
      <4>3. head \in made
        BY <4>1, <3>2
      <4> QED BY <3>2, <4>1, <4>2, <4>3, <1>a
    <3> QED BY <1>9, <3>1, <3>2 DEF Report, Certifies
  <2> QED BY <2>2, <2>3, <2>4
<1>10. CASE OpenState(p)
  BY <1>10, <1>a, <1>b, <1>d DEF OpenState
<1>11. CASE WriteState(p)
  BY <1>11, <1>a, <1>b, <1>d DEF WriteState
<1> QED BY <1>1, <1>2, <1>3, <1>4, <1>5, <1>6, <1>7, <1>8, <1>9, <1>10, <1>11
        DEF Auditor

LEMMA SoundSurroundings ==
  ASSUME Disciplined, TypeOK, CertifiedTrees, RecordCertified, Surroundings
  PROVE  CertifiedTrees'
<1> USE DEF CertifiedTrees, InventoryCurrent, HeadCurrent, CertifiedClean,
            TypeOK, repo, state, local, ghosts, Disciplined
<1>a. MayWork => \A p \in Auditors : pc[p] = "idle" /\ ~rpt[p].inv /\ ~rpt[p].asked
  BY DEF MayWork, AllIdle
<1>1. ASSUME NEW f \in Files, NEW x \in Holds, Edit(f, x) PROVE CertifiedTrees'
  BY <1>1, <1>a DEF Edit
<1>2. ASSUME NEW c \in Commits, NEW S \in SUBSET Changed, Commit(c, S)
      PROVE CertifiedTrees'
  <2>1. \A p \in Auditors : pc'[p] = "idle" /\ ~rpt'[p].inv /\ ~rpt'[p].asked
    BY <1>2, <1>a DEF Commit
  <2>2. made' = made \cup {c} /\ c \notin made /\ certified' = certified
        /\ \A d \in Commits : d # c => tree'[d] = tree[d]
    BY <1>2 DEF Commit
  <2> QED BY <2>1, <2>2
<1>3. ASSUME NEW c \in Commits, Checkout(c) PROVE CertifiedTrees'
  BY <1>3, <1>a DEF Checkout
<1>4. ASSUME NEW v \in Versions, Upgrade(v) PROVE CertifiedTrees'
  <2>1. UNCHANGED <<head, made, tree, wt, pc, ver, rpt, rec, certified>>
    BY <1>4 DEF Upgrade
  <2>2. UNCHANGED Changed /\ \A w \in Versions : UNCHANGED HardFiles(w)
    BY <2>1 DEF Changed, HardFiles, Committed
  <2> QED BY <2>1, <2>2
<1>5. ASSUME NEW d \in Int, Clock(d) PROVE CertifiedTrees'
  <2>1. \A p \in Auditors : rec'[p].commit = rec[p].commit
    BY <1>5, ShiftedRecord DEF Clock
  <2>2. UNCHANGED <<head, made, tree, wt, pc, ver, rpt, certified>>
    BY <1>5 DEF Clock
  <2>3. UNCHANGED Changed /\ \A v \in Versions : UNCHANGED HardFiles(v)
    BY <2>2 DEF Changed, HardFiles, Committed
  <2> QED BY <2>1, <2>2, <2>3
<1>6. CASE Tick
  <2> HIDE DEF CertifiedTrees, TypeOK
  <2> QED BY <1>5, <1>6 DEF Tick
<1>7. CASE SetBack
  <2> HIDE DEF CertifiedTrees, TypeOK
  <2> QED BY <1>5, <1>7 DEF SetBack
<1>8. ASSUME NEW p \in Auditors, Crash(p) PROVE CertifiedTrees'
  <2>1. UNCHANGED <<head, made, tree, wt, ver, certified>>
    BY <1>8 DEF Crash
  <2>2. UNCHANGED Changed /\ \A v \in Versions : UNCHANGED HardFiles(v)
    BY <2>1 DEF Changed, HardFiles, Committed
  <2>3. ~NoReport.inv /\ ~NoReport.asked
    BY DEF NoReport
  <2> QED BY <1>8, <2>1, <2>2, <2>3 DEF Crash, Done, Go
<1> QED BY <1>1, <1>2, <1>3, <1>4, <1>6, <1>7, <1>8 DEF Surroundings

LEMMA SoundStep ==
  ASSUME Disciplined, TypeOK, RecordCertified, CertifiedTrees, [Next]_vars
  PROVE  CertifiedTrees'
<1>1. CASE UNCHANGED vars
  BY <1>1 DEF CertifiedTrees, CertifiedClean, InventoryCurrent, HeadCurrent, Changed,
              HardFiles, Committed, vars, repo, state, local, ghosts
<1>2. CASE Next
  BY <1>2, SoundAuditor, SoundSurroundings DEF Next
<1> QED BY <1>1, <1>2

\* In a disciplined environment a certified pair is a clean tree.
THEOREM CertifiedTreesAreClean ==
  ASSUME Disciplined
  PROVE  Spec => []CertifiedTrees
<1>1. "undecided" \notin Env
  BY DEF Disciplined
<1>2. Init => CertifiedTrees
  BY DEF Init, CertifiedTrees, CertifiedClean, InventoryCurrent, HeadCurrent, NoReport
<1>3. TypeOK /\ RecordCertified /\ CertifiedTrees /\ [Next]_vars => CertifiedTrees'
  BY SoundStep
<1> QED BY <1>1, <1>2, <1>3, TypeCorrect, RecordsAreCertified, PTL DEF Spec


\* An auditor that still decides has told its user nothing.
NoVerdictYet == \A p \in Auditors :
    pc[p] \in {"load", "head", "clock", "status"} => verdict[p] = "none"

LEMMA NoVerdictStep == TypeOK /\ NoVerdictYet /\ [Next]_vars => NoVerdictYet'
<1> SUFFICES ASSUME TypeOK, NoVerdictYet, [Next]_vars PROVE NoVerdictYet'
  OBVIOUS
<1> USE DEF NoVerdictYet, TypeOK, Go, Tell, Done
<1>1. ASSUME NEW p \in Auditors, Auditor(p) PROVE NoVerdictYet'
  <2>1. ASSUME NEW enabled \in BOOLEAN, Start(p, enabled) PROVE NoVerdictYet'
    BY <2>1 DEF Start
  <2>2. CASE LoadState(p) \/ CurrentCommit(p) \/ CheckClock(p)
    BY <2>2 DEF LoadState, CurrentCommit, CheckClock, GoFull
  <2>3. CASE GitStatus(p)
    BY <2>3 DEF GitStatus, Narrow
  <2>4. CASE FastScan(p) \/ Report(p)
    BY <2>4 DEF FastScan, Report
  <2>5. CASE FullInventory(p) \/ FullHead(p) \/ OpenState(p) \/ WriteState(p)
    BY <2>5 DEF FullInventory, FullHead, OpenState, WriteState
  <2> QED BY <1>1, <2>1, <2>2, <2>3, <2>4, <2>5 DEF Auditor
<1>2. CASE Surroundings
  BY <1>2 DEF Surroundings, Edit, Commit, Checkout, Upgrade, Tick, SetBack, Clock,
              Crash, local
<1>3. CASE UNCHANGED vars
  BY <1>3 DEF vars, local
<1> QED BY <1>1, <1>2, <1>3 DEF Next

LEMMA NoVerdictInv == Spec => []NoVerdictYet
<1>1. Init => NoVerdictYet
  BY DEF Init, NoVerdictYet
<1> QED BY <1>1, NoVerdictStep, TypeCorrect, PTL DEF Spec

\* Only GitStatus narrows, and in a disciplined environment it hands over every
\* file that differs from HEAD.
LEMMA NarrowsByStatus ==
  ASSUME Disciplined, TypeOK, NoVerdictYet, [Next]_vars,
         NEW p \in Auditors, Narrows(p)
  PROVE  Narrow(p, Changed, Changed)
<1>1. pc[p] = "status" /\ verdict[p] = "none" /\ verdict'[p] # "none"
  BY DEF Narrows, NoVerdictYet
<1>2. PICK q \in Auditors : Auditor(q)
  BY <1>1 DEF Next, Surroundings, Edit, Commit, Checkout, Upgrade, Tick, SetBack, Clock,
              Crash, local, vars
<1>3. q = p
  <2> SUFFICES ASSUME q # p PROVE verdict'[p] = verdict[p]
    BY <1>1
  <2> USE DEF TypeOK, Tell, local
  <2>1. ASSUME NEW enabled \in BOOLEAN, Start(q, enabled) PROVE verdict'[p] = verdict[p]
    BY <2>1 DEF Start
  <2>2. CASE GitStatus(q)
    BY <2>2 DEF GitStatus, Narrow
  <2>3. CASE FastScan(q) \/ Report(q)
    BY <2>3 DEF FastScan, Report
  <2>4. CASE \/ LoadState(q) \/ CurrentCommit(q) \/ CheckClock(q)
             \/ FullInventory(q) \/ FullHead(q) \/ OpenState(q) \/ WriteState(q)
    BY <2>4 DEF LoadState, CurrentCommit, CheckClock, FullInventory, FullHead,
                OpenState, WriteState
  <2> QED BY <1>2, <2>1, <2>2, <2>3, <2>4 DEF Auditor
<1>4. GitStatus(p)
  BY <1>1, <1>2, <1>3 DEF Auditor, Start, LoadState, CurrentCommit, CheckClock, FastScan,
     FullInventory, FullHead, Report, OpenState, WriteState
<1>5. "gitfail" \notin Env /\ Changed \ Quoted = Changed
  BY DEF Disciplined
<1> QED BY <1>4, <1>5 DEF GitStatus

\* No step that narrows an audit misses a hard finding.
LEMMA NarrowStep ==
  ASSUME Disciplined, TypeOK, RecordCertified, CertifiedTrees, NoVerdictYet, [Next]_vars,
         NEW p \in Auditors, Narrows(p)
  PROVE  HardFiles(ver[p]) \subseteq scope'[p]
<1>1. Narrow(p, Changed, Changed)
  BY NarrowsByStatus
<1>2. pc[p] = "status"
  BY DEF Narrows
<1>3. scope'[p] = Changed
  BY <1>1 DEF Narrow, TypeOK
<1>4. rec[p].commit = head /\ head # NoHead /\ <<head, ver[p]>> \in certified
  BY <1>2 DEF CertifiedTrees, HeadCurrent, RecordCertified, HeldVouched, ChecksPassed,
              StillValid, Vouched, Clean
<1>5. \A f \in Files : tree[head][f] \notin Hard[ver[p]]
  BY <1>4 DEF CertifiedTrees, CertifiedClean, TypeOK
<1>6. \A f \in HardFiles(ver[p]) : wt[f] # tree[head][f]
  BY <1>5 DEF HardFiles
<1> QED BY <1>3, <1>4, <1>6 DEF Disciplined, Changed, Committed, HardFiles

\* Soundness: in a disciplined environment a narrowed audit misses no hard
\* finding, however many auditors run, crash, fail to save or are upgraded.
THEOREM NarrowedAuditsAreSound ==
  ASSUME Disciplined
  PROVE  Spec => NarrowCoversHard
<1>1. "undecided" \notin Env
  BY DEF Disciplined
<1> DEFINE Covers == \A p \in Auditors : Narrows(p) => HardFiles(ver[p]) \subseteq scope'[p]
<1>2. TypeOK /\ RecordCertified /\ CertifiedTrees /\ NoVerdictYet /\ [Next]_vars
        => [Covers]_vars
  BY NarrowStep
<1>3. Spec => [][Covers]_vars
  BY <1>1, <1>2, TypeCorrect, RecordsAreCertified, CertifiedTreesAreClean, NoVerdictInv,
     PTL DEF Spec
<1> QED BY <1>3 DEF NarrowCoversHard

-----------------------------------------------------------------------------
(* The last full audit that reported.  With one auditor, that is not killed *)
(* and whose saves succeed, the record on disk is the last report's.        *)

Undisturbed(a) == /\ Auditors = {a}
                  /\ Env \cap {"crash", "savefail", "undecided"} = {}

\* A clean record of the commit and version whose last full audit had findings.
Stale(r) == /\ ~lastFull.clean
            /\ Clean(r)
            /\ r.commit = lastFull.commit
            /\ r.version = lastFull.version

\* Between the report and the truncation of the file the record on disk may be stale;
\* it is not read meanwhile, and what the write puts there is the report's.
NoneStale(a) == /\ file = "record" /\ pc[a] # "open" => ~Stale(disk)
                /\ pc[a] \in {"head", "clock", "status", "open", "write"} => ~Stale(rec[a])
                /\ pc[a] = "write" => file = "empty"

LEMMA NoneStaleAuditor ==
  ASSUME NEW a, Undisturbed(a), TypeOK, NoneStale(a), HistNext, Auditor(a)
  PROVE  NoneStale(a)'
<1> USE DEF Undisturbed, TypeOK, NoneStale, Go, Tell, Done, repo, state, local, ghosts
<1>r. CASE Report(a)
  <2>1. rec'[a] = [commit |-> rpt[a].head, hard |-> rpt[a].hard, caps |-> rpt[a].caps,
                   version |-> ver[a], age |-> 0]
    BY <1>r DEF Report, SavedHard
  <2>2. pc[a] = "full" /\ pc'[a] = "open"
    BY <1>r DEF Report
  <2>3. lastFull' = [commit |-> rpt[a].head, version |-> ver[a], clean |-> Clean(rpt[a])]
    BY <2>2 DEF HistNext, Reporting
  <2>4. Clean(rec'[a]) = Clean(rpt[a])
    BY <2>1 DEF Clean
  <2>5. lastFull'.clean = Clean(rpt[a])
    BY <2>3
  <2> QED BY <2>2, <2>4, <2>5 DEF Stale, Clean
<1>1. CASE ~Report(a)
  <2>1. UNCHANGED lastFull
    <3>1. ~Reporting(a)
      BY <1>1 DEF Auditor, Reporting, Start, LoadState, CurrentCommit, CheckClock, GoFull,
                  GitStatus, Narrow, FastScan, FullInventory, FullHead, OpenState, WriteState
    <3> QED BY <3>1 DEF HistNext
  <2> USE <2>1 DEF Stale
  <2>2. ASSUME NEW enabled \in BOOLEAN, Start(a, enabled) PROVE NoneStale(a)'
    BY <2>2 DEF Start
  <2>3. CASE LoadState(a)
    BY <2>3 DEF LoadState
  <2>4. CASE CurrentCommit(a) \/ CheckClock(a)
    BY <2>4 DEF CurrentCommit, CheckClock, GoFull
  <2>5. CASE GitStatus(a)
    BY <2>5 DEF GitStatus, Narrow
  <2>6. CASE FastScan(a) \/ FullInventory(a) \/ FullHead(a)
    BY <2>6 DEF FastScan, FullInventory, FullHead
  <2>7. CASE OpenState(a)
    BY <2>7 DEF OpenState
  <2>8. CASE WriteState(a)
    BY <2>8 DEF WriteState
  <2> QED BY <1>1, <2>2, <2>3, <2>4, <2>5, <2>6, <2>7, <2>8 DEF Auditor
<1> QED BY <1>r, <1>1

LEMMA NoneStaleSurroundings ==
  ASSUME NEW a, Undisturbed(a), TypeOK, NoneStale(a), HistNext, Surroundings
  PROVE  NoneStale(a)'
<1> USE DEF NoneStale, Stale, Clean, repo, state, local, ghosts
<1>1. UNCHANGED pc /\ UNCHANGED lastFull /\ UNCHANGED file
  <2>1. UNCHANGED pc /\ UNCHANGED file
    BY DEF Undisturbed, Surroundings, Edit, Commit, Checkout, Upgrade, Tick, SetBack, Clock,
           Crash
  <2> QED BY <2>1 DEF HistNext, Reporting, Undisturbed
<1>2. ASSUME NEW d \in Int, Clock(d) PROVE NoneStale(a)'
  <2>1. /\ disk'.commit = disk.commit /\ disk'.version = disk.version
        /\ disk'.hard = disk.hard /\ disk'.caps = disk.caps
    BY <1>2, ShiftedRecord DEF Clock, TypeOK
  <2>2. /\ rec'[a].commit = rec[a].commit /\ rec'[a].version = rec[a].version
        /\ rec'[a].hard = rec[a].hard /\ rec'[a].caps = rec[a].caps
    BY <1>2, ShiftedRecord DEF Clock, TypeOK, Undisturbed
  <2> QED BY <1>1, <2>1, <2>2
<1>3. CASE Tick \/ SetBack
  BY <1>2, <1>3 DEF Tick, SetBack
<1>4. CASE ~(Tick \/ SetBack)
  <2>1. UNCHANGED <<disk, rec>>
    BY <1>4 DEF Undisturbed, Surroundings, Edit, Commit, Checkout, Upgrade, Crash
  <2> QED BY <1>1, <2>1
<1> QED BY <1>3, <1>4

LEMMA NoneStaleStep ==
  ASSUME NEW a, Undisturbed(a), TypeOK, NoneStale(a), [HistNext]_<<vars, lastFull>>
  PROVE  NoneStale(a)'
<1>1. CASE UNCHANGED <<vars, lastFull>>
  BY <1>1 DEF NoneStale, Stale, Clean, vars, state, local
<1>2. CASE HistNext
  <2>1. Auditor(a) \/ Surroundings
    BY <1>2 DEF HistNext, Next, Undisturbed
  <2> QED BY <1>2, <2>1, NoneStaleAuditor, NoneStaleSurroundings
<1> QED BY <1>1, <1>2

LEMMA HistoryOfSpec == HistSpec => Spec
<1>1. HistInit => Init
  BY DEF HistInit
<1>2. [HistNext]_<<vars, lastFull>> => [Next]_vars
  BY DEF HistNext
<1> QED BY <1>1, <1>2, PTL DEF HistSpec, Spec

\* An auditor that works alone, is not killed and saves what it reports never narrows an
\* audit of a commit whose last full audit had findings, whatever the developer, git, the
\* clock and an upgrade do meanwhile.
THEOREM NarrowedOnlyWhenClean ==
  ASSUME NEW a, Undisturbed(a) PROVE HistSpec => NoNarrowAfterDirtyFull
<1> DEFINE Warranted == \A p \in Auditors : Narrows(p) =>
                          ~ /\ lastFull.commit = rec[p].commit
                            /\ lastFull.version = ver[p]
                            /\ ~lastFull.clean
<1>1. "undecided" \notin Env
  BY DEF Undisturbed
<1>2. HistInit => NoneStale(a)
  BY DEF HistInit, Init, NoneStale, Undisturbed
<1>3. TypeOK /\ NoneStale(a) /\ [HistNext]_<<vars, lastFull>> => NoneStale(a)'
  BY NoneStaleStep
<1>4. NoneStale(a) /\ RecordCertified => Warranted
  BY DEF NoneStale, Stale, RecordCertified, ChecksPassed, StillValid, Narrows, Undisturbed, Clean
<1>5. HistSpec => [][Warranted]_<<vars, lastFull>>
  BY <1>1, <1>2, <1>3, <1>4, HistoryOfSpec, TypeCorrect, RecordsAreCertified, PTL DEF HistSpec
<1> QED BY <1>5 DEF NoNarrowAfterDirtyFull
=============================================================================
