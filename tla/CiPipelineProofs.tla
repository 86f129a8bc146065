-------------------------- MODULE CiPipelineProofs --------------------------
(***************************************************************************)
(* CiPipeline for any number of runs, attempts and commits.                *)
(***************************************************************************)
EXTENDS CiPipeline, TLAPS

Active(r, j) == job[r][j].state \in {"waiting", "running"}

\* A job that is still to come belongs to the run's attempt.
CurrentAttempt == \A r \in Runs : \A j \in Jobs :
    Active(r, j) => Made(r) /\ job[r][j].attempt = run[r].attempt
QualityIsEarned == \A r \in Runs :
    Succeeded(r, "quality") => Made(r) /\ Attempt(r, job[r]["quality"].attempt) \in passed
PublisherIsRight == \A r \in Runs : Publishing(r) =>
    Succeeded(r, "required") /\ run[r].event = "push" /\ run[r].ref = "main"
TagsKnown == \A c \in Commits : /\ tag[c].by = "nobody" => tag[c].to = NoCommit
                                /\ tag[c].by = "workflow" => tag[c].to = c

\* Who runs has the turn of its group, and of two runs one stands before the other.
TurnsKept == \A r \in Runs : \A j \in Jobs : job[r][j].state = "running" => Turn(r)
PlacesDiffer == /\ \A r \in Runs : run[r].place <= line
                /\ \A q, r \in Runs : (Made(q) /\ Made(r) /\ q # r) => run[q].place # run[r].place
Untried == \A r \in Runs :
    (~Made(r) \/ job[r]["publish-ci-tag"].state = "waiting") => found[r] = "nothing yet"
AbsentForUs == \A r \in Runs : (Publishing(r) /\ found[r] = "absent") =>
    tag[run[r].head].by # "workflow"

Inv == /\ TypeOK /\ CurrentAttempt /\ QualityIsEarned /\ RequiredIsEarned /\ PublisherIsRight
       /\ TagsKnown /\ TurnsKept /\ PlacesDiffer /\ Untried /\ AbsentForUs
       /\ PublishedIsRight /\ PublishersTakeTurns

States == Verdicts \cup {"waiting", "running"}
JobType == [Runs -> [Jobs -> [state : States, attempt : 0 .. MaxAttempts]]]
RunType == [Runs -> [event : Events, ref : {"main", "pull"}, head : Commits \cup {NoCommit},
                     attempt : 0 .. MaxAttempts, place : Nat]]

-----------------------------------------------------------------------------
(* What a step of one job leaves as it is.                                 *)

LEMMA Pointwise ==
  ASSUME job \in JobType, NEW r \in Runs, NEW j \in Jobs, NEW st \in States, Moves(r, j, st)
  PROVE  /\ job' \in JobType
         /\ \A q \in Runs : \A k \in Jobs :
               /\ job'[q][k].attempt = job[q][k].attempt
               /\ job'[q][k].state = IF q = r /\ k = j THEN st ELSE job[q][k].state
<1>1. job' = [job EXCEPT ![r] = [job[r] EXCEPT ![j] = [job[r][j] EXCEPT !.state = st]]]
  BY DEF Moves
<1>2. job[r] \in [Jobs -> [state : States, attempt : 0 .. MaxAttempts]]
  BY DEF JobType
<1>3. [job[r][j] EXCEPT !.state = st] \in [state : States, attempt : 0 .. MaxAttempts]
  BY <1>2
<1>4. [job[r] EXCEPT ![j] = [job[r][j] EXCEPT !.state = st]]
        \in [Jobs -> [state : States, attempt : 0 .. MaxAttempts]]
  BY <1>2, <1>3
<1>5. job' \in JobType
  BY <1>1, <1>4 DEF JobType
<1>6. ASSUME NEW q \in Runs, NEW k \in Jobs
      PROVE  /\ job'[q][k].attempt = job[q][k].attempt
             /\ job'[q][k].state = IF q = r /\ k = j THEN st ELSE job[q][k].state
  BY <1>1, <1>2 DEF JobType
<1> QED BY <1>5, <1>6

LEMMA TypeParts == TypeOK <=> /\ run \in RunType /\ cancelled \subseteq Runs /\ line \in Nat
                              /\ job \in JobType
                              /\ found \in [Runs -> {"nothing yet", "absent", "right", "mismatch", "error"}]
                              /\ tag \in [Commits -> [to : Commits \cup {NoCommit, Foreign}, by : Makers]]
                              /\ passed \subseteq [run : Runs, attempt : 1 .. MaxAttempts, head : Commits]
                              /\ \A r \in Runs : Made(r) <=> run[r].head \in Commits
BY DEF TypeOK, RunType, JobType, States

LEMMA JobNames == /\ "quality" \in Jobs /\ "required" \in Jobs /\ "publish-ci-tag" \in Jobs
                  /\ {"success", "failure", "cancelled", "skipped", "running", "waiting"} = States
BY DEF Jobs, States, Verdicts

LEMMA JobTyped == Inv => job \in JobType
BY TypeParts DEF Inv

LEMMA LineTyped == Inv => line \in Nat /\ \A r \in Runs : run[r].place \in Nat
BY TypeParts DEF Inv, RunType

LEMMA HeadsKnown == Inv => \A r \in Runs : Made(r) <=> run[r].head \in Commits
BY TypeParts DEF Inv

\* The parts of the invariant about jobs and turns, for every step of a job.
LEMMA JobStep ==
  ASSUME Inv, NEW r \in Runs, NEW j \in Jobs, NEW st \in States \ {"waiting"},
         Active(r, j), Moves(r, j, st), UNCHANGED <<run, line>>, passed \subseteq passed',
         st = "running" => Turn(r),
         (j = "quality" /\ st = "success") => Attempt(r, run[r].attempt) \in passed',
         (j = "required" /\ st = "success") => Attempt(r, run[r].attempt) \in passed',
         (j = "publish-ci-tag" /\ st = "running") =>
             Succeeded(r, "required") /\ run[r].event = "push" /\ run[r].ref = "main"
  PROVE  /\ CurrentAttempt' /\ QualityIsEarned' /\ RequiredIsEarned' /\ PublisherIsRight'
         /\ TurnsKept' /\ PlacesDiffer'
<1>p. /\ job' \in JobType
      /\ \A q \in Runs : \A k \in Jobs :
            /\ job'[q][k].attempt = job[q][k].attempt
            /\ job'[q][k].state = IF q = r /\ k = j THEN st ELSE job[q][k].state
  BY JobTyped, Pointwise
<1>a. job[r][j].attempt = run[r].attempt /\ Made(r)
  BY DEF Inv, CurrentAttempt
<1>m. \A q \in Runs : Made(q)' <=> Made(q)
  BY DEF Made
<1>t. \A n : \A q \in Runs : Attempt(q, n)' = Attempt(q, n)
  BY DEF Attempt
<1>1. CurrentAttempt'
  BY <1>p, <1>a, <1>m DEF Inv, CurrentAttempt, Active
<1>2. QualityIsEarned'
  BY <1>p, <1>a, <1>m, <1>t, JobNames DEF Inv, QualityIsEarned, Succeeded
<1>3. RequiredIsEarned'
  BY <1>p, <1>a, <1>t, JobNames DEF Inv, RequiredIsEarned, Succeeded
<1>4. PublisherIsRight'
  BY <1>p, JobNames DEF Inv, PublisherIsRight, Publishing, Succeeded, Active
<1>5. TurnsKept'
  <2>1. \A q \in Runs : Over(q) => Over(q)'
    BY <1>p DEF Over, Ended, Active, Verdicts, States
  <2>2. \A q \in Runs : Turn(q) => Turn(q)'
    BY <2>1, <1>m DEF Turn, Group
  <2>3. ASSUME NEW q \in Runs, NEW k \in Jobs, job'[q][k].state = "running" PROVE Turn(q)
    BY <2>3, <1>p DEF Inv, TurnsKept
  <2> QED BY <2>2, <2>3 DEF TurnsKept
<1>6. PlacesDiffer'
  BY <1>m DEF Inv, PlacesDiffer
<1> QED BY <1>1, <1>2, <1>3, <1>4, <1>5, <1>6

\* ... and those about tags, for the steps that touch none.
LEMMA UntaggedStep ==
  ASSUME Inv, NEW r \in Runs, NEW j \in Jobs, NEW st \in States \ {"waiting"},
         Active(r, j), Moves(r, j, st), UNCHANGED <<run, found, tag>>,
         j = "publish-ci-tag" => st \notin {"success", "failure"},
         (j = "publish-ci-tag" /\ st = "running") => job[r][j].state = "waiting"
  PROVE  TagsKnown' /\ Untried' /\ AbsentForUs' /\ PublishedIsRight' /\ PublishersTakeTurns'
<1>p. \A q \in Runs : \A k \in Jobs :
         job'[q][k].state = IF q = r /\ k = j THEN st ELSE job[q][k].state
  BY JobTyped, Pointwise
<1>m. \A q \in Runs : Made(q)' <=> Made(q)
  BY DEF Made
<1>1. TagsKnown'
  BY DEF Inv, TagsKnown
<1>2. Untried'
  BY <1>p, <1>m, JobNames DEF Inv, Untried
<1>3. AbsentForUs'
  BY <1>p, JobNames DEF Inv, AbsentForUs, Publishing, Untried
<1>4. PublishedIsRight'
  BY <1>p, <1>m, JobNames DEF Inv, PublishedIsRight, Succeeded
<1>5. PublishersTakeTurns'
  BY <1>p, <1>m, JobNames DEF Inv, PublishersTakeTurns
<1> QED BY <1>1, <1>2, <1>3, <1>4, <1>5

LEMMA JobType1 ==
  ASSUME Inv, NEW r \in Runs, NEW j \in Jobs, NEW st \in States, Moves(r, j, st),
         UNCHANGED <<run, cancelled, line, found, tag, passed>>
  PROVE  TypeOK'
<1>1. job' \in JobType
  BY Pointwise, TypeParts DEF Inv
<1>2. \A q \in Runs : Made(q)' <=> Made(q)
  BY DEF Made
<1>3. TypeOK
  BY DEF Inv
<1> QED BY <1>1, <1>2, <1>3 DEF TypeOK, JobType, States
-----------------------------------------------------------------------------
(* A run enters its group, anew or again.                                  *)

\* What is seen of it, field by field.
Entered(r, again) ==
    /\ run' \in RunType /\ \A q \in Runs \ {r} : run'[q] = run[q]
    /\ Made(r) => /\ run'[r].event = run[r].event /\ run'[r].ref = run[r].ref
                   /\ run'[r].head = run[r].head
    /\ run'[r].head \in Commits /\ run'[r].attempt > 0
    /\ run'[r].place = line + 1 /\ line' = line + 1
    /\ cancelled' \subseteq Runs
    /\ job' \in JobType /\ \A q \in Runs \ {r} : job'[q] = job[q]
    /\ \A j \in again : job'[r][j].state = "waiting" /\ job'[r][j].attempt = run'[r].attempt
    /\ \A j \in Jobs \ again : job'[r][j] = job[r][j] /\ Made(r) /\ Succeeded(r, j)
    /\ found' \in [Runs -> {"nothing yet", "absent", "right", "mismatch", "error"}]
    /\ found'[r] = "nothing yet" /\ \A q \in Runs \ {r} : found'[q] = found[q]
    /\ UNCHANGED <<tag, passed>>

LEMMA EntryStep ==
  ASSUME Inv, NEW r \in Runs, NEW again \in SUBSET Jobs, Entered(r, again), ~Made(r) \/ Over(r)
  PROVE  Inv'
<1>r. /\ run' \in RunType
      /\ \A q \in Runs \ {r} : run'[q] = run[q]
      /\ Made(r) => /\ run'[r].event = run[r].event /\ run'[r].ref = run[r].ref
                     /\ run'[r].head = run[r].head
      /\ run'[r].head \in Commits /\ run'[r].attempt > 0
      /\ run'[r].place = line + 1 /\ line' = line + 1
  BY DEF Entered
<1>j. /\ job' \in JobType
      /\ \A q \in Runs \ {r} : job'[q] = job[q]
      /\ \A j \in again : job'[r][j].state = "waiting" /\ job'[r][j].attempt = run'[r].attempt
      /\ \A j \in Jobs \ again : job'[r][j] = job[r][j]
  BY DEF Entered
<1>m. /\ Made(r)' /\ \A q \in Runs \ {r} : Made(q)' <=> Made(q)
      /\ \A j \in Jobs : ~Active(r, j)
  <2>1. Made(r)' /\ \A q \in Runs \ {r} : Made(q)' <=> Made(q)
    BY <1>r DEF Made
  <2>2. ASSUME NEW j \in Jobs PROVE ~Active(r, j)
    BY DEF Inv, CurrentAttempt, Over, Ended, Active, Verdicts
  <2> QED BY <2>1, <2>2
<1>f. /\ found' \in [Runs -> {"nothing yet", "absent", "right", "mismatch", "error"}]
      /\ found'[r] = "nothing yet" /\ \A q \in Runs \ {r} : found'[q] = found[q]
  BY DEF Entered
<1>k. tag' = tag /\ passed' = passed
  BY DEF Entered
<1>u. \A j \in Jobs \ again : Made(r) /\ Succeeded(r, j)
  BY DEF Entered
<1>1. TypeOK'
  <2>1. cancelled' \subseteq Runs
    BY DEF Entered
  <2>2. line' \in Nat
    BY <1>r, LineTyped
  <2>3. \A q \in Runs : Made(q)' <=> run'[q].head \in Commits
    BY <1>r, <1>m, HeadsKnown
  <2>4. TypeOK
    BY DEF Inv
  <2> QED BY <1>r, <1>j, <1>f, <1>k, <2>1, <2>2, <2>3, <2>4 DEF TypeOK, RunType, JobType, States
<1>2. CurrentAttempt'
  <2> SUFFICES ASSUME NEW q \in Runs, NEW j \in Jobs, Active(q, j)'
               PROVE  Made(q)' /\ job'[q][j].attempt = run'[q].attempt
    BY DEF CurrentAttempt
  <2>1. CASE q = r
    BY <2>1, <1>r, <1>j, <1>m DEF Active
  <2>2. CASE q # r
    BY <2>2, <1>r, <1>j, <1>m DEF Active, Inv, CurrentAttempt
  <2> QED BY <2>1, <2>2
<1>3. QualityIsEarned'
  <2> SUFFICES ASSUME NEW q \in Runs, Succeeded(q, "quality")'
               PROVE  (Made(q) /\ Attempt(q, job[q]["quality"].attempt) \in passed)'
    BY DEF QualityIsEarned
  <2>1. CASE q = r
    BY <2>1, <1>r, <1>k, <1>j, <1>m, <1>u, JobNames DEF Attempt, Succeeded, Inv, QualityIsEarned
  <2>2. CASE q # r
    BY <2>2, <1>r, <1>k, <1>j, <1>m, JobNames DEF Attempt, Succeeded, Inv, QualityIsEarned
  <2> QED BY <2>1, <2>2
<1>4. RequiredIsEarned'
  <2> SUFFICES ASSUME NEW q \in Runs, Succeeded(q, "required")'
               PROVE  (Attempt(q, job[q]["required"].attempt) \in passed)'
    BY DEF RequiredIsEarned
  <2>1. CASE q = r
    BY <2>1, <1>r, <1>k, <1>j, <1>m, <1>u, JobNames DEF Attempt, Succeeded, Inv, RequiredIsEarned
  <2>2. CASE q # r
    BY <2>2, <1>r, <1>k, <1>j, <1>m, JobNames DEF Attempt, Succeeded, Inv, RequiredIsEarned
  <2> QED BY <2>1, <2>2
<1>5. PublisherIsRight'
  <2> SUFFICES ASSUME NEW q \in Runs, Publishing(q)'
               PROVE  Succeeded(q, "required")' /\ run'[q].event = "push" /\ run'[q].ref = "main"
    BY DEF PublisherIsRight
  <2>1. q # r
    BY <1>j, <1>m, <1>u, JobNames DEF Publishing, Active, Succeeded
  <2> QED BY <2>1, <1>r, <1>j, JobNames DEF Publishing, Inv, PublisherIsRight, Succeeded
<1>6. TagsKnown'
  BY <1>k DEF Inv, TagsKnown
<1>7. TurnsKept'
  <2> SUFFICES ASSUME NEW q \in Runs, NEW j \in Jobs, job'[q][j].state = "running"
               PROVE  Turn(q)'
    BY DEF TurnsKept
  <2>1. q # r
    BY <1>j, <1>m, <1>u DEF Active, Succeeded
  <2>2. Turn(q) /\ run[q].place \in Nat /\ run[q].place <= line
    BY <2>1, <1>j, LineTyped DEF Inv, TurnsKept, PlacesDiffer
  <2> SUFFICES ASSUME NEW p \in Runs, Made(p)', Group(p)' = Group(q)', run'[p].place < run'[q].place
               PROVE  Over(p)'
    BY DEF Turn
  <2>3. p # r
    BY <2>1, <2>2, <1>r, LineTyped
  <2>4. Over(p)
    BY <2>1, <2>2, <2>3, <1>r, <1>m DEF Turn, Group
  <2> QED BY <2>3, <2>4, <1>j DEF Over, Ended
<1>8. PlacesDiffer'
  <2>1. line \in Nat /\ \A q \in Runs : run[q].place \in Nat /\ run[q].place <= line
    BY LineTyped DEF Inv, PlacesDiffer
  <2>2. \A q \in Runs : run'[q].place <= line'
    BY <2>1, <1>r
  <2>3. \A q, p \in Runs : (Made(q)' /\ Made(p)' /\ q # p) => run'[q].place # run'[p].place
    BY <2>1, <1>r, <1>m DEF Inv, PlacesDiffer
  <2> QED BY <2>2, <2>3 DEF PlacesDiffer
<1>9. Untried'
  BY <1>j, <1>m, <1>f, JobNames DEF Inv, Untried
<1>10. AbsentForUs'
  BY <1>r, <1>j, <1>m, <1>f, <1>k, JobNames DEF Inv, AbsentForUs, Publishing
<1>11. PublishedIsRight'
  <2> SUFFICES ASSUME NEW q \in Runs, Made(q)', Succeeded(q, "publish-ci-tag")'
               PROVE  tag[run'[q].head].to = run'[q].head
    BY <1>k DEF PublishedIsRight
  <2>1. CASE q = r
    BY <2>1, <1>k, <1>r, <1>j, <1>u, JobNames DEF Succeeded, Inv, PublishedIsRight
  <2>2. CASE q # r
    BY <2>2, <1>k, <1>r, <1>j, <1>m, JobNames DEF Succeeded, Inv, PublishedIsRight
  <2> QED BY <2>1, <2>2
<1>12. PublishersTakeTurns'
  <2> SUFFICES ASSUME NEW q \in Runs, Made(q)', job'[q]["publish-ci-tag"].state = "failure",
                      found'[q] # "error"
               PROVE  tag[run'[q].head].by = "other"
    BY <1>k DEF PublishersTakeTurns
  <2>1. q # r
    BY <1>j, <1>u, JobNames DEF Succeeded
  <2> QED BY <2>1, <1>k, <1>r, <1>j, <1>m, <1>f, JobNames DEF Inv, PublishersTakeTurns
<1> QED BY <1>1, <1>2, <1>3, <1>4, <1>5, <1>6, <1>7, <1>8, <1>9, <1>10, <1>11, <1>12 DEF Inv

LEMMA EnterPointwise ==
  ASSUME Inv, NEW r \in Runs, NEW event \in Events, NEW ref \in {"main", "pull"}, NEW head \in Commits,
         NEW n \in 1 .. MaxAttempts, Enter(r, event, ref, head, n)
  PROVE  /\ run' \in RunType /\ \A q \in Runs \ {r} : run'[q] = run[q]
         /\ run'[r].event = event /\ run'[r].ref = ref /\ run'[r].head = head
         /\ run'[r].attempt = n /\ run'[r].attempt > 0
         /\ run'[r].place = line + 1 /\ line' = line + 1
         /\ cancelled' \subseteq Runs
<1> DEFINE e == [event |-> event, ref |-> ref, head |-> head, attempt |-> n, place |-> line + 1]
<1>1. e \in [event : Events, ref : {"main", "pull"}, head : Commits \cup {NoCommit},
             attempt : 0 .. MaxAttempts, place : Nat]
  BY LineTyped, AttemptsAssumption
<1>2. run' = [run EXCEPT ![r] = e] /\ line' = line + 1
  BY DEF Enter
<1>3. run \in RunType
  BY TypeParts DEF Inv
<1>4. /\ e.event = event /\ e.ref = ref /\ e.head = head /\ e.attempt = n /\ e.place = line + 1
  OBVIOUS
<1> HIDE DEF e
<1>5. run' \in RunType /\ run'[r] = e /\ \A q \in Runs \ {r} : run'[q] = run[q]
  BY <1>1, <1>2, <1>3 DEF RunType
<1>6. cancelled' \subseteq Runs
  BY TypeParts DEF Inv, Enter, InGroup
<1>7. n > 0
  BY AttemptsAssumption
<1> QED BY <1>2, <1>4, <1>5, <1>6, <1>7

\* The jobs that are repeated wait, the others stay as they are.
LEMMA AgainPointwise ==
  ASSUME Inv, NEW r \in Runs, NEW again \in SUBSET Jobs, NEW n \in 1 .. MaxAttempts,
         job' = [job EXCEPT ![r] = [j \in Jobs |->
             IF j \in again THEN [state |-> "waiting", attempt |-> n] ELSE job[r][j]]]
  PROVE  /\ job' \in JobType /\ \A q \in Runs \ {r} : job'[q] = job[q]
         /\ \A j \in again : job'[r][j].state = "waiting" /\ job'[r][j].attempt = n
         /\ \A j \in Jobs \ again : job'[r][j] = job[r][j]
<1> DEFINE w == [state |-> "waiting", attempt |-> n]
           e == [j \in Jobs |-> IF j \in again THEN w ELSE job[r][j]]
<1>1. job \in JobType
  BY JobTyped
<1>2. w \in [state : States, attempt : 0 .. MaxAttempts] /\ w.state = "waiting" /\ w.attempt = n
  BY AttemptsAssumption DEF States
<1>3. job' = [job EXCEPT ![r] = e]
  OBVIOUS
<1> HIDE DEF w
<1>4. e \in [Jobs -> [state : States, attempt : 0 .. MaxAttempts]]
  BY <1>1, <1>2 DEF JobType
<1>5. (\A j \in again : e[j] = w) /\ (\A j \in Jobs \ again : e[j] = job[r][j])
  OBVIOUS
<1> HIDE DEF e
<1>6. job' \in JobType /\ job'[r] = e /\ \A q \in Runs \ {r} : job'[q] = job[q]
  BY <1>1, <1>3, <1>4 DEF JobType
<1> QED BY <1>2, <1>5, <1>6

LEMMA TriggerStep ==
  ASSUME Inv, NEW r \in Runs, NEW event \in Events, NEW ref \in {"main", "pull"}, NEW c \in Commits,
         Trigger(r, event, ref, c)
  PROVE  Inv'
<1>1. Enter(r, event, ref, c, 1) /\ ~Made(r) /\ UNCHANGED <<found, tag, passed>>
  BY DEF Trigger
<1>2. 1 \in 1 .. MaxAttempts
  BY AttemptsAssumption
<1>3. job' = [job EXCEPT ![r] = [j \in Jobs |->
             IF j \in Jobs THEN [state |-> "waiting", attempt |-> 1] ELSE job[r][j]]]
  BY DEF Trigger
<1>4. found' \in [Runs -> {"nothing yet", "absent", "right", "mismatch", "error"}] /\ found'[r] = "nothing yet"
  BY <1>1, TypeParts DEF Inv, Untried
<1>5. /\ run' \in RunType /\ \A q \in Runs \ {r} : run'[q] = run[q]
      /\ run'[r].head = c /\ run'[r].attempt = 1 /\ run'[r].place = line + 1 /\ line' = line + 1
      /\ cancelled' \subseteq Runs
  BY <1>1, <1>2, EnterPointwise
<1>6. /\ job' \in JobType /\ \A q \in Runs \ {r} : job'[q] = job[q]
      /\ \A j \in Jobs : job'[r][j].state = "waiting" /\ job'[r][j].attempt = 1
  <2>1. Jobs \in SUBSET Jobs
    OBVIOUS
  <2> QED BY <1>2, <1>3, <2>1, AgainPointwise
<1>7. Entered(r, Jobs)
  <2>1. run'[r].attempt > 0 /\ \A q \in Runs \ {r} : found'[q] = found[q]
    BY <1>1, <1>5
  <2>2. \A j \in Jobs \ Jobs : job'[r][j] = job[r][j] /\ Made(r) /\ Succeeded(r, j)
    OBVIOUS
  <2> QED BY <1>1, <1>4, <1>5, <1>6, <2>1, <2>2 DEF Entered
<1> QED BY <1>1, <1>7, EntryStep

LEMMA RepeatStep ==
  ASSUME Inv, NEW r \in Runs, NEW again \in SUBSET Jobs, Repeat(r, again),
         \A j \in Jobs \ again : Succeeded(r, j)
  PROVE  Inv'
<1> DEFINE n == run[r].attempt + 1
<1>1. Made(r) /\ Over(r) /\ run[r].attempt < MaxAttempts /\ UNCHANGED <<tag, passed>>
  BY DEF Repeat
<1>2. /\ run[r].event \in Events /\ run[r].ref \in {"main", "pull"}
      /\ run[r].attempt \in Nat
  <2>1. run \in RunType
    BY TypeParts DEF Inv
  <2>2. run[r].event \in Events /\ run[r].ref \in {"main", "pull"} /\ run[r].attempt \in 0 .. MaxAttempts
    BY <2>1 DEF RunType
  <2> QED BY <2>2, AttemptsAssumption
<1>3. run[r].head \in Commits
  BY <1>1, HeadsKnown
<1>4. n \in 1 .. MaxAttempts
  BY <1>1, <1>2, AttemptsAssumption
<1>5. Enter(r, run[r].event, run[r].ref, run[r].head, n)
  BY DEF Repeat
<1>6. job' = [job EXCEPT ![r] = [j \in Jobs |->
             IF j \in again THEN [state |-> "waiting", attempt |-> n] ELSE job[r][j]]]
  BY DEF Repeat
<1>7. /\ found' \in [Runs -> {"nothing yet", "absent", "right", "mismatch", "error"}]
      /\ found'[r] = "nothing yet" /\ \A q \in Runs \ {r} : found'[q] = found[q]
  BY TypeParts DEF Inv, Repeat
<1> HIDE DEF n
<1>8. /\ run' \in RunType /\ \A q \in Runs \ {r} : run'[q] = run[q]
      /\ run'[r].event = run[r].event /\ run'[r].ref = run[r].ref /\ run'[r].head = run[r].head
      /\ run'[r].attempt = n /\ run'[r].attempt > 0
      /\ run'[r].place = line + 1 /\ line' = line + 1
      /\ cancelled' \subseteq Runs
  BY <1>2, <1>3, <1>4, <1>5, EnterPointwise
<1>9. /\ job' \in JobType /\ \A q \in Runs \ {r} : job'[q] = job[q]
      /\ \A j \in again : job'[r][j].state = "waiting" /\ job'[r][j].attempt = n
      /\ \A j \in Jobs \ again : job'[r][j] = job[r][j]
  BY <1>4, <1>6, AgainPointwise
<1>10. Entered(r, again)
  BY <1>1, <1>3, <1>7, <1>8, <1>9 DEF Entered
<1> QED BY <1>1, <1>10, EntryStep

-----------------------------------------------------------------------------
(* The steps of the jobs.                                                  *)

LEMMA StartStep ==
  ASSUME Inv, NEW r \in Runs, NEW j \in Jobs, Starts(r, j),
         j = "publish-ci-tag" => Succeeded(r, "required") /\ run[r].event = "push" /\ run[r].ref = "main"
  PROVE  Inv'
<1>1. /\ Turn(r) /\ job[r][j].state = "waiting" /\ Active(r, j) /\ Moves(r, j, "running")
      /\ UNCHANGED <<run, cancelled, line, found, tag, passed>>
  BY DEF Starts, Active
<1>2. "running" \in States \ {"waiting"}
  BY JobNames
<1>3. TypeOK'
  BY <1>1, <1>2, JobType1
<1> QED BY <1>1, <1>2, <1>3, JobStep, UntaggedStep DEF Inv

\* A job that ends without a tag and without having earned anything.
LEMMA EndStep ==
  ASSUME Inv, NEW r \in Runs, NEW j \in Jobs, NEW st \in {"failure", "cancelled", "skipped"},
         Active(r, j), Moves(r, j, st), j = "publish-ci-tag" => st # "failure",
         UNCHANGED <<run, cancelled, line, found, tag, passed>>
  PROVE  Inv'
<1>1. st \in States \ {"waiting"} /\ st # "running" /\ st # "success"
  BY JobNames
<1>2. TypeOK'
  BY <1>1, JobType1
<1> QED BY <1>1, <1>2, JobStep, UntaggedStep DEF Inv

LEMMA QualityStep ==
  ASSUME Inv, NEW r \in Runs, QualityEnds(r)
  PROVE  Inv'
<1>0. /\ Active(r, "quality") /\ "quality" \in Jobs /\ Made(r)
      /\ UNCHANGED <<run, cancelled, line, found, tag>>
  BY JobNames DEF QualityEnds, Active, Inv, CurrentAttempt
<1>1. CASE Moves(r, "quality", "failure") /\ UNCHANGED passed
  BY <1>0, <1>1, EndStep
<1>2. CASE Moves(r, "quality", "success") /\ passed' = passed \cup {Attempt(r, run[r].attempt)}
  <2>1. "success" \in States \ {"waiting"} /\ passed \subseteq passed'
        /\ Attempt(r, run[r].attempt) \in passed'
    BY <1>2, JobNames
  <2>2. run[r].attempt \in 1 .. MaxAttempts /\ run[r].head \in Commits
    <3>1. run[r].attempt \in 0 .. MaxAttempts
      BY TypeParts DEF Inv, RunType
    <3> QED BY <1>0, <3>1, HeadsKnown, AttemptsAssumption DEF Made
  <2>3. passed' \subseteq [run : Runs, attempt : 1 .. MaxAttempts, head : Commits]
    <3>1. Attempt(r, run[r].attempt) \in [run : Runs, attempt : 1 .. MaxAttempts, head : Commits]
      BY <2>2 DEF Attempt
    <3> QED BY <1>2, <3>1, TypeParts DEF Inv
  <2>4. TypeOK'
    <3>1. job' \in JobType
      BY <1>0, <1>2, <2>1, JobTyped, Pointwise
    <3>2. \A q \in Runs : Made(q)' <=> Made(q)
      BY <1>0 DEF Made
    <3>3. TypeOK
      BY DEF Inv
    <3> QED BY <1>0, <2>3, <3>1, <3>2, <3>3 DEF TypeOK, JobType, States
  <2>5. TagsKnown' /\ Untried' /\ AbsentForUs' /\ PublishedIsRight' /\ PublishersTakeTurns'
    BY <1>0, <1>2, <2>1, UntaggedStep
  <2>6. /\ CurrentAttempt' /\ QualityIsEarned' /\ RequiredIsEarned' /\ PublisherIsRight'
        /\ TurnsKept' /\ PlacesDiffer'
    BY <1>0, <1>2, <2>1, JobStep
  <2> QED BY <2>4, <2>5, <2>6 DEF Inv
<1> QED BY <1>1, <1>2 DEF QualityEnds

LEMMA RequiredStep ==
  ASSUME Inv, NEW r \in Runs, RequiredEnds(r)
  PROVE  Inv'
<1>0. /\ Active(r, "required") /\ "required" \in Jobs /\ Made(r)
      /\ UNCHANGED <<run, cancelled, line, found, tag, passed>>
  BY JobNames DEF RequiredEnds, Active, Inv, CurrentAttempt
<1>1. CASE Moves(r, "required", "failure")
  BY <1>0, <1>1, EndStep
<1>2. CASE ValidJobs(r) /\ Moves(r, "required", "success")
  <2>1. "success" \in States \ {"waiting"}
    BY JobNames
  <2>2. Attempt(r, run[r].attempt) \in passed
    BY <1>2, JobNames DEF ValidJobs, Inv, QualityIsEarned
  <2>3. TypeOK'
    BY <1>0, <1>2, <2>1, JobType1
  <2>4. /\ CurrentAttempt' /\ QualityIsEarned' /\ RequiredIsEarned' /\ PublisherIsRight'
        /\ TurnsKept' /\ PlacesDiffer'
    BY <1>0, <1>2, <2>1, <2>2, JobStep
  <2>5. TagsKnown' /\ Untried' /\ AbsentForUs' /\ PublishedIsRight' /\ PublishersTakeTurns'
    BY <1>0, <1>2, <2>1, UntaggedStep
  <2> QED BY <2>3, <2>4, <2>5 DEF Inv
<1> QED BY <1>1, <1>2 DEF RequiredEnds

-----------------------------------------------------------------------------
(* The publisher, and who else makes tags.                                 *)

LEMMA PublisherFacts ==
  ASSUME Inv, NEW r \in Runs, Publishing(r)
  PROVE  /\ Active(r, "publish-ci-tag") /\ "publish-ci-tag" \in Jobs /\ Made(r)
         /\ run[r].head \in Commits /\ tag[run[r].head].by \in Makers
         /\ Turn(r) /\ run[r].ref = "main" /\ run[r].event = "push"
<1>1. Active(r, "publish-ci-tag") /\ "publish-ci-tag" \in Jobs /\ Made(r)
  BY JobNames DEF Publishing, Active, Inv, CurrentAttempt
<1>2. run[r].head \in Commits
  BY <1>1, HeadsKnown
<1>3. tag \in [Commits -> [to : Commits \cup {NoCommit, Foreign}, by : Makers]]
  BY TypeParts DEF Inv
<1>4. tag[run[r].head].by \in Makers
  BY <1>2, <1>3
<1>5. Turn(r) /\ run[r].ref = "main" /\ run[r].event = "push"
  BY <1>1 DEF Inv, TurnsKept, PublisherIsRight, Publishing
<1> QED BY <1>1, <1>2, <1>4, <1>5

\* Two publishers never run at a time: they stand in one group.
LEMMA OnePublisher ==
  ASSUME Inv, NEW q \in Runs, NEW r \in Runs, Publishing(q), Publishing(r)
  PROVE  q = r
<1>1. Turn(q) /\ Turn(r) /\ Made(q) /\ Made(r) /\ Group(q) = Group(r)
  BY PublisherFacts DEF Group
<1>2. ~Over(q) /\ ~Over(r)
  BY JobNames DEF Publishing, Over, Ended, Verdicts
<1>3. run[q].place \in Nat /\ run[r].place \in Nat
  BY LineTyped
<1>4. ~(run[q].place < run[r].place) /\ ~(run[r].place < run[q].place)
  BY <1>1, <1>2 DEF Turn
<1>5. q # r => run[q].place # run[r].place
  BY <1>1 DEF Inv, PlacesDiffer
<1> QED BY <1>3, <1>4, <1>5

\* A publisher that ends: what its verdict needs of the tag.
LEMMA PublishEnds ==
  ASSUME Inv, NEW r \in Runs, NEW st \in {"success", "failure"}, Publishing(r),
         Moves(r, "publish-ci-tag", st), UNCHANGED <<run, cancelled, line, passed>>,
         tag' \in [Commits -> [to : Commits \cup {NoCommit, Foreign}, by : Makers]], TagsKnown',
         found' \in [Runs -> {"nothing yet", "absent", "right", "mismatch", "error"}],
         \A q \in Runs \ {r} : found'[q] = found[q],
         \A c \in Commits : tag'[c] # tag[c] => tag[c].by = "nobody" /\ c = run[r].head,
         st = "success" => tag'[run[r].head].to = run[r].head,
         (st = "failure" /\ found'[r] # "error") => tag'[run[r].head].by = "other"
  PROVE  Inv'
<1>0. /\ Active(r, "publish-ci-tag") /\ "publish-ci-tag" \in Jobs /\ Made(r)
      /\ run[r].head \in Commits
  BY PublisherFacts
<1>1. st \in States \ {"waiting"} /\ st # "running"
  BY JobNames
<1>p. /\ job' \in JobType
      /\ \A q \in Runs : \A k \in Jobs :
            job'[q][k].state = IF q = r /\ k = "publish-ci-tag" THEN st ELSE job[q][k].state
  <2>1. job \in JobType /\ st \in States /\ Moves(r, "publish-ci-tag", st) /\ "publish-ci-tag" \in Jobs
    BY <1>0, <1>1, JobTyped
  <2>2. /\ job' \in JobType
        /\ \A q \in Runs : \A k \in Jobs :
              /\ job'[q][k].attempt = job[q][k].attempt
              /\ job'[q][k].state = IF q = r /\ k = "publish-ci-tag" THEN st ELSE job[q][k].state
    BY ONLY <2>1, r \in Runs, Pointwise
  <2> QED BY <2>2
<1>m. \A q \in Runs : Made(q)' <=> Made(q)
  BY DEF Made
<1>2. TypeOK'
  <2>1. TypeOK
    BY DEF Inv
  <2> QED BY <2>1, <1>p, <1>m DEF TypeOK, JobType, States
<1>3. /\ CurrentAttempt' /\ QualityIsEarned' /\ RequiredIsEarned' /\ PublisherIsRight'
      /\ TurnsKept' /\ PlacesDiffer'
  BY <1>0, <1>1, JobStep
<1>4. Untried'
  BY <1>p, <1>m, <1>0, JobNames DEF Inv, Untried
<1>5. \A q \in Runs : Publishing(q)' => FALSE
  <2> SUFFICES ASSUME NEW q \in Runs, Publishing(q)' PROVE FALSE
    OBVIOUS
  <2>1. q # r /\ Publishing(q)
    BY <1>p, <1>1, JobNames DEF Publishing
  <2> QED BY <2>1, OnePublisher
<1>6. AbsentForUs'
  BY <1>5 DEF AbsentForUs
<1>7. PublishedIsRight'
  <2> SUFFICES ASSUME NEW q \in Runs, Made(q), job'[q]["publish-ci-tag"].state = "success"
               PROVE  tag'[run[q].head].to = run[q].head
    BY <1>m DEF PublishedIsRight, Succeeded
  <2>1. CASE q = r
    BY <2>1, <1>p, <1>0
  <2>2. CASE q # r
    <3>1. tag[run[q].head].to = run[q].head /\ run[q].head \in Commits
      BY <2>2, <1>p, JobNames, HeadsKnown DEF Inv, PublishedIsRight, Succeeded
    <3>2. tag[run[q].head].by # "nobody"
      BY <3>1, ValuesAssumption DEF Inv, TagsKnown
    <3> QED BY <3>1, <3>2
  <2> QED BY <2>1, <2>2
<1>8. PublishersTakeTurns'
  <2> SUFFICES ASSUME NEW q \in Runs, Made(q), job'[q]["publish-ci-tag"].state = "failure",
                      found'[q] # "error"
               PROVE  tag'[run[q].head].by = "other"
    BY <1>m DEF PublishersTakeTurns
  <2>1. CASE q = r
    BY <2>1, <1>p, <1>0
  <2>2. CASE q # r
    <3>1. tag[run[q].head].by = "other" /\ run[q].head \in Commits
      BY <2>2, <1>p, JobNames, HeadsKnown DEF Inv, PublishersTakeTurns
    <3> QED BY <3>1
  <2> QED BY <2>1, <2>2
<1> QED BY <1>2, <1>3, <1>4, <1>6, <1>7, <1>8 DEF Inv

LEMMA LooksUpStep ==
  ASSUME Inv, NEW r \in Runs, LooksUp(r)
  PROVE  Inv'
<1>0. /\ Publishing(r) /\ UNCHANGED <<run, cancelled, line, tag, passed>>
      /\ Active(r, "publish-ci-tag") /\ "publish-ci-tag" \in Jobs /\ Made(r)
      /\ run[r].head \in Commits /\ tag[run[r].head].by \in Makers
  BY PublisherFacts DEF LooksUp
<1>1. PICK answer \in {TagNow(r), "error"} :
         /\ found' = [found EXCEPT ![r] = answer]
         /\ \/ answer = "absent" /\ UNCHANGED job
            \/ answer = "right" /\ Moves(r, "publish-ci-tag", "success")
            \/ answer \notin {"absent", "right"} /\ Moves(r, "publish-ci-tag", "failure")
  BY DEF LooksUp
<1>2. answer \in {"absent", "right", "mismatch", "error"}
  BY <1>1 DEF TagNow
<1>3. /\ found' \in [Runs -> {"nothing yet", "absent", "right", "mismatch", "error"}]
      /\ found'[r] = answer /\ \A q \in Runs \ {r} : found'[q] = found[q]
  BY <1>1, <1>2, TypeParts DEF Inv
<1>4. TagsKnown' /\ tag' \in [Commits -> [to : Commits \cup {NoCommit, Foreign}, by : Makers]]
  BY <1>0, TypeParts DEF Inv, TagsKnown
<1>5. CASE answer = "absent" /\ UNCHANGED job
  <2>1. \A q \in Runs : Made(q)' <=> Made(q)
    BY <1>0 DEF Made
  <2>2. tag[run[r].head].by # "workflow"
    BY <1>1, <1>5 DEF TagNow
  <2>3. TypeOK'
    BY <1>0, <1>3, <1>5, <2>1 DEF Inv, TypeOK
  <2>4. CurrentAttempt' /\ PublisherIsRight' /\ TurnsKept' /\ PlacesDiffer'
    BY <1>0, <1>5, <2>1 DEF Inv, CurrentAttempt, Active, PublisherIsRight, Publishing, Succeeded,
       TurnsKept, PlacesDiffer, Turn, Group, Over, Ended
  <2>5. QualityIsEarned' /\ RequiredIsEarned' /\ PublishedIsRight'
    BY <1>0, <1>5, <2>1 DEF Inv, QualityIsEarned, RequiredIsEarned, PublishedIsRight, Succeeded, Attempt
  <2>6. Untried' /\ AbsentForUs'
    BY <1>0, <1>3, <1>5, <2>1, <2>2 DEF Inv, Untried, AbsentForUs, Publishing
  <2>7. PublishersTakeTurns'
    BY <1>0, <1>3, <1>5, <2>1 DEF Inv, PublishersTakeTurns, Publishing
  <2> QED BY <1>4, <2>3, <2>4, <2>5, <2>6, <2>7 DEF Inv
<1>6. CASE answer = "right" /\ Moves(r, "publish-ci-tag", "success")
  <2>1. tag[run[r].head].to = run[r].head
    BY <1>1, <1>6 DEF TagNow
  <2> QED BY <1>0, <1>3, <1>4, <1>6, <2>1, PublishEnds
<1>7. CASE answer \notin {"absent", "right"} /\ Moves(r, "publish-ci-tag", "failure")
  <2>1. answer # "error" => tag[run[r].head].by = "other"
    BY <1>0, <1>1, <1>7 DEF TagNow, Inv, TagsKnown, Makers
  <2> QED BY <1>0, <1>3, <1>4, <1>7, <2>1, PublishEnds
<1> QED BY <1>1, <1>5, <1>6, <1>7

LEMMA CreatesStep ==
  ASSUME Inv, NEW r \in Runs, Creates(r)
  PROVE  Inv'
<1> DEFINE c == run[r].head
<1>0. /\ Publishing(r) /\ found[r] = "absent" /\ UNCHANGED <<run, cancelled, line, passed>>
      /\ c \in Commits /\ tag[c].by \in Makers
  BY PublisherFacts DEF Creates
<1>1. /\ tag \in [Commits -> [to : Commits \cup {NoCommit, Foreign}, by : Makers]]
      /\ found \in [Runs -> {"nothing yet", "absent", "right", "mismatch", "error"}]
      /\ TagsKnown
  BY TypeParts DEF Inv
<1>2. CASE /\ tag[c].by = "nobody" /\ tag' = [tag EXCEPT ![c] = [to |-> c, by |-> "workflow"]]
           /\ Moves(r, "publish-ci-tag", "success") /\ UNCHANGED found
  <2>1. /\ tag' \in [Commits -> [to : Commits \cup {NoCommit, Foreign}, by : Makers]]
        /\ tag'[c].to = c /\ tag'[c].by = "workflow" /\ \A d \in Commits \ {c} : tag'[d] = tag[d]
    BY <1>0, <1>1, <1>2 DEF Makers
  <2>2. TagsKnown'
    BY <1>1, <2>1 DEF TagsKnown
  <2> QED BY <1>0, <1>1, <1>2, <2>1, <2>2, PublishEnds
<1>3. CASE tag[c].by # "nobody" /\ Moves(r, "publish-ci-tag", "failure") /\ UNCHANGED <<tag, found>>
  <2>1. tag[c].by = "other"
    BY <1>0, <1>3 DEF Inv, AbsentForUs, Makers
  <2>2. TagsKnown'
    BY <1>1, <1>3 DEF TagsKnown
  <2> QED BY <1>0, <1>1, <1>3, <2>1, <2>2, PublishEnds
<1>4. CASE /\ Moves(r, "publish-ci-tag", "failure")
           /\ found' = [found EXCEPT ![r] = "error"] /\ UNCHANGED tag
  <2>1. /\ found' \in [Runs -> {"nothing yet", "absent", "right", "mismatch", "error"}]
        /\ found'[r] = "error" /\ \A q \in Runs \ {r} : found'[q] = found[q]
    BY <1>1, <1>4
  <2>2. TagsKnown'
    BY <1>1, <1>4 DEF TagsKnown
  <2> QED BY <1>0, <1>1, <1>4, <2>1, <2>2, PublishEnds
<1> QED BY <1>2, <1>3, <1>4 DEF Creates

LEMMA OthersStep ==
  ASSUME Inv, NEW c \in Contested, MadeByOthers(c)
  PROVE  Inv'
<1>1. c \in Commits /\ tag[c].by = "nobody" /\ UNCHANGED <<run, cancelled, line, job, found, passed>>
  BY ValuesAssumption DEF MadeByOthers
<1>2. PICK to \in {c, Foreign} : tag' = [tag EXCEPT ![c] = [to |-> to, by |-> "other"]]
  BY DEF MadeByOthers
<1>3. tag \in [Commits -> [to : Commits \cup {NoCommit, Foreign}, by : Makers]]
  BY TypeParts DEF Inv
<1>4. /\ tag' \in [Commits -> [to : Commits \cup {NoCommit, Foreign}, by : Makers]]
      /\ tag'[c].by = "other" /\ \A d \in Commits \ {c} : tag'[d] = tag[d]
  BY <1>1, <1>2, <1>3 DEF Makers
<1>m. \A q \in Runs : Made(q)' <=> Made(q)
  BY <1>1 DEF Made
<1>5. TypeOK'
  BY <1>1, <1>4, <1>m DEF Inv, TypeOK
<1>6. CurrentAttempt' /\ PublisherIsRight' /\ TurnsKept' /\ PlacesDiffer' /\ Untried'
  BY <1>1, <1>m DEF Inv, CurrentAttempt, Active, PublisherIsRight, Publishing, Succeeded,
     TurnsKept, PlacesDiffer, Turn, Group, Over, Ended, Untried
<1>7. QualityIsEarned' /\ RequiredIsEarned'
  BY <1>1, <1>m DEF Inv, QualityIsEarned, RequiredIsEarned, Succeeded, Attempt
<1>8. TagsKnown'
  BY <1>4 DEF Inv, TagsKnown
<1>9. AbsentForUs'
  <2> SUFFICES ASSUME NEW q \in Runs, Publishing(q), found[q] = "absent"
               PROVE  tag'[run[q].head].by # "workflow"
    BY <1>1 DEF AbsentForUs, Publishing
  <2>1. tag[run[q].head].by # "workflow" /\ run[q].head \in Commits
    BY PublisherFacts DEF Inv, AbsentForUs
  <2> QED BY <1>4, <2>1
<1>10. PublishedIsRight'
  <2> SUFFICES ASSUME NEW q \in Runs, Made(q), Succeeded(q, "publish-ci-tag")
               PROVE  tag'[run[q].head].to = run[q].head
    BY <1>1, <1>m DEF PublishedIsRight, Succeeded
  <2>1. tag[run[q].head].to = run[q].head /\ run[q].head \in Commits
    BY HeadsKnown DEF Inv, PublishedIsRight
  <2>2. run[q].head # c
    BY <1>1, <2>1, ValuesAssumption DEF Inv, TagsKnown
  <2> QED BY <1>4, <2>1, <2>2
<1>11. PublishersTakeTurns'
  <2> SUFFICES ASSUME NEW q \in Runs, Made(q), job[q]["publish-ci-tag"].state = "failure",
                      found[q] # "error"
               PROVE  tag'[run[q].head].by = "other"
    BY <1>1, <1>m DEF PublishersTakeTurns
  <2>1. tag[run[q].head].by = "other" /\ run[q].head \in Commits
    BY HeadsKnown DEF Inv, PublishersTakeTurns
  <2> QED BY <1>4, <2>1
<1> QED BY <1>5, <1>6, <1>7, <1>8, <1>9, <1>10, <1>11 DEF Inv

-----------------------------------------------------------------------------

LEMMA InitInv == Init => Inv
<1> SUFFICES ASSUME Init PROVE Inv
  OBVIOUS
<1>1. \A r \in Runs : /\ ~Made(r) /\ run[r].place = 0 /\ run[r].head = NoCommit
                       /\ found[r] = "nothing yet"
                       /\ \A j \in Jobs : job[r][j].state = "skipped"
  <2>1. \A r \in Runs : \A j \in Jobs : job[r][j].state = "skipped"
    BY DEF Init
  <2>2. \A r \in Runs : run[r].attempt = 0 /\ run[r].place = 0 /\ run[r].head = NoCommit
    BY DEF Init
  <2>3. \A r \in Runs : found[r] = "nothing yet"
    BY DEF Init
  <2>4. \A r \in Runs : ~Made(r)
    BY <2>2 DEF Made
  <2> QED BY <2>1, <2>2, <2>3, <2>4
<1>2. line = 0 /\ \A c \in Commits : tag[c].to = NoCommit /\ tag[c].by = "nobody"
  BY DEF Init
<1>3. TypeOK
  <2>1. run \in RunType
    <3> DEFINE e == [event |-> "push", ref |-> "main", head |-> NoCommit, attempt |-> 0, place |-> 0]
    <3>1. e \in [event : Events, ref : {"main", "pull"}, head : Commits \cup {NoCommit},
                 attempt : 0 .. MaxAttempts, place : Nat]
      BY AttemptsAssumption DEF Events
    <3>2. run = [r \in Runs |-> e]
      BY DEF Init
    <3> QED BY <3>1, <3>2 DEF RunType
  <2>2. job \in JobType
    <3>1. [state |-> "skipped", attempt |-> 0] \in [state : States, attempt : 0 .. MaxAttempts]
      BY AttemptsAssumption DEF States, Verdicts
    <3> QED BY <3>1 DEF Init, JobType
  <2>3. /\ found \in [Runs -> {"nothing yet", "absent", "right", "mismatch", "error"}]
        /\ tag \in [Commits -> [to : Commits \cup {NoCommit, Foreign}, by : Makers]]
        /\ passed = {} /\ cancelled = {}
    BY DEF Init, Makers
  <2>4. \A r \in Runs : Made(r) <=> run[r].head \in Commits
    BY <1>1, ValuesAssumption
  <2> QED BY <1>2, <2>1, <2>2, <2>3, <2>4, TypeParts
<1>4. CurrentAttempt /\ QualityIsEarned /\ RequiredIsEarned /\ PublisherIsRight /\ TurnsKept
  BY <1>1, JobNames DEF CurrentAttempt, QualityIsEarned, RequiredIsEarned, PublisherIsRight, TurnsKept,
     Active, Succeeded, Publishing
<1>5. TagsKnown /\ Untried /\ AbsentForUs /\ PublishedIsRight /\ PublishersTakeTurns
  BY <1>1, <1>2, JobNames DEF TagsKnown, Untried, AbsentForUs, PublishedIsRight, PublishersTakeTurns,
     Publishing, Succeeded
<1>6. PlacesDiffer
  <2>1. ASSUME NEW r \in Runs PROVE run[r].place <= line
    <3>1. run[r].place = 0 /\ line = 0
      BY <1>1, <1>2
    <3> QED BY <3>1
  <2>2. ASSUME NEW q \in Runs, NEW r \in Runs, Made(q) PROVE FALSE
    BY <2>2, <1>1
  <2> QED BY <2>1, <2>2 DEF PlacesDiffer
<1> QED BY <1>3, <1>4, <1>5, <1>6 DEF Inv

LEMMA StutterInv == Inv /\ UNCHANGED vars => Inv'
<1> SUFFICES ASSUME Inv, UNCHANGED <<run, cancelled, line, job, found, tag, passed>> PROVE Inv'
  BY DEF vars
<1>1. \A q \in Runs : Made(q)' <=> Made(q)
  BY DEF Made
<1>2. TypeOK'
  BY <1>1 DEF Inv, TypeOK
<1>3. CurrentAttempt' /\ PublisherIsRight' /\ TurnsKept' /\ PlacesDiffer' /\ Untried'
  BY <1>1 DEF Inv, CurrentAttempt, Active, PublisherIsRight, Publishing, Succeeded,
     TurnsKept, PlacesDiffer, Turn, Group, Over, Ended, Untried
<1>4. QualityIsEarned' /\ RequiredIsEarned' /\ PublishedIsRight'
  BY <1>1 DEF Inv, QualityIsEarned, RequiredIsEarned, PublishedIsRight, Succeeded, Attempt
<1>5. TagsKnown' /\ AbsentForUs' /\ PublishersTakeTurns'
  BY <1>1 DEF Inv, TagsKnown, AbsentForUs, PublishersTakeTurns, Publishing
<1> QED BY <1>2, <1>3, <1>4, <1>5 DEF Inv

LEMMA StepInv == Inv /\ [Next]_vars => Inv'
<1> SUFFICES ASSUME Inv, Next PROVE Inv'
  BY StutterInv
<1>1. ASSUME NEW r \in Runs, NEW c \in Commits, Push(r, c) \/ PullRequest(r, c) \/ Dispatch(r, c)
      PROVE  Inv'
  BY <1>1, TriggerStep DEF Push, PullRequest, Dispatch, Events
<1>2. ASSUME NEW r \in Runs, RepeatAll(r) PROVE Inv'
  BY <1>2, RepeatStep DEF RepeatAll
<1>3. ASSUME NEW r \in Runs, RepeatFailed(r) PROVE Inv'
  <2> DEFINE again == {j \in Jobs : ~Succeeded(r, j)}
  <2>1. again \in SUBSET Jobs /\ (\A j \in Jobs \ again : Succeeded(r, j)) /\ Repeat(r, again)
    BY <1>3 DEF RepeatFailed
  <2> QED BY <2>1, RepeatStep
<1>4. ASSUME NEW r \in Runs, QualityStarts(r) PROVE Inv'
  BY <1>4, StartStep, JobNames DEF QualityStarts
<1>5. ASSUME NEW r \in Runs, RequiredStarts(r) PROVE Inv'
  BY <1>5, StartStep, JobNames DEF RequiredStarts
<1>6. ASSUME NEW r \in Runs, PublishStarts(r) PROVE Inv'
  BY <1>6, StartStep, JobNames DEF PublishStarts, ToPublish
<1>7. ASSUME NEW r \in Runs, PublishSkipped(r) PROVE Inv'
  BY <1>7, EndStep, JobNames DEF PublishSkipped, Active
<1>8. ASSUME NEW r \in Runs, NEW j \in Jobs, Cancelled(r, j) PROVE Inv'
  BY <1>8, EndStep DEF Cancelled, Active
<1>9. ASSUME NEW r \in Runs, Works(r) PROVE Inv'
  BY <1>9, <1>4, <1>5, <1>6, <1>7, <1>8, QualityStep, RequiredStep, LooksUpStep, CreatesStep DEF Works
<1> QED BY <1>1, <1>2, <1>3, <1>9, OthersStep DEF Next

THEOREM Inductive == Spec => []Inv
BY InitInv, StepInv, PTL DEF Spec

\* Every run, job and tag keeps its type, for any number of them: the TypeOK of the run.
THEOREM TypeCorrect == Spec => []TypeOK
<1>1. Inv => TypeOK
  BY DEF Inv
<1> QED BY <1>1, Inductive, PTL

\* No repeated, cancelled or older job stands in for a quality job of the attempt whose required
\* check succeeded (ci-aggregate.mjs validateExpandedJobs).
THEOREM RequiredChecksAreEarned == Spec => []RequiredIsEarned
<1>1. Inv => RequiredIsEarned
  BY DEF Inv
<1> QED BY <1>1, Inductive, PTL

\* A publisher that succeeds leaves its commit under its name (publish-ci-tag.sh).
THEOREM PublishedTagsAreRight == Spec => []PublishedIsRight
<1>1. Inv => PublishedIsRight
  BY DEF Inv
<1> QED BY <1>1, Inductive, PTL

\* No two runs race for a tag: the group of ci.yml is what keeps the check and the creation of
\* publish-ci-tag.sh together.
THEOREM NoRaceForTags == Spec => []PublishersTakeTurns
<1>1. Inv => PublishersTakeTurns
  BY DEF Inv
<1> QED BY <1>1, Inductive, PTL

\* A tag of the workflow is made by a push to main whose required check was earned.
THEOREM TagsAreEarned == Spec => TagsAreQualified
<1> DEFINE Good == \A c \in Commits : (tag'[c].by = "workflow" /\ tag[c].by = "nobody") =>
    /\ tag'[c].to = c
    /\ \E r \in Runs : /\ run[r].event = "push" /\ run[r].ref = "main" /\ run[r].head = c
                      /\ Succeeded(r, "required")
                      /\ Attempt(r, job[r]["required"].attempt) \in passed
<1>1. ASSUME Inv, Next PROVE Good \/ UNCHANGED tag
  <2>1. ASSUME NEW r \in Runs, Creates(r) PROVE Good \/ UNCHANGED tag
    <3>1. /\ Publishing(r) /\ run[r].event = "push" /\ run[r].ref = "main" /\ run[r].head \in Commits
          /\ Succeeded(r, "required") /\ Attempt(r, job[r]["required"].attempt) \in passed
      BY <1>1, <2>1, PublisherFacts DEF Creates, Inv, PublisherIsRight, RequiredIsEarned
    <3>2. tag \in [Commits -> [to : Commits \cup {NoCommit, Foreign}, by : Makers]]
      BY <1>1, TypeParts DEF Inv
    <3>3. CASE tag' = [tag EXCEPT ![run[r].head] = [to |-> run[r].head, by |-> "workflow"]]
      BY <3>1, <3>2, <3>3
    <3> QED BY <2>1, <3>3 DEF Creates
  <2>2. ASSUME NEW c \in Contested, MadeByOthers(c) PROVE Good
    <3>1. tag \in [Commits -> [to : Commits \cup {NoCommit, Foreign}, by : Makers]]
      BY <1>1, TypeParts DEF Inv
    <3> QED BY <2>2, <3>1, ValuesAssumption DEF MadeByOthers
  <2>3. ASSUME NEW r \in Runs, Works(r), ~Creates(r) PROVE UNCHANGED tag
    BY <2>3 DEF Works, QualityStarts, QualityEnds, RequiredStarts, RequiredEnds, PublishStarts,
       PublishSkipped, LooksUp, Cancelled, Starts
  <2>4. ASSUME NEW r \in Runs, NEW c \in Commits, Push(r, c) \/ PullRequest(r, c) \/ Dispatch(r, c)
        PROVE  UNCHANGED tag
    BY <2>4 DEF Push, PullRequest, Dispatch, Trigger
  <2>5. ASSUME NEW r \in Runs, RepeatAll(r) \/ RepeatFailed(r) PROVE UNCHANGED tag
    BY <2>5 DEF RepeatAll, RepeatFailed, Repeat
  <2> QED BY <1>1, <2>1, <2>2, <2>3, <2>4, <2>5 DEF Next
<1>2. UNCHANGED tag => Good
  OBVIOUS
<1>3. Inv /\ [Next]_vars => [Good]_vars
  BY <1>1, <1>2
<1> QED BY <1>3, Inductive, PTL DEF Spec, TagsAreQualified

=============================================================================
