----------------------------- MODULE CiPipeline -----------------------------
(***************************************************************************)
(* The workflow of .github/workflows/ci.yml: quality, then the aggregate   *)
(* check required (scripts/ci-aggregate.mjs), then, for a push to main,    *)
(* the immutable tag of the commit (ops/ci/publish-ci-tag.sh).  A newer    *)
(* run of a ref cancels an older one and waits for it; a run is repeated   *)
(* whole or from the jobs that failed; calls of the API fail; and somebody *)
(* else makes a tag of that name.  What a job has begun it may complete    *)
(* after its run is cancelled, call by call.                               *)
(***************************************************************************)
EXTENDS Integers, FiniteSets

CONSTANTS
    Commits,
    Runs,         \* the numbers runs get, in this order
    MaxAttempts,  \* bounds how often a run is repeated
    Contested,    \* the commits whose tag somebody else may make
    NoCommit,
    Foreign       \* what a tag somebody else made may point to, besides its commit

ASSUME RunsAssumption == Runs \subseteq Nat /\ IsFiniteSet(Runs)
ASSUME AttemptsAssumption == MaxAttempts \in Nat \ {0}
ASSUME ValuesAssumption == Contested \subseteq Commits /\ NoCommit \notin Commits /\ Foreign \notin Commits \cup {NoCommit}

Jobs == {"quality", "required", "publish-ci-tag"}
Verdicts == {"success", "failure", "cancelled", "skipped"}
Events == {"push", "pull_request", "workflow_dispatch"}
Makers == {"nobody", "workflow", "other"}

VARIABLES
    run,        \* of each run its event, ref, head, attempt and place in line
    cancelled,  \* the runs that are cancelled
    line,       \* how often a run has entered its group
    job,        \* of each run its jobs: how they stand, and in which attempt they ran
    found,      \* what the publisher of a run found under the name of the tag
    tag,        \* of each commit its tag: what it points to, and who made it
    passed      \* the attempts whose quality job ran and succeeded, and on what

vars == <<run, cancelled, line, job, found, tag, passed>>

Made(r) == run[r].attempt > 0
Ended(r, j) == job[r][j].state \in Verdicts
Over(r) == \A j \in Jobs : Ended(r, j)
Succeeded(r, j) == job[r][j].state = "success"

-----------------------------------------------------------------------------
(* Runs, as the triggers, the concurrency group and GitHub make them.      *)

Init == /\ run = [r \in Runs |-> [event |-> "push", ref |-> "main", head |-> NoCommit,
                                  attempt |-> 0, place |-> 0]]
        /\ cancelled = {}
        /\ line = 0
        /\ job = [r \in Runs |-> [j \in Jobs |-> [state |-> "skipped", attempt |-> 0]]]
        /\ found = [r \in Runs |-> "nothing yet"]
        /\ tag = [c \in Commits |-> [to |-> NoCommit, by |-> "nobody"]]
        /\ passed = {}

\* The concurrency group ci-<ref>: whoever enters cancels those in it and stands behind them.
GroupPerRun(r) == r
Group(r) == run[r].ref
InGroup(r, ref) == {q \in Runs \ {r} : Made(q) /\ run[q].ref = ref /\ ~Over(q)}
Enter(r, event, ref, head, attempt) ==
    /\ run' = [run EXCEPT ![r] = [event |-> event, ref |-> ref, head |-> head,
                                  attempt |-> attempt, place |-> line + 1]]
    /\ line' = line + 1
    /\ cancelled' = (cancelled \ {r}) \cup InGroup(r, ref)
Turn(r) == \A q \in Runs :
    (Made(q) /\ Group(q) = Group(r) /\ run[q].place < run[r].place) => Over(q)

Trigger(r, event, ref, head) ==
    /\ ~Made(r) /\ \A q \in Runs : q < r => Made(q)
    /\ Enter(r, event, ref, head, 1)
    /\ job' = [job EXCEPT ![r] = [j \in Jobs |-> [state |-> "waiting", attempt |-> 1]]]
    /\ UNCHANGED <<found, tag, passed>>

Push(r, c) == Trigger(r, "push", "main", c)
PullRequest(r, c) == Trigger(r, "pull_request", "pull", c)
Dispatch(r, c) == Trigger(r, "workflow_dispatch", "main", c)

\* A run that is over is repeated: all of it, or what did not succeed.
Repeat(r, again) ==
    /\ Made(r) /\ Over(r) /\ run[r].attempt < MaxAttempts
    /\ LET n == run[r].attempt + 1
       IN  /\ Enter(r, run[r].event, run[r].ref, run[r].head, n)
           /\ job' = [job EXCEPT ![r] = [j \in Jobs |->
                 IF j \in again THEN [state |-> "waiting", attempt |-> n] ELSE job[r][j]]]
    /\ found' = [found EXCEPT ![r] = "nothing yet"]
    /\ UNCHANGED <<tag, passed>>
RepeatAll(r) == Repeat(r, Jobs)
RepeatFailed(r) ==
    /\ \E j \in Jobs : job[r][j].state \in {"failure", "cancelled"}
    /\ Repeat(r, {j \in Jobs : ~Succeeded(r, j)})

Moves(r, j, state) == job' = [job EXCEPT ![r][j].state = state]
Attempt(r, n) == [run |-> r, attempt |-> n, head |-> run[r].head]

\* A cancelled run's jobs end where they are, or run on for a while.
Cancelled(r, j) == /\ r \in cancelled /\ job[r][j].state \in {"waiting", "running"}
                   /\ Moves(r, j, "cancelled")
                   /\ UNCHANGED <<run, cancelled, line, found, tag, passed>>

Starts(r, j) == /\ Made(r) /\ Turn(r) /\ job[r][j].state = "waiting"
                /\ Moves(r, j, "running")
                /\ UNCHANGED <<run, cancelled, line, found, tag, passed>>

-----------------------------------------------------------------------------
(* quality: the lanes of github-check.sh, which end as they may.           *)

QualityStarts(r) == r \notin cancelled /\ Starts(r, "quality")

QualityEnds(r) ==
    /\ job[r]["quality"].state = "running"
    /\ \/ /\ Moves(r, "quality", "success")
          /\ passed' = passed \cup {Attempt(r, run[r].attempt)}
       \/ Moves(r, "quality", "failure") /\ UNCHANGED passed
    /\ UNCHANGED <<run, cancelled, line, found, tag>>

-----------------------------------------------------------------------------
(* required: it runs whatever came of quality (if: always()), and trusts   *)
(* what GitHub lists of this attempt, where a job that was not repeated    *)
(* stands with the attempt it ran in.                                      *)

RequiredStarts(r) == Ended(r, "quality") /\ Starts(r, "required")

ValidParents(r) == Succeeded(r, "quality")
ValidJobsAnyAttempt(r) == Succeeded(r, "quality")
ValidJobs(r) == /\ \A j \in Jobs : job[r][j].attempt = run[r].attempt
                /\ Succeeded(r, "quality")

\* The calls of the API may fail, and with them the check.
RequiredEnds(r) ==
    /\ job[r]["required"].state = "running"
    /\ \/ ValidParents(r) /\ ValidJobs(r) /\ Moves(r, "required", "success")
       \/ Moves(r, "required", "failure")
    /\ UNCHANGED <<run, cancelled, line, found, tag, passed>>

-----------------------------------------------------------------------------
(* publish-ci-tag: needs required, for a push to main only.                *)

ToPublishAfterQuality(r) == /\ r \notin cancelled /\ Succeeded(r, "quality")
                            /\ run[r].event = "push" /\ run[r].ref = "main"
ToPublishOffMain(r) == /\ r \notin cancelled /\ Succeeded(r, "required")
                       /\ run[r].event = "push" /\ run[r].ref # "main"
ToPublish(r) == /\ r \notin cancelled /\ Succeeded(r, "required")
                /\ run[r].event = "push" /\ run[r].ref = "main"

PublishStarts(r) == Ended(r, "required") /\ ToPublish(r) /\ Starts(r, "publish-ci-tag")
PublishSkipped(r) == /\ Made(r) /\ Ended(r, "required") /\ ~ToPublish(r)
                     /\ job[r]["publish-ci-tag"].state = "waiting"
                     /\ Moves(r, "publish-ci-tag", "skipped")
                     /\ UNCHANGED <<run, cancelled, line, found, tag, passed>>

Publishing(r) == job[r]["publish-ci-tag"].state = "running"

\* What GitHub has under the name of the tag; only a 404 means that it has nothing.
TagNow(r) == LET t == tag[run[r].head]
             IN  IF t.by = "nobody" THEN "absent" ELSE IF t.to = run[r].head THEN "right" ELSE "mismatch"
LooksUp(r) ==
    /\ Publishing(r) /\ found[r] = "nothing yet"
    /\ \E answer \in {TagNow(r), "error"} :
          /\ found' = [found EXCEPT ![r] = answer]
          /\ \/ answer = "absent" /\ UNCHANGED job
             \/ answer = "right" /\ Moves(r, "publish-ci-tag", "success")
             \/ answer \notin {"absent", "right"} /\ Moves(r, "publish-ci-tag", "failure")
    /\ UNCHANGED <<run, cancelled, line, tag, passed>>

\* GitHub does not make a reference twice.
Creates(r) ==
    /\ Publishing(r) /\ found[r] = "absent"
    /\ LET c == run[r].head
       IN  \/ /\ tag[c].by = "nobody"
              /\ tag' = [tag EXCEPT ![c] = [to |-> c, by |-> "workflow"]]
              /\ Moves(r, "publish-ci-tag", "success") /\ UNCHANGED found
           \/ /\ tag[c].by # "nobody"
              /\ Moves(r, "publish-ci-tag", "failure") /\ UNCHANGED <<tag, found>>
           \/ /\ Moves(r, "publish-ci-tag", "failure")
              /\ found' = [found EXCEPT ![r] = "error"] /\ UNCHANGED tag
    /\ UNCHANGED <<run, cancelled, line, passed>>

\* Somebody with the right to write makes the tag.
MadeByOthers(c) == /\ tag[c].by = "nobody"
                   /\ \E to \in {c, Foreign} : tag' = [tag EXCEPT ![c] = [to |-> to, by |-> "other"]]
                   /\ UNCHANGED <<run, cancelled, line, job, found, passed>>

-----------------------------------------------------------------------------

Works(r) == \/ QualityStarts(r) \/ QualityEnds(r) \/ RequiredStarts(r) \/ RequiredEnds(r)
            \/ PublishStarts(r) \/ PublishSkipped(r) \/ LooksUp(r) \/ Creates(r)
            \/ \E j \in Jobs : Cancelled(r, j)

Next == \/ \E r \in Runs : \/ \E c \in Commits : Push(r, c) \/ PullRequest(r, c) \/ Dispatch(r, c)
                           \/ RepeatAll(r) \/ RepeatFailed(r)
                           \/ Works(r)
        \/ \E c \in Contested : MadeByOthers(c)

Spec == Init /\ [][Next]_vars

\* GitHub gives every job a runner, and every job has a timeout.
FairSpec == Spec /\ \A r \in Runs : WF_vars(Works(r))

-----------------------------------------------------------------------------

TypeOK ==
    /\ run \in [Runs -> [event : Events, ref : {"main", "pull"}, head : Commits \cup {NoCommit},
                         attempt : 0 .. MaxAttempts, place : Nat]]
    /\ cancelled \subseteq Runs
    /\ line \in Nat
    /\ job \in [Runs -> [Jobs -> [state : Verdicts \cup {"waiting", "running"},
                                  attempt : 0 .. MaxAttempts]]]
    /\ found \in [Runs -> {"nothing yet", "absent", "right", "mismatch", "error"}]
    /\ tag \in [Commits -> [to : Commits \cup {NoCommit, Foreign}, by : Makers]]
    /\ passed \subseteq [run : Runs, attempt : 1 .. MaxAttempts, head : Commits]
    /\ \A r \in Runs : Made(r) <=> run[r].head \in Commits

\* A run whose required check succeeded ran its quality job in that very attempt, on that
\* commit, and it succeeded: no cancelled, repeated or older job stands in (ci-aggregate.mjs:55).
RequiredIsEarned == \A r \in Runs :
    Succeeded(r, "required") => Attempt(r, job[r]["required"].attempt) \in passed

\* The workflow tags a commit only while a push of it to main has passed its required check,
\* and with it quality in the same attempt (publish-ci-tag.sh:2).
TagsAreQualified == [][\A c \in Commits : (tag'[c].by = "workflow" /\ tag[c].by = "nobody") =>
    /\ tag'[c].to = c
    /\ \E r \in Runs : /\ run[r].event = "push" /\ run[r].ref = "main" /\ run[r].head = c
                      /\ Succeeded(r, "required")
                      /\ Attempt(r, job[r]["required"].attempt) \in passed]_vars

\* A publisher that succeeds leaves its commit under its name, whoever made the tag.
PublishedIsRight == \A r \in Runs : (Made(r) /\ Succeeded(r, "publish-ci-tag")) =>
    tag[run[r].head].to = run[r].head

\* Two runs of a commit do not race for its tag: a publisher fails only where the API failed it
\* or somebody else made the tag (publish-ci-tag.sh:9, ci.yml:11).
PublishersTakeTurns == \A r \in Runs :
    (Made(r) /\ job[r]["publish-ci-tag"].state = "failure" /\ found[r] # "error") =>
        tag[run[r].head].by = "other"

Tagged(r) == \E c \in Commits : run[r].head = c /\ tag[c].by # "nobody"
\* A push to main that passes its required check gets its tag, unless a newer run cancels it or
\* the API fails it.
QualifiedIsTagged == \A r \in Runs :
    (run[r].event = "push" /\ run[r].ref = "main" /\ Succeeded(r, "required")) ~>
        (Tagged(r) \/ r \in cancelled \/ found[r] = "error")
=============================================================================
