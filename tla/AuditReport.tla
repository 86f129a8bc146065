---------------------------- MODULE AuditReport -----------------------------
(***************************************************************************)
(* What the report of an audit promises while the repository is edited:    *)
(* it need not be the report of one moment, but what it says of a site is  *)
(* true of some moment of the audit, and a site that should be reported at *)
(* every moment is, unless enough others stand before it.  AuditRun        *)
(* implements it.                                                          *)
(*                                                                         *)
(* A site is a place where a detector may find something, and the order of *)
(* sites is the one findings are sorted in.                                *)
(***************************************************************************)
EXTENDS Integers, FiniteSets

CONSTANTS
    Sites,
    Group,  \* the sites that share a cap with a site
    Cap     \* ... and that cap

VARIABLES
    world,      \* what is true of the sites now: which are bad, which are hidden, their owners
    past,       \* what has been, since the audit began
    published,  \* whether there is a report
    report      \* its findings

\* The sites before s that may have been found.
Ahead(s) == {g \in Group[s] : /\ g < s
                              /\ \E w \in past : g \in w.bad
                              /\ \E w \in past : g \notin w.hidden}

Due(s) == /\ \A w \in past : s \in w.bad /\ s \notin w.hidden
          /\ Cardinality(Ahead(s)) < Cap[s]

Justified(f) == /\ \E w \in past : f.site \in w.bad
                /\ \E w \in past : f.site \notin w.hidden
                /\ \E w \in past : f.owner = w.owner[f.site]

Init == /\ past = {world}
        /\ published = FALSE /\ report = {}

Edit == /\ ~published
        /\ past' = past \cup {world'}
        /\ UNCHANGED <<published, report>>

Publish == /\ ~published /\ published' = TRUE
           /\ \A f \in report' : f.site \in Sites /\ Justified(f)
           /\ \A f, g \in report' : f.site = g.site => f = g
           /\ \A s \in Sites : Due(s) => \E f \in report' : f.site = s
           /\ UNCHANGED <<world, past>>

Next == Edit \/ Publish

Spec == Init /\ [][Next]_<<world, past, published, report>>
=============================================================================
