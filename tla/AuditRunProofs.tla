--------------------------- MODULE AuditRunProofs ---------------------------
(***************************************************************************)
(* AuditRun implements AuditReport, for every set of sites, cap, manifest  *)
(* and owner map and every schedule of the edits; and at every moment the  *)
(* readers of the manifests agree.  What owns and what hides a path is     *)
(* not expanded here: of routing, the last theorem uses the lemmas of      *)
(* RoutingProofs, and the others hold for any.                             *)
(***************************************************************************)
EXTENDS AuditRun, RoutingProofs

\* What was true of a site at some moment of the audit.
Bad(s) == \E w \in past : s \in w.bad
Shown(s) == \E w \in past : ~Hidden(w, s)
Cleared(s) == \E w \in past : s \notin w.bad \/ Hidden(w, s)
Before(s) == {g \in Sites : ModuleOf[g] = ModuleOf[s] /\ g < s /\ Bad(g) /\ Shown(g)}
Crowded(s) == Cardinality(Before(s)) >= CapOf[ModuleOf[s]]

Scanned(s) == \E k \in 1 .. next - 1 : ModuleOrder[k] = ModuleOf[s]
Reported(s) == \E f \in report : f.site = s

Phases == /\ pc # "read" => pending = {}
          /\ pc \in {"read", "scan"} => report = {}
          /\ pc \in {"add", "done"} => next = Len(ModuleOrder) + 1
          /\ pc = "done" => queue = {}
ListedWasBad == \A s \in listed : Bad(s)
UnlistedWasCleared == \A s \in Sites \ (pending \cup listed) : Cleared(s)
QueuedWasShown == \A s \in Sites : s \in queue \/ Reported(s) => Shown(s)
DroppedForAReason ==
    \A s \in Sites : Scanned(s) => (s \in queue \/ Reported(s) \/ Cleared(s) \/ Crowded(s))
OwnersWereGiven == \A f \in report : \E w \in past : f.owner = OwnerFor(w, f.site)
OneFinding == \A f, g \in report : f.site = g.site => f = g

Inv == /\ TypeOK /\ Phases /\ ListedWasBad /\ UnlistedWasCleared /\ QueuedWasShown
       /\ DroppedForAReason /\ OwnersWereGiven /\ OneFinding

\* While nobody has edited, the audit is an exact one of the only world there was.
Found(m) == {s \in world.bad : ModuleOf[s] = m /\ ~Hidden(world, s)}
Quiet == past = {world} =>
    /\ listed = world.bad \ pending
    /\ \A s \in Sites : (s \in queue \/ Reported(s)) <=>
          (\E k \in 1 .. next - 1 : s \in Capped(Found(ModuleOrder[k]), CapOf[ModuleOrder[k]]))
    /\ \A f \in report : f = Finding(f.site)

-----------------------------------------------------------------------------

LEMMA OrderType == /\ Len(ModuleOrder) = 11 /\ DOMAIN ModuleOrder = 1 .. 11
                   /\ \A m \in Modules : \E k \in 1 .. 11 : ModuleOrder[k] = m
                   /\ \A k \in 1 .. 11 : ModuleOrder[k] \in Modules
<1>1. Len(ModuleOrder) = 11 /\ DOMAIN ModuleOrder = 1 .. 11
  BY DEF ModuleOrder
<1> QED BY <1>1 DEF Modules

\* The history only grows, and with it what it shows.
LEMMA Grows ==
  ASSUME past \subseteq past'
  PROVE  \A s \in Sites : /\ Bad(s) => Bad(s)'
                          /\ Shown(s) => Shown(s)'
                          /\ Cleared(s) => Cleared(s)'
                          /\ Crowded(s) => Crowded(s)'
<1> SUFFICES ASSUME NEW s \in Sites
             PROVE  /\ Bad(s) => Bad(s)'
                    /\ Shown(s) => Shown(s)'
                    /\ Cleared(s) => Cleared(s)'
                    /\ Crowded(s) => Crowded(s)'
  OBVIOUS
<1>1. \A g \in Sites : (Bad(g) => Bad(g)') /\ (Shown(g) => Shown(g)')
  BY DEF Bad, Shown, Hidden
<1>2. Cleared(s) => Cleared(s)'
  BY DEF Cleared, Hidden
<1>3. ASSUME Crowded(s) PROVE Crowded(s)'
  <2>1. Before(s) \subseteq Before(s)' /\ Before(s)' \subseteq Sites
    BY <1>1 DEF Before
  <2>2. IsFiniteSet(Before(s)')
    BY <2>1, SitesAssumption, FS_Subset
  <2>3. /\ Cardinality(Before(s)) <= Cardinality(Before(s)')
        /\ Cardinality(Before(s)) \in Nat /\ Cardinality(Before(s)') \in Nat
    BY <2>1, <2>2, FS_Subset, FS_CardinalityType
  <2>4. CapOf[ModuleOf[s]] \in Nat
    BY SitesAssumption, CapAssumption
  <2> QED BY <1>3, <2>3, <2>4 DEF Crowded
<1> QED BY <1>1, <1>2, <1>3

LEMMA InitInv == Init => Inv
<1> SUFFICES ASSUME Init PROVE Inv
  OBVIOUS
<1>1. TypeOK
  BY OrderType DEF Init, TypeOK
<1>2. Phases /\ ListedWasBad /\ UnlistedWasCleared
  BY DEF Init, Phases, ListedWasBad, UnlistedWasCleared
<1>3. QueuedWasShown
  BY DEF Init, QueuedWasShown, Reported
<1>4. DroppedForAReason
  BY DEF Init, DroppedForAReason, Scanned
<1>5. OwnersWereGiven /\ OneFinding
  BY DEF Init, OwnersWereGiven, OneFinding
<1> QED BY <1>1, <1>2, <1>3, <1>4, <1>5 DEF Inv

LEMMA ReadInv ==
  ASSUME Inv, NEW path, Read(path)
  PROVE  Inv'
<1> USE DEF Read
<1>g. \A s \in Sites : (Bad(s) => Bad(s)') /\ (Cleared(s) => Cleared(s)')
                       /\ (Shown(s) => Shown(s)') /\ (Crowded(s) => Crowded(s)')
  BY Grows
<1>w. world \in past /\ pending \subseteq Sites /\ SitesIn(path) \subseteq Sites
  BY DEF Inv, TypeOK, SitesIn
<1>p. report = {}
  BY DEF Inv, Phases
<1>1. TypeOK'
  BY <1>p, <1>w DEF Inv, TypeOK, SitesIn
<1>2. Phases'
  BY DEF Inv, Phases
<1>3. ListedWasBad'
  <2> SUFFICES ASSUME NEW s \in listed' PROVE Bad(s)'
    BY DEF ListedWasBad
  <2>1. CASE s \in listed
    BY <2>1, <1>g DEF Inv, TypeOK, ListedWasBad
  <2>2. CASE s \in world.bad
    BY <2>2, <1>w DEF Bad
  <2> QED BY <2>1, <2>2
<1>4. UnlistedWasCleared'
  <2> SUFFICES ASSUME NEW s \in Sites, s \notin pending', s \notin listed' PROVE Cleared(s)'
    BY DEF UnlistedWasCleared
  <2>1. CASE s \in pending
    <3>1. s \notin world.bad
      BY <2>1
    <3> QED BY <3>1, <1>w DEF Cleared
  <2>2. CASE s \notin pending
    BY <2>2, <1>g DEF Inv, UnlistedWasCleared
  <2> QED BY <2>1, <2>2
<1>5. QueuedWasShown'
  BY <1>g DEF Inv, QueuedWasShown, Reported
<1>6. DroppedForAReason'
  BY <1>g DEF Inv, DroppedForAReason, Reported, Scanned
<1>7. OwnersWereGiven' /\ OneFinding'
  BY <1>p DEF OwnersWereGiven, OneFinding
<1> QED BY <1>1, <1>2, <1>3, <1>4, <1>5, <1>6, <1>7 DEF Inv

\* Neither the history nor what has been found changes when the audit goes on to its next phase.
LEMMA PhaseInv ==
  ASSUME Inv, ReadsEnd \/ ScansEnd \/ Finish \/ UNCHANGED vars
  PROVE  Inv'
<1>u. UNCHANGED <<pending, listed, next, queue, report, world, past>>
  BY DEF ReadsEnd, ScansEnd, Finish, vars, auditor
<1>1. TypeOK'
  BY <1>u DEF Inv, TypeOK, ReadsEnd, ScansEnd, Finish, vars, auditor
<1>2. Phases'
  BY <1>u, OrderType DEF Inv, TypeOK, Phases, ReadsEnd, ScansEnd, Finish, vars, auditor
<1>3. ListedWasBad' /\ UnlistedWasCleared'
  BY <1>u DEF Inv, ListedWasBad, UnlistedWasCleared, Bad, Cleared, Hidden
<1>4. QueuedWasShown'
  BY <1>u DEF Inv, QueuedWasShown, Reported, Shown, Hidden
<1>5. DroppedForAReason'
  BY <1>u, Grows DEF Inv, DroppedForAReason, Reported, Scanned
<1>6. OwnersWereGiven' /\ OneFinding'
  BY <1>u DEF Inv, OwnersWereGiven, OneFinding
<1> QED BY <1>1, <1>2, <1>3, <1>4, <1>5, <1>6 DEF Inv

\* What a module leaves out was cleared when it looked, or there was enough before it.
LEMMA ScanInv ==
  ASSUME Inv, Scan
  PROVE  Inv'
<1> DEFINE m == ModuleOrder[next]
           hits == {s \in listed : ModuleOf[s] = m /\ ~Hidden(world, s)}
<1>s. /\ pc = "scan" /\ next \in 1 .. 11
      /\ queue' = queue \cup Capped(hits, CapOf[m])
      /\ next' = next + 1
      /\ UNCHANGED <<pc, pending, listed, report, world, past>>
  BY OrderType DEF Scan
<1>p. pending = {} /\ report = {} /\ listed \subseteq Sites /\ world \in past
  BY <1>s DEF Inv, Phases, TypeOK
<1>c. Capped(hits, CapOf[m]) \subseteq hits /\ hits \subseteq listed
  BY DEF Capped
<1> HIDE DEF m, hits
<1>g. \A s \in Sites : (Bad(s) => Bad(s)') /\ (Cleared(s) => Cleared(s)')
                       /\ (Shown(s) => Shown(s)') /\ (Crowded(s) => Crowded(s)')
  BY <1>s, Grows
<1>1. TypeOK'
  BY <1>s, <1>p, <1>c, OrderType DEF Inv, TypeOK
<1>2. Phases'
  BY <1>s DEF Inv, Phases
<1>3. ListedWasBad' /\ UnlistedWasCleared'
  BY <1>s, <1>g, <1>p DEF Inv, ListedWasBad, UnlistedWasCleared
<1>4. QueuedWasShown'
  <2> SUFFICES ASSUME NEW s \in Sites, s \in queue' \/ Reported(s)' PROVE Shown(s)'
    BY DEF QueuedWasShown
  <2>1. CASE s \in queue
    BY <2>1, <1>g DEF Inv, QueuedWasShown
  <2>2. CASE s \in hits
    BY <2>2, <1>s, <1>p DEF hits, Shown, Hidden
  <2> QED BY <2>1, <2>2, <1>s, <1>c, <1>p DEF Reported
<1>5. DroppedForAReason'
  <2> SUFFICES ASSUME NEW s \in Sites, Scanned(s)', s \notin queue', ~Cleared(s)'
               PROVE  Crowded(s)'
    BY DEF DroppedForAReason
  <2>1. ~Reported(s) /\ s \notin queue /\ ~Cleared(s)
    BY <1>s, <1>p, <1>g DEF Reported
  <2>2. CASE Scanned(s)
    BY <2>1, <2>2, <1>g DEF Inv, DroppedForAReason
  <2>3. CASE ModuleOf[s] = m
    <3>1. s \in hits
      BY <2>1, <2>3, <1>p DEF Inv, UnlistedWasCleared, Cleared, hits
    <3> DEFINE ahead == {g \in hits : g < s}
    <3>2. ~(Cardinality(ahead) < CapOf[m])
      BY <3>1, <1>s DEF Capped
    <3>3. ahead \subseteq Before(s) /\ Before(s) \subseteq Sites
      BY <1>p, <2>3 DEF hits, Before, Inv, ListedWasBad, Shown
    <3> HIDE DEF ahead
    <3>4. IsFiniteSet(Before(s))
      BY <3>3, SitesAssumption, FS_Subset
    <3>5. /\ Cardinality(ahead) <= Cardinality(Before(s))
          /\ Cardinality(ahead) \in Nat /\ Cardinality(Before(s)) \in Nat
      BY <3>3, <3>4, FS_Subset, FS_CardinalityType
    <3>6. CapOf[ModuleOf[s]] \in Nat
      BY SitesAssumption, CapAssumption
    <3>7. Crowded(s)
      BY <2>3, <3>2, <3>5, <3>6 DEF Crowded
    <3> QED BY <3>7, <1>g
  <2> QED BY <2>2, <2>3, <1>s DEF Scanned, m
<1>6. OwnersWereGiven' /\ OneFinding'
  BY <1>s, <1>p DEF OwnersWereGiven, OneFinding
<1> QED BY <1>1, <1>2, <1>3, <1>4, <1>5, <1>6 DEF Inv

LEMMA AddInv ==
  ASSUME Inv, NEW a \in Sites, Add(a)
  PROVE  Inv'
<1> USE DEF Add
<1>f. Finding(a).site = a /\ Finding(a).owner = OwnerFor(world, a)
  BY DEF Finding
<1>q. \A s : Reported(s)' <=> Reported(s) \/ s = a
  BY <1>f DEF Reported
<1>g. \A s \in Sites : (Bad(s) => Bad(s)') /\ (Cleared(s) => Cleared(s)')
                       /\ (Shown(s) => Shown(s)') /\ (Crowded(s) => Crowded(s)')
  BY Grows
<1>1. TypeOK'
  BY <1>f DEF Inv, TypeOK
<1>2. Phases'
  BY DEF Inv, Phases
<1>3. ListedWasBad' /\ UnlistedWasCleared'
  BY <1>g DEF Inv, TypeOK, ListedWasBad, UnlistedWasCleared
<1>4. QueuedWasShown'
  BY <1>g, <1>q DEF Inv, QueuedWasShown
<1>5. DroppedForAReason'
  BY <1>g, <1>q DEF Inv, DroppedForAReason, Scanned
<1>6. OwnersWereGiven'
  <2> SUFFICES ASSUME NEW f \in report' PROVE \E w \in past : f.owner = OwnerFor(w, f.site)
    BY DEF OwnersWereGiven, OwnerFor
  <2>1. CASE f \in report
    BY <2>1 DEF Inv, OwnersWereGiven
  <2>2. CASE f = Finding(a)
    BY <2>2, <1>f DEF Inv, TypeOK
  <2> QED BY <2>1, <2>2
<1>7. OneFinding'
  BY <1>f DEF Inv, TypeOK, OneFinding
<1> QED BY <1>1, <1>2, <1>3, <1>4, <1>5, <1>6, <1>7 DEF Inv

LEMMA SaveInv ==
  ASSUME Inv, NEW w \in Worlds, Save(w)
  PROVE  Inv'
<1>s. /\ world' = w /\ past' = past \cup {w}
      /\ UNCHANGED <<pc, pending, listed, next, queue, report>>
  BY DEF Save, auditor
<1>g. \A s \in Sites : (Bad(s) => Bad(s)') /\ (Cleared(s) => Cleared(s)')
                       /\ (Shown(s) => Shown(s)') /\ (Crowded(s) => Crowded(s)')
  BY <1>s, Grows
<1>1. TypeOK'
  BY <1>s DEF Inv, TypeOK
<1>2. Phases'
  BY <1>s DEF Inv, Phases
<1>3. ListedWasBad' /\ UnlistedWasCleared'
  BY <1>s, <1>g DEF Inv, TypeOK, ListedWasBad, UnlistedWasCleared
<1>4. QueuedWasShown'
  BY <1>s, <1>g DEF Inv, QueuedWasShown, Reported
<1>5. DroppedForAReason'
  BY <1>s, <1>g DEF Inv, DroppedForAReason, Reported, Scanned
<1>6. OwnersWereGiven' /\ OneFinding'
  BY <1>s DEF Inv, OwnersWereGiven, OneFinding, OwnerFor
<1> QED BY <1>1, <1>2, <1>3, <1>4, <1>5, <1>6 DEF Inv

\* Every edit is a save of a world of the right type.
LEMMA EditIsSave ==
  ASSUME TypeOK, SaveSource \/ SaveZones \/ SaveOwners
  PROVE  \E w \in Worlds : Save(w)
<1>1. world \in Worlds
  BY DEF TypeOK
<1>2. CASE SaveSource
  <2>1. PICK s \in Sites :
          Save([world EXCEPT !.bad = IF s \in @ THEN @ \ {s} ELSE @ \cup {s}])
    BY <1>2 DEF SaveSource
  <2>2. [world EXCEPT !.bad = IF s \in @ THEN @ \ {s} ELSE @ \cup {s}] \in Worlds
    BY <1>1 DEF Worlds
  <2> QED BY <2>1, <2>2
<1>3. CASE SaveZones
  <2>1. PICK z \in ZoneFiles : Save([world EXCEPT !.zones = z])
    BY <1>3 DEF SaveZones
  <2>2. [world EXCEPT !.zones = z] \in Worlds
    BY <1>1 DEF Worlds
  <2> QED BY <2>1, <2>2
<1>4. CASE SaveOwners
  <2>1. PICK o \in OwnerFiles : Save([world EXCEPT !.owners = o])
    BY <1>4 DEF SaveOwners
  <2>2. [world EXCEPT !.owners = o] \in Worlds
    BY <1>1 DEF Worlds
  <2> QED BY <2>1, <2>2
<1> QED BY <1>2, <1>3, <1>4

LEMMA StepInv == Inv /\ [Next]_vars => Inv'
<1> SUFFICES ASSUME Inv, [Next]_vars PROVE Inv'
  OBVIOUS
<1>1. ASSUME NEW s \in Sites, Read(PathOf[s]) PROVE Inv'
  BY <1>1, ReadInv
<1>2. ASSUME NEW s \in Sites, Add(s) PROVE Inv'
  BY <1>2, AddInv
<1>3. CASE Scan
  BY <1>3, ScanInv
<1>4. CASE ReadsEnd \/ ScansEnd \/ Finish \/ UNCHANGED vars
  BY <1>4, PhaseInv
<1>5. CASE SaveSource \/ SaveZones \/ SaveOwners
  BY <1>5, EditIsSave, SaveInv DEF Inv
<1> QED BY <1>1, <1>2, <1>3, <1>4, <1>5 DEF Next

LEMMA Invariance == Spec => []Inv
<1> QED BY InitInv, StepInv, PTL DEF Spec

\* Every variable keeps its type, and a site is read, waits or is reported once, whatever the
\* sites, caps, manifests and edits (mod.rs:25, finding_builder.rs:25).
THEOREM TypeCorrect == Spec => []TypeOK
<1>1. Inv => TypeOK
  BY DEF Inv
<1> QED BY <1>1, Invariance, PTL
-----------------------------------------------------------------------------
(* The refinement.                                                         *)

LEMMA ViewOf ==
  /\ \A w : View(w).bad = w.bad
  /\ \A w : \A s \in Sites : s \in View(w).hidden <=> Hidden(w, s)
  /\ \A w : \A s \in Sites : View(w).owner[s] = OwnerFor(w, s)
BY DEF View

LEMMA InitRefines == Init => Promise!Init
BY DEF Init, Promise!Init

LEMMA FinishPublishes ==
  ASSUME Inv, Finish
  PROVE  Promise!Publish
<1>f. /\ pc = "add" /\ pc' = "done" /\ queue = {}
      /\ UNCHANGED <<pending, listed, next, queue, report, world, past>>
  BY DEF Finish
<1>r. \A f \in report : f.site \in Sites
  BY DEF Inv, TypeOK
<1>1. ASSUME NEW f \in report PROVE Promise!Justified(f)
  <2>1. \E w \in past : f.site \in w.bad
    BY DEF Inv, TypeOK, ListedWasBad, Bad
  <2>2. \E w \in past : ~Hidden(w, f.site)
    BY <1>r DEF Inv, QueuedWasShown, Reported, Shown
  <2>3. \E w \in past : f.owner = OwnerFor(w, f.site)
    BY DEF Inv, OwnersWereGiven
  <2> QED BY <1>r, <2>1, <2>2, <2>3, ViewOf DEF Promise!Justified
<1>2. ASSUME NEW s \in Sites, Promise!Due(s) PROVE \E f \in report : f.site = s
  <2>1. \A w \in past : s \in w.bad /\ ~Hidden(w, s)
    BY <1>2, ViewOf DEF Promise!Due
  <2>2. Promise!Ahead(s) = Before(s)
    <3>1. \A g \in Sites : (\E w \in {View(w) : w \in past} : g \in w.bad) <=> Bad(g)
      BY ViewOf DEF Bad
    <3>2. \A g \in Sites : (\E w \in {View(w) : w \in past} : g \notin w.hidden) <=> Shown(g)
      BY ViewOf DEF Shown
    <3> QED BY <3>1, <3>2 DEF Promise!Ahead, Before
  <2>3. Cardinality(Before(s)) < CapOf[ModuleOf[s]]
    <3>1. Promise!Cardinality(Before(s)) = Cardinality(Before(s))
      BY DEF Cardinality, Promise!Cardinality
    <3> QED BY <1>2, <2>2, <3>1 DEF Promise!Due
  <2>4. ~Cleared(s)
    BY <2>1 DEF Cleared
  <2>5. ~Crowded(s)
    <3>1. Before(s) \subseteq Sites
      BY DEF Before
    <3>2. Cardinality(Before(s)) \in Nat /\ CapOf[ModuleOf[s]] \in Nat
      BY <3>1, SitesAssumption, CapAssumption, FS_Subset, FS_CardinalityType
    <3> QED BY <2>3, <3>2 DEF Crowded
  <2>6. Scanned(s)
    <3>1. next = 12
      BY <1>f, OrderType DEF Inv, Phases
    <3>2. \E k \in 1 .. 11 : ModuleOrder[k] = ModuleOf[s]
      BY SitesAssumption, OrderType
    <3> QED BY <3>1, <3>2 DEF Scanned
  <2> QED BY <1>f, <2>4, <2>5, <2>6 DEF Inv, DroppedForAReason, Reported
<1>3. \A f, g \in report : f.site = g.site => f = g
  BY DEF Inv, OneFinding
<1>4. UNCHANGED <<View(world), {View(w) : w \in past}>>
  BY <1>f DEF View, Hidden, OwnerFor
<1> QED BY <1>f, <1>r, <1>1, <1>2, <1>3, <1>4 DEF Promise!Publish

LEMMA SaveEdits ==
  ASSUME NEW w, Save(w)
  PROVE  Promise!Edit
<1>1. /\ pc # "done" /\ pc' = pc /\ report' = report
      /\ world' = w /\ past' = past \cup {w}
  BY DEF Save, auditor
<1>2. {View(v) : v \in past}' = {View(v) : v \in past} \cup {View(world)'}
  BY <1>1 DEF View, Hidden, OwnerFor
<1> QED BY <1>1, <1>2 DEF Promise!Edit

LEMMA StepRefines ==
  Inv /\ [Next]_vars => [Promise!Next]_<<View(world), {View(w) : w \in past}, pc = "done",
                                         IF pc = "done" THEN report ELSE {}>>
<1> DEFINE bar == <<View(world), {View(w) : w \in past}, pc = "done",
                    IF pc = "done" THEN report ELSE {}>>
<1> SUFFICES ASSUME Inv, [Next]_vars PROVE Promise!Next \/ UNCHANGED bar
  OBVIOUS
<1>1. CASE Finish
  BY <1>1, FinishPublishes DEF Promise!Next
<1>2. CASE SaveSource \/ SaveZones \/ SaveOwners
  BY <1>2, EditIsSave, SaveEdits DEF Inv, Promise!Next
<1>3. ASSUME UNCHANGED <<world, past>>, pc # "done", pc' # "done" PROVE UNCHANGED bar
  BY <1>3 DEF View, Hidden, OwnerFor
<1>4. ASSUME NEW s \in Sites, Read(PathOf[s]) \/ Add(s) PROVE UNCHANGED bar
  BY <1>3, <1>4 DEF Read, Add
<1>5. CASE ReadsEnd \/ Scan \/ ScansEnd
  BY <1>3, <1>5 DEF ReadsEnd, Scan, ScansEnd
<1>6. CASE UNCHANGED vars
  BY <1>6 DEF vars, auditor, View, Hidden, OwnerFor
<1> QED BY <1>1, <1>2, <1>4, <1>5, <1>6 DEF Next

\* AuditRun implements AuditReport: whatever is edited while an audit runs, each finding was
\* true at some moment and has an owner of some moment, none is there twice, and what was bad
\* and shown throughout is reported up to the cap (mod.rs:25, common.rs:422,
\* finding_builder.rs:310).
THEOREM ReportsAreJustified == Spec => ReportIsJustified
<1> QED BY InitRefines, StepRefines, Invariance, PTL DEF Spec, ReportIsJustified, Promise!Spec
-----------------------------------------------------------------------------
(* A repository nobody edits.                                              *)

LEMMA InitQuiet == Init => Quiet
<1> SUFFICES ASSUME Init PROVE Quiet
  OBVIOUS
<1>1. listed = world.bad \ pending
  BY DEF Init, Worlds
<1>2. \A s \in Sites : ~(s \in queue \/ Reported(s))
  BY DEF Init, Reported
<1>3. \A k : k \notin 1 .. next - 1
  BY DEF Init
<1>4. report = {}
  BY DEF Init
<1> QED BY <1>1, <1>2, <1>3, <1>4 DEF Quiet

LEMMA SaveQuiet ==
  ASSUME TypeOK, NEW w \in Worlds, Save(w)
  PROVE  Quiet'
<1>1. world \in past' /\ world' \in past' /\ world # world'
  BY DEF TypeOK, Save
<1> QED BY <1>1 DEF Quiet

LEMMA StepQuiet == Inv /\ Quiet /\ [Next]_vars => Quiet'
<1> SUFFICES ASSUME Inv, Quiet, [Next]_vars PROVE Quiet'
  OBVIOUS
<1>1. CASE SaveSource \/ SaveZones \/ SaveOwners
  BY <1>1, EditIsSave, SaveQuiet DEF Inv
<1>2. ASSUME past = {world}, UNCHANGED <<world, past>>
      PROVE  /\ \A m : Found(m)' = Found(m)
             /\ \A s : Finding(s)' = Finding(s)
  BY <1>2 DEF Found, Hidden, Finding, OwnerFor
<1>3. ASSUME NEW p \in Sites, Read(PathOf[p]) PROVE Quiet'
  <2> SUFFICES ASSUME past' = {world'}
               PROVE  /\ listed' = world'.bad \ pending'
                      /\ UNCHANGED <<queue, report, next>>
                      /\ past = {world} /\ UNCHANGED <<world, past>>
    BY <1>2, <1>3 DEF Quiet, Reported, Read
  <2> QED BY <1>3 DEF Read, Quiet, Inv, TypeOK, SitesIn
<1>4. ASSUME NEW a \in Sites, Add(a) PROVE Quiet'
  <2> SUFFICES ASSUME past' = {world'}
               PROVE  /\ listed' = world'.bad \ pending'
                      /\ \A s \in Sites : (s \in queue \/ Reported(s))' <=>
                            (\E k \in 1 .. next' - 1 :
                                s \in Capped(Found(ModuleOrder[k])', CapOf[ModuleOrder[k]]))
                      /\ \A f \in report' : f = Finding(f.site)'
    BY <1>4 DEF Quiet, Add
  <2>1. past = {world} /\ UNCHANGED <<world, past, pending, listed, next>>
    BY <1>4 DEF Add
  <2>2. \A s : (s \in queue \/ Reported(s))' <=> (s \in queue \/ Reported(s))
    <3>1. Finding(a).site = a
      BY DEF Finding
    <3>2. \A s : Reported(s)' <=> (Reported(s) \/ s = a)
      BY <1>4, <3>1 DEF Add, Reported
    <3>3. \A s : s \in queue' <=> (s \in queue /\ s # a)
      BY <1>4 DEF Add
    <3> QED BY <1>4, <3>2, <3>3 DEF Add
  <2>3. \A f \in report' : f = Finding(f.site)
    BY <1>4, <2>1 DEF Add, Finding, Quiet
  <2> QED BY <1>2, <2>1, <2>2, <2>3 DEF Quiet
<1>5. CASE Scan
  <2> SUFFICES ASSUME past' = {world'}
               PROVE  /\ listed' = world'.bad \ pending'
                      /\ \A s \in Sites : (s \in queue \/ Reported(s))' <=>
                            (\E k \in 1 .. next' - 1 :
                                s \in Capped(Found(ModuleOrder[k])', CapOf[ModuleOrder[k]]))
                      /\ \A f \in report' : f = Finding(f.site)'
    BY DEF Quiet, Capped
  <2>1. /\ past = {world} /\ UNCHANGED <<world, past, pending, listed, report>>
        /\ next \in 1 .. 11 /\ next' = next + 1
    BY <1>5, OrderType DEF Scan
  <2>2. listed = world.bad
    BY <1>5, <2>1 DEF Scan, Quiet, Inv, Phases
  <2> DEFINE m == ModuleOrder[next]
  <2>3. queue' = queue \cup Capped(Found(m), CapOf[m])
    BY <1>5, <2>2 DEF Scan, Found
  <2> HIDE DEF m
  <2> QED BY <1>2, <2>1, <2>2, <2>3 DEF Quiet, Reported, m
<1>6. CASE ReadsEnd \/ ScansEnd \/ Finish \/ UNCHANGED vars
  <2>1. UNCHANGED <<pending, listed, next, queue, report, world, past>>
    BY <1>6 DEF ReadsEnd, ScansEnd, Finish, vars, auditor
  <2> QED BY <1>2, <2>1 DEF Quiet, Reported
<1> QED BY <1>1, <1>3, <1>4, <1>5, <1>6 DEF Next

\* An audit of a repository nobody edits reports of every module the first places that are bad
\* and in no zone, each once and under its owner (mod.rs:25, rust.rs:441, common.rs:422).
THEOREM QuietReportsAreExact == Spec => []QuietIsExact
<1>1. ASSUME Inv, Quiet PROVE QuietIsExact
  <2> SUFFICES ASSUME pc = "done", past = {world} PROVE report = QuietReport
    BY DEF QuietIsExact
  <2>1. queue = {} /\ next = 12 /\ world.bad \subseteq Sites
    BY <1>1, OrderType DEF Inv, Phases, TypeOK, Worlds
  <2>2. \A s \in Sites : Reported(s) <=>
           \E m \in Modules : s \in Capped(Found(m), CapOf[m])
    BY <1>1, <2>1, OrderType DEF Quiet
  <2>3. QuietReport = {Finding(s) : s \in UNION {Capped(Found(m), CapOf[m]) : m \in Modules}}
    BY DEF QuietReport, Found
  <2>4. \A f \in report : f.site \in Sites /\ f = Finding(f.site)
    BY <1>1 DEF Quiet, Inv, TypeOK
  <2>5. \A m : Capped(Found(m), CapOf[m]) \subseteq Sites
    BY <2>1 DEF Capped, Found
  <2>6. ASSUME NEW f \in report PROVE f \in QuietReport
    BY <2>2, <2>3, <2>4 DEF Reported
  <2>7. ASSUME NEW f \in QuietReport PROVE f \in report
    <3>1. PICK m \in Modules, s \in Sites : s \in Capped(Found(m), CapOf[m]) /\ f = Finding(s)
      BY <2>3, <2>5
    <3>2. PICK g \in report : g.site = s
      BY <2>2, <3>1 DEF Reported
    <3> QED BY <2>4, <3>1, <3>2
  <2> QED BY <2>6, <2>7
<1> QED BY <1>1, InitQuiet, StepQuiet, Invariance, InitInv, StepInv, PTL DEF Spec

-----------------------------------------------------------------------------

LEMMA KeysAreTexts ==
  ASSUME NEW file \in OwnerFiles, NEW i \in DOMAIN file.entries
  PROVE  file.entries[i].key \in Texts
<1> DEFINE O == {entry.owner : entry \in Range(file.entries)}
<1>1. file.entries \in Seq([key : Seq(STRING), owner : O])
  BY OwnersAssumption
<1> HIDE DEF O
<1>2. file.entries[i] \in [key : Seq(STRING), owner : O]
  BY <1>1, LenProperties, ElementOfSeq
<1>3. file.entries[i].key \in Seq(STRING)
  BY <1>2
<1>4. STRING \subseteq Symbols
  BY DEF Symbols
<1> QED BY <1>3, <1>4, SeqMonotonic DEF Texts

LEMMA SitesHavePaths == ASSUME NEW s \in Sites PROVE PlainPath(PathOf[s])
<1>1. PathOf[s] \in Seq(STRING) /\ STRING \subseteq Symbols
  BY PathsAssumption DEF Symbols
<1>2. PathOf[s] \in Texts
  BY <1>1, SeqMonotonic DEF Texts
<1> QED BY <1>2, PathsAssumption DEF PlainPath

\* At every moment of an audit the readers of the owner map agree, while its keys are plain and
\* it has no file for a directory, and no zone hides what is not guarded.
THEOREM ReadersAgree == Spec => []ManifestsAgree
<1>1. ASSUME Inv PROVE ManifestsAgree
  <2> SUFFICES ASSUME NEW s \in Sites
               PROVE  /\ /\ world.owners.state = "whole" /\ PlainKeys(world.owners)
                         /\ ~AsDirectory(world.owners, PathOf[s])
                         => Consistent(world.owners, PathOf[s])
                      /\ Guarded(world.zones, PathOf[s])
    BY DEF ManifestsAgree
  <2>1. world.owners \in OwnerFiles
    BY <1>1 DEF Inv, TypeOK, Worlds
  <2>2. \A i \in DOMAIN world.owners.entries : world.owners.entries[i].key \in Texts
    BY <2>1, KeysAreTexts
  <2>3. PlainPath(PathOf[s])
    BY SitesHavePaths
  <2> QED BY <2>2, <2>3, ConsistentKeys, GuardedZones
<1> QED BY <1>1, Invariance, PTL

=============================================================================
