-------------------------- MODULE InventoryProofs ---------------------------
(***************************************************************************)
(* Inventory: every file nobody touches is listed, a file has one entry,   *)
(* an overlaid inventory is the walk of the changed repository, and a      *)
(* changed-fast one has nothing of its own but below a hidden path, for    *)
(* every repository, policy and schedule.                                  *)
(***************************************************************************)
EXTENDS Inventory, TLAPS

Paths == Seq(STRING)

LEMMA ChildType ==
  ASSUME NEW d \in Paths, NEW p \in Paths, Len(d) < Len(p)
  PROVE  /\ Child(d, p) \in Paths
         /\ Len(Child(d, p)) = Len(d) + 1
         /\ \A i \in 1 .. Len(d) + 1 : Child(d, p)[i] = p[i]
<1>1. \A i \in 1 .. Len(d) + 1 : p[i] \in STRING
  BY DEF Paths
<1> QED BY <1>1 DEF Child, Paths

LEMMA SamePath ==
  ASSUME NEW d \in Paths, NEW p \in Paths, Upto(d, p), Len(d) = Len(p)
  PROVE  d = p
BY DEF Upto, Paths

\* What should_skip leaves out but for the globs, it leaves out with all below.
LEMMA SkippedBelow ==
  ASSUME NEW d \in Paths, NEW p \in Paths, Len(d) > 0, Upto(d, p), SkipTree(d)
  PROVE  SkipTree(p)
<1>1. Len(p) > 0 /\ d[1] = p[1]
  BY DEF Upto, Paths
<1>2. ~Protected(p)
  <2>1. CASE Len(p) = 1
    BY <1>1, <2>1, SamePath DEF Upto, SkipTree, Paths
  <2>2. CASE Len(p) # 1
    BY <1>1, <2>2 DEF Protected, SkipTree
  <2> QED BY <2>1, <2>2
<1>3. CASE CursorState(d)
  BY <1>1, <1>2, <1>3 DEF CursorState, SkipTree, Upto, Paths
<1>4. CASE \E e \in ExcludedPaths : Upto(e, d)
  <2>1. PICK e \in ExcludedPaths : Upto(e, d)
    BY <1>4
  <2>2. Upto(e, p)
    BY <2>1, PathsAssumption DEF Upto, Paths
  <2> QED BY <1>2, <2>2 DEF SkipTree
<1>5. CASE d[1] \in EXCLUDED_AGENT_STATE_DIRS
  BY <1>1, <1>2, <1>5 DEF SkipTree
<1>6. CASE \E i \in 1 .. Len(d) : d[i] \in EXCLUDED_DIRS
  BY <1>2, <1>6 DEF SkipTree, Upto, Paths
<1> QED BY <1>3, <1>4, <1>5, <1>6 DEF SkipTree

LEMMA AboveChild ==
  ASSUME NEW d \in Paths, NEW p \in Paths, Len(d) < Len(p), Upto(d, p)
  PROVE  /\ \A a \in Above(Child(d, p)) : a = d \/ a \in Above(d)
         /\ Child(d, p) = p \/ Child(d, p) \in Above(p)
         /\ Upto(Child(d, p), p)
<1> DEFINE c == Child(d, p)
<1>1. c \in Paths /\ Len(c) = Len(d) + 1 /\ \A i \in 1 .. Len(d) + 1 : c[i] = p[i]
  BY ChildType
<1>2. ASSUME NEW n \in 1 .. Len(c) - 1
      PROVE  LET a == [i \in 1 .. n |-> c[i]] IN a = d \/ a \in Above(d)
  <2>1. [i \in 1 .. n |-> c[i]] = [i \in 1 .. n |-> d[i]]
    BY <1>1, <1>2 DEF Upto, Paths
  <2>2. CASE n = Len(d)
    <3>1. d = [i \in 1 .. n |-> d[i]]
      BY <2>2 DEF Paths
    <3> QED BY <2>1, <3>1
  <2>3. CASE n # Len(d)
    <3>1. n \in 1 .. Len(d) - 1
      BY <1>1, <1>2, <2>3 DEF Paths
    <3> QED BY <2>1, <3>1 DEF Above
  <2> QED BY <2>2, <2>3
<1>3. c = p \/ c \in Above(p)
  <2>1. CASE Len(d) + 1 = Len(p)
    <3>1. Upto(c, p)
      BY <1>1, <2>1 DEF Upto
    <3> QED BY <1>1, <2>1, <3>1, SamePath
  <2>2. CASE Len(d) + 1 # Len(p)
    <3>1. Len(d) + 1 \in 1 .. Len(p) - 1
      BY <2>2 DEF Paths
    <3> QED BY <3>1 DEF Above, Child
  <2> QED BY <2>1, <2>2
<1>4. Upto(c, p)
  BY <1>1 DEF Upto, Paths
<1> HIDE DEF c
<1>5. \A a \in Above(c) : a = d \/ a \in Above(d)
  BY <1>2 DEF Above
<1> QED BY <1>3, <1>4, <1>5 DEF c

\* The walk leaves nothing out on the way to a file that is wanted.
LEMMA OnTheWay ==
  ASSUME NEW d \in Paths, NEW f \in Files, Len(d) < Len(f), Upto(d, f), Wanted(f), Present(f)
  PROVE  Child(d, f) \in Listed(d, FALSE)
<1>1. f \in Paths /\ f \in Below(d)
  BY PathsAssumption DEF Below, Paths
<1>2. Child(d, f) = f \/ Child(d, f) \in Above(f)
  BY <1>1, AboveChild
<1>3. ~Hidden(Child(d, f))
  BY <1>2 DEF Wanted
<1>4. ~SkipTree(Child(d, f))
  BY <1>1, ChildType, AboveChild, SkippedBelow DEF Wanted, Paths
<1> QED BY <1>1, <1>3, <1>4 DEF Listed, Skip, Hidden

-----------------------------------------------------------------------------
(* Type correctness.                                                       *)

LEMMA ListedType ==
  ASSUME NEW d \in Paths, NEW g PROVE Listed(d, g) \subseteq Paths
<1> SUFFICES ASSUME NEW f \in Below(d) PROVE Child(d, f) \in Paths
  BY DEF Listed
<1> QED BY ChildType, PathsAssumption DEF Below, Paths

LEMMA TypeStep == TypeOK /\ [Next]_vars => TypeOK'
<1> SUFFICES ASSUME TypeOK, [Next]_vars PROVE TypeOK'
  OBVIOUS
<1> USE DEF TypeOK
<1>1. CASE Begin
  <2>1. \A e \in pending' : e.path \in Seq(STRING)
    <3>1. \A p \in Asked : p \in Seq(STRING)
      BY PathsAssumption DEF Asked
    <3>2. <<>> \in Seq(STRING)
      OBVIOUS
    <3>3. CASE full
      <4> DEFINE root == [path |-> <<>>, git |-> FALSE]
      <4>1. pending' = {root}
        BY <1>1, <3>3 DEF Begin
      <4>2. root.path = <<>>
        OBVIOUS
      <4> HIDE DEF root
      <4> QED BY <3>2, <4>1, <4>2
    <3>4. CASE ~full
      BY <1>1, <3>1, <3>4 DEF Begin
    <3> QED BY <3>3, <3>4
  <2> QED BY <1>1, <2>1 DEF Begin
<1>2. ASSUME NEW e \in pending, Enter(e) PROVE TypeOK'
  <2>1. Listed(e.path, e.git) \subseteq Paths
    BY ListedType DEF Paths
  <2>2. \A x \in pending' : x.path \in Seq(STRING)
    BY <1>2, <2>1 DEF Enter, Paths
  <2> QED BY <1>2, <2>2 DEF Enter
<1>3. ASSUME NEW e \in pending, Collect(e) PROVE TypeOK'
  BY <1>3 DEF Collect
<1>4. CASE WalkEnds \/ SeedsEnd \/ ReadsEnd
  BY <1>4 DEF WalkEnds, SeedsEnd, ReadsEnd
<1>5. ASSUME NEW p \in collected, Seed(p) PROVE TypeOK'
  BY <1>5 DEF Seed, Present
<1>6. ASSUME NEW s \in seeds, Read(s) PROVE TypeOK'
  BY <1>6 DEF Read, Infos
<1>7. ASSUME NEW f \in Files, Edit(f) PROVE TypeOK'
  BY <1>7 DEF Edit
<1>8. ASSUME NEW o \in Ops, Overlay(o) PROVE TypeOK'
  <2>1. o.to \in Files /\ o.op \in {"create", "modify", "delete", "rename"}
        /\ o.bytes \in Contents \cup {Absent} /\ (o.op = "rename" => o.from \in Files)
    BY PathsAssumption DEF Ops, Bytes
  <2>2. Candidate(o) \subseteq Infos
    BY <2>1, ContentsAssumption DEF Candidate, Info, Infos
  <2>3. Written(o) \in [Files -> Contents \cup {Absent}]
    BY <2>1, ContentsAssumption DEF Written
  <2>4. files' \subseteq Infos
    BY <1>8, <2>2 DEF Overlay, Kept
  <2>5. blind' \subseteq Files
    BY <1>8, <2>1 DEF Overlay
  <2> QED BY <1>8, <2>3, <2>4, <2>5 DEF Overlay
<1>9. CASE UNCHANGED vars
  BY <1>9 DEF vars
<1> QED BY <1>1, <1>2, <1>3, <1>4, <1>5, <1>6, <1>7, <1>8, <1>9 DEF Next

\* Type correctness, for every repository.
THEOREM TypeCorrect == Spec => []TypeOK
<1>1. Init => TypeOK
  BY DEF Init, TypeOK
<1> QED BY <1>1, TypeStep, PTL DEF Spec

-----------------------------------------------------------------------------
(* One entry for a file.                                                   *)

\* A path is at one stage only: collected, or its metadata read, or listed.
OneStage == /\ \A s, t \in seeds : s.path = t.path => s = t
            /\ \A s \in seeds : s.path \notin collected
            /\ \A i \in files, s \in seeds : i.path # s.path
            /\ pc \in {"idle", "walk"} => seeds = {}
            /\ pc \in {"idle", "walk", "seed"} => files = {}
            /\ pc = "done" => seeds = {}
            /\ pc = "read" => collected = {}

LEMMA OneStageStep == TypeOK /\ OneEntryPerFile /\ OneStage /\ [Next]_vars
                        => OneEntryPerFile' /\ OneStage'
<1> SUFFICES ASSUME TypeOK, OneEntryPerFile, OneStage, [Next]_vars
             PROVE  OneEntryPerFile' /\ OneStage'
  OBVIOUS
<1> USE DEF OneEntryPerFile, OneStage
<1>1. CASE Begin
  BY <1>1 DEF Begin
<1>2. ASSUME NEW e \in pending, Enter(e) \/ Collect(e) PROVE OneEntryPerFile' /\ OneStage'
  BY <1>2 DEF Enter, Collect
<1>4. CASE WalkEnds \/ SeedsEnd \/ ReadsEnd
  BY <1>4 DEF WalkEnds, SeedsEnd, ReadsEnd
<1>5. ASSUME NEW p \in collected, Seed(p) PROVE OneEntryPerFile' /\ OneStage'
  BY <1>5 DEF Seed
<1>6. ASSUME NEW s \in seeds, Read(s) PROVE OneEntryPerFile' /\ OneStage'
  BY <1>6 DEF Read
<1>7. ASSUME NEW f \in Files, Edit(f) PROVE OneEntryPerFile' /\ OneStage'
  BY <1>7 DEF Edit
<1>8. ASSUME NEW o \in Ops, Overlay(o) PROVE OneEntryPerFile' /\ OneStage'
  <2>1. \A i, j \in Candidate(o) : i = j /\ i.path = o.to
    BY DEF Candidate, Info
  <2>2. \A i \in Kept(o) : i \in files /\ i.path # o.to
    BY DEF Kept
  <2> QED BY <1>8, <2>1, <2>2 DEF Overlay
<1>9. CASE UNCHANGED vars
  BY <1>9 DEF vars
<1> QED BY <1>1, <1>2, <1>4, <1>5, <1>6, <1>7, <1>8, <1>9 DEF Next

\* A file has one entry, through every race and overlay.
THEOREM OneEntry == Spec => []OneEntryPerFile
<1>1. Init => OneEntryPerFile /\ OneStage
  BY DEF Init, OneEntryPerFile, OneStage
<1> QED BY <1>1, OneStageStep, TypeCorrect, PTL DEF Spec

-----------------------------------------------------------------------------
(* Untouched files are listed.                                             *)

\* At every stage of a full inventory an untouched file that is wanted is on its way:
\* the walk is to enter a directory above it, or it is in hand.
Traced(f) ==
    full /\ overlays = 0 /\ f \notin touched /\ Wanted(f) /\ Present(f) =>
        \/ pc = "idle"
        \/ pc = "walk" /\ \/ f \in collected
                          \/ \E e \in pending : Upto(e.path, f) /\ e.git = FALSE
        \/ pc = "seed" /\ (f \in collected \/ [path |-> f, size |-> disk[f]] \in seeds)
        \/ pc = "read" /\ ([path |-> f, size |-> disk[f]] \in seeds \/ Info(f, disk[f]) \in files)
        \/ pc = "done" /\ Info(f, disk[f]) \in files

LEMMA TracedStep ==
  ASSUME TypeOK, [Next]_vars, NEW f \in Files, Traced(f) PROVE Traced(f)'
<1> SUFFICES ASSUME full', overlays' = 0, f \notin touched', Wanted(f), Present(f)'
             PROVE  Traced(f)'
  BY DEF Traced
<1>0. f \in Paths /\ Len(f) > 0
  BY PathsAssumption DEF Paths
<1>a. full /\ overlays = 0 /\ f \notin touched /\ disk'[f] = disk[f]
  <2>1. CASE \E g \in Files : Edit(g)
    BY <2>1 DEF Edit, TypeOK
  <2>2. CASE \E o \in Ops : Overlay(o)
    BY <2>2 DEF Overlay, TypeOK
  <2> QED BY <2>1, <2>2 DEF Next, vars, Begin, WalkEnds, SeedsEnd, ReadsEnd, Enter, Collect,
                            Seed, Read
<1>b. Present(f)
  BY <1>a DEF Present
<1> USE <1>0, <1>a, <1>b DEF Traced
<1>1. CASE Begin
  <2>1. [path |-> <<>>, git |-> FALSE] \in pending'
    BY <1>1 DEF Begin
  <2>2. Upto(<<>>, f)
    BY DEF Upto, Paths
  <2> QED BY <1>1, <2>1, <2>2 DEF Begin
<1>2. ASSUME NEW e \in pending, Enter(e) PROVE Traced(f)'
  <2>1. CASE f \in collected
    BY <1>2, <2>1 DEF Enter
  <2>2. CASE \E x \in pending : x # e /\ Upto(x.path, f) /\ x.git = FALSE
    BY <1>2, <2>2 DEF Enter
  <2>3. CASE Upto(e.path, f) /\ e.git = FALSE
    <3>1. e.path \in Paths
      BY DEF TypeOK, Paths
    <3>2. Len(e.path) < Len(f)
      BY <1>2, <2>3, <3>1, SamePath DEF Enter, Upto, Paths
    <3>3. Child(e.path, f) \in Listed(e.path, FALSE) /\ Upto(Child(e.path, f), f)
      BY <2>3, <3>1, <3>2, OnTheWay, AboveChild
    <3>4. [path |-> Child(e.path, f), git |-> FALSE] \in pending'
      BY <1>2, <2>3, <3>3 DEF Enter
    <3> QED BY <1>2, <3>3, <3>4 DEF Enter
  <2> QED BY <1>2, <2>1, <2>2, <2>3 DEF Enter
<1>3. ASSUME NEW e \in pending, Collect(e) PROVE Traced(f)'
  <2>1. CASE f \in collected
    BY <1>3, <2>1 DEF Collect
  <2>2. CASE \E x \in pending : x # e /\ Upto(x.path, f) /\ x.git = FALSE
    BY <1>3, <2>2 DEF Collect
  <2>3. CASE Upto(e.path, f)
    BY <1>3, <2>3, PathsAssumption DEF Collect
  <2> QED BY <1>3, <2>1, <2>2, <2>3 DEF Collect
<1>4. CASE WalkEnds \/ SeedsEnd \/ ReadsEnd
  BY <1>4 DEF WalkEnds, SeedsEnd, ReadsEnd
<1>5. ASSUME NEW p \in collected, Seed(p) PROVE Traced(f)'
  BY <1>5 DEF Seed
<1>6. ASSUME NEW s \in seeds, Read(s) PROVE Traced(f)'
  BY <1>6 DEF Read, Info
<1>7. ASSUME NEW g \in Files, Edit(g) PROVE Traced(f)'
  BY <1>7 DEF Edit
<1>8. ASSUME NEW o \in Ops, Overlay(o) PROVE Traced(f)'
  BY <1>8 DEF Overlay, TypeOK
<1>9. CASE UNCHANGED vars
  BY <1>9 DEF vars
<1> QED BY <1>1, <1>2, <1>3, <1>4, <1>5, <1>6, <1>7, <1>8, <1>9 DEF Next

\* A full inventory lists every wanted file that nobody touches, in any race.
THEOREM UntouchedAreListed == Spec => []UntouchedListed
<1> DEFINE AllTraced == \A f \in Files : Traced(f)
<1>1. Init => AllTraced
  BY DEF Init, Traced
<1>2. TypeOK /\ AllTraced /\ [Next]_vars => AllTraced'
  BY TracedStep
<1>3. AllTraced => UntouchedListed
  BY DEF Traced, UntouchedListed
<1> HIDE DEF AllTraced
<1> QED BY <1>1, <1>2, <1>3, TypeCorrect, PTL DEF Spec

-----------------------------------------------------------------------------
(* Overlays.                                                               *)

\* What a full inventory has in hand is wanted, and true of a disk nobody touches.
Faithful ==
    full /\ pc # "done" =>
        /\ \A e \in pending : e.git = FALSE /\ (e.path = <<>> \/ Wanted(e.path))
        /\ \A f \in collected : Wanted(f)
        /\ \A s \in seeds : Wanted(s.path) /\ (touched = {} => s.size = disk[s.path])
        /\ \A i \in files : /\ Wanted(i.path)
                            /\ touched = {} => i = Info(i.path, disk[i.path])

LEMMA ListedWanted ==
  ASSUME NEW d \in Paths, d = <<>> \/ Wanted(d), NEW c \in Listed(d, FALSE)
  PROVE  Wanted(c)
<1>1. PICK f \in Below(d) : c = Child(d, f)
  BY DEF Listed
<1>2. f \in Paths /\ Len(d) < Len(f) /\ Upto(d, f)
  BY PathsAssumption DEF Below, Paths
<1>3. ~SkipTree(c) /\ ~Hidden(c)
  BY DEF Listed, Skip, Hidden
<1>4. \A a \in Above(c) : a = d \/ a \in Above(d)
  BY <1>1, <1>2, AboveChild
<1>5. CASE d = <<>>
  <2>1. Len(c) = 1
    <3>1. Len(<<>>) = 0
      OBVIOUS
    <3>2. Len(Child(d, f)) = Len(d) + 1
      BY <1>2, ChildType
    <3> QED BY <1>1, <1>5, <3>1, <3>2
  <2>2. Above(c) = {}
    BY <2>1 DEF Above
  <2> QED BY <1>3, <2>2 DEF Wanted
<1>6. CASE Wanted(d)
  BY <1>3, <1>4, <1>6 DEF Wanted
<1> QED BY <1>5, <1>6

LEMMA FaithfulStep == TypeOK /\ OneStage /\ Faithful /\ [Next]_vars => Faithful'
<1> SUFFICES ASSUME TypeOK, OneStage, Faithful, [Next]_vars, full', pc' # "done"
             PROVE  Faithful'
  BY DEF Faithful
<1>0. full /\ pc # "done"
  BY DEF TypeOK, Next, vars, Begin, WalkEnds, SeedsEnd, ReadsEnd, Enter, Collect, Seed, Read,
         Edit, Overlay
<1> USE <1>0 DEF Faithful
<1>1. CASE Begin
  <2> DEFINE root == [path |-> <<>>, git |-> FALSE]
  <2>1. pending' = {root} /\ UNCHANGED <<disk, collected, seeds, files, touched>>
    BY <1>1 DEF Begin
  <2>2. root.path = <<>> /\ root.git = FALSE
    OBVIOUS
  <2> HIDE DEF root
  <2> QED BY <2>1, <2>2
<1>2. ASSUME NEW e \in pending, Enter(e) PROVE Faithful'
  <2>1. \A c \in Listed(e.path, e.git) : Wanted(c)
    BY ListedWanted DEF TypeOK, Paths
  <2>2. \A x \in pending' : x.git = FALSE /\ (x.path = <<>> \/ Wanted(x.path))
    BY <1>2, <2>1 DEF Enter
  <2> QED BY <1>2, <2>2 DEF Enter
<1>3. ASSUME NEW e \in pending, Collect(e) PROVE Faithful'
  BY <1>3, PathsAssumption DEF Collect
<1>4. CASE WalkEnds \/ SeedsEnd \/ ReadsEnd
  BY <1>4 DEF WalkEnds, SeedsEnd, ReadsEnd
<1>5. ASSUME NEW p \in collected, Seed(p) PROVE Faithful'
  BY <1>5 DEF Seed
<1>6. ASSUME NEW s \in seeds, Read(s) PROVE Faithful'
  BY <1>6 DEF Read, Info
<1>7. ASSUME NEW f \in Files, Edit(f) PROVE Faithful'
  <2>1. touched' # {}
    BY <1>7 DEF Edit
  <2> QED BY <1>7, <2>1 DEF Edit
<1>8. CASE \E o \in Ops : Overlay(o)
  BY <1>8 DEF Overlay
<1>9. CASE UNCHANGED vars
  BY <1>9 DEF vars
<1> QED BY <1>1, <1>2, <1>3, <1>4, <1>5, <1>6, <1>7, <1>8, <1>9 DEF Next

LEMMA WalkDone ==
  ASSUME TypeOK, Faithful, \A f \in Files : Traced(f), OneStage, ReadsEnd, overlays = 0,
         blind = {}
  PROVE  OverlayIsWalk'
<1> SUFFICES ASSUME full, touched = {}
             PROVE  files = {Info(f, disk[f]) :
                               f \in {g \in Files : Wanted(g) /\ disk[g] # Absent}}
  BY DEF OverlayIsWalk, ReadsEnd
<1>1. pc = "read" /\ seeds = {}
  BY DEF ReadsEnd
<1>2. \A f \in Files : Wanted(f) /\ disk[f] # Absent => Info(f, disk[f]) \in files
  BY <1>1 DEF Traced, Present
<1>3. \A i \in files : i.path \in Files /\ Wanted(i.path) /\ i = Info(i.path, disk[i.path])
  BY <1>1 DEF Faithful, TypeOK, Infos
<1>4. \A i \in files : disk[i.path] # Absent
  <2> SUFFICES ASSUME NEW i \in files PROVE disk[i.path] # Absent
    OBVIOUS
  <2>1. i.size = disk[i.path]
    BY <1>3 DEF Info
  <2> QED BY <2>1, ContentsAssumption DEF TypeOK, Infos
<1> QED BY <1>2, <1>3, <1>4

LEMMA OverlayKeeps ==
  ASSUME TypeOK, OverlayIsWalk, NEW o \in Ops, Wanted(o.to), Overlay(o)
  PROVE  OverlayIsWalk'
<1> SUFFICES ASSUME full, touched = {}
             PROVE  files' = {Info(f, landed'[f]) : f \in {g \in Files :
                                Wanted(g) /\ landed'[g] # Absent /\ g \notin blind'}}
  BY DEF OverlayIsWalk, Overlay
<1>1. files = {Info(f, landed[f]) : f \in {g \in Files :
                 Wanted(g) /\ landed[g] # Absent /\ g \notin blind}}
  BY DEF OverlayIsWalk, Overlay
<1>2. files' = Kept(o) \cup Candidate(o) /\ landed' = Written(o)
  BY DEF Overlay
<1>3. o.to \in Files /\ o.op \in {"create", "modify", "delete", "rename"}
      /\ o.bytes \in Contents \cup {Absent}
  BY PathsAssumption DEF Ops, Bytes
<1> DEFINE moved(f) == o.op = "rename" /\ f = o.from
<1>4. \A f \in Files : f # o.to =>
        /\ landed'[f] = IF moved(f) THEN Absent ELSE landed[f]
        /\ ~moved(f) => (f \in blind' <=> f \in blind)
  BY <1>2 DEF Written, Overlay
<1>5. Kept(o) = {Info(f, landed[f]) : f \in {g \in Files : Wanted(g) /\ landed[g] # Absent
                                       /\ g \notin blind /\ g # o.to /\ ~moved(g)}}
  <2>1. \A f \in Files : Info(f, landed[f]).path = f
    BY DEF Info
  <2> QED BY <1>1, <2>1 DEF Kept
<1>6. Candidate(o) = {Info(f, landed'[f]) :
                         f \in {g \in {o.to} : landed'[g] # Absent /\ g \notin blind'}}
  <2>1. o.to \in blind' <=> o.op = "rename" /\ o.bytes = Absent
    BY DEF Overlay
  <2>2. CASE o.op = "delete"
    BY <1>2, <1>3, <2>2 DEF Candidate, Written
  <2>3. CASE o.op = "rename" /\ o.bytes = Absent
    BY <2>1, <2>3 DEF Candidate
  <2>4. CASE o.op = "rename" /\ o.bytes # Absent
    BY <1>2, <1>3, <2>1, <2>4 DEF Candidate, Written
  <2>5. CASE o.op \in {"create", "modify"}
    BY <1>2, <1>3, <2>1, <2>5, ContentsAssumption DEF Candidate, Written
  <2> QED BY <1>3, <2>2, <2>3, <2>4, <2>5
<1> HIDE DEF moved
<1>7. Kept(o) = {Info(f, landed'[f]) : f \in {g \in Files \ {o.to} :
                            Wanted(g) /\ landed'[g] # Absent /\ g \notin blind'}}
  BY <1>4, <1>5
<1> QED BY <1>2, <1>3, <1>6, <1>7

\* If no rule leaves out the paths of the changes, an overlaid inventory is what a walk
\* gives once they are written, less the files that were moved without their bytes.
THEOREM OverlaysAreWalks ==
  ASSUME \A f \in Candidates : Wanted(f) PROVE Spec => []OverlayIsWalk
<1> DEFINE Inv == /\ Faithful /\ OneStage /\ OverlayIsWalk /\ OneEntryPerFile
                  /\ \A f \in Files : Traced(f)
                  /\ pc # "done" => overlays = 0 /\ blind = {}
<1>1. Init => Inv
  BY DEF Init, Faithful, OneStage, OverlayIsWalk, OneEntryPerFile, Traced
<1>2. TypeOK /\ Inv /\ [Next]_vars => Inv'
  <2> SUFFICES ASSUME TypeOK, Inv, [Next]_vars PROVE Inv'
    OBVIOUS
  <2>1. Faithful' /\ OneStage' /\ OneEntryPerFile'
    BY FaithfulStep, OneStageStep
  <2>2. \A f \in Files : Traced(f)'
    BY TracedStep
  <2>3. (pc # "done" => overlays = 0 /\ blind = {})'
    BY DEF Next, vars, Begin, WalkEnds, SeedsEnd, ReadsEnd, Enter, Collect, Seed, Read, Edit,
           Overlay
  <2>4. OverlayIsWalk'
    <3>1. CASE ReadsEnd
      <4>1. overlays = 0 /\ blind = {}
        BY <3>1 DEF ReadsEnd
      <4> QED BY <3>1, <4>1, WalkDone
    <3>2. CASE \E o \in Ops : Overlay(o)
      <4>1. \A o \in Ops : o.to \in Candidates
        BY DEF Ops
      <4> QED BY <3>2, <4>1, OverlayKeeps
    <3>3. CASE UNCHANGED vars
      BY <3>3 DEF OverlayIsWalk, vars
    <3>4. CASE pc' # "done"
      BY <3>4 DEF OverlayIsWalk
    <3> QED BY <3>1, <3>2, <3>3, <3>4 DEF Next, Begin, WalkEnds, SeedsEnd, Enter, Collect, Seed,
                                          Read, Edit
  <2> QED BY <2>1, <2>2, <2>3, <2>4
<1>3. Inv => OverlayIsWalk
  OBVIOUS
<1> HIDE DEF Inv
<1> QED BY <1>1, <1>2, <1>3, TypeCorrect, PTL DEF Spec

-----------------------------------------------------------------------------
(* Changed-fast audits.                                                    *)

\* A walk from a named path leaves out, below that path, what a full one does.
Reached(p) == \E n \in Named :
    /\ Upto(n, p)
    /\ ~SkipTree(p)
    /\ \A d \in Above(p) \cup {p} : Len(d) > Len(n) => ~Hidden(d)

\* What a changed-fast inventory has in hand was reached from a path it was asked for.
FromNamed ==
    ~full /\ overlays = 0 =>
        /\ \A e \in pending : Reached(e.path)
        /\ \A f \in collected : Reached(f)
        /\ \A s \in seeds : Reached(s.path)
        /\ \A i \in files : Reached(i.path)

LEMMA ReachedNamed ==
  ASSUME NEW p \in Named, ~Skip(p) PROVE Reached(p)
<1>1. p \in Paths /\ Upto(p, p)
  BY PathsAssumption DEF Upto, Paths
<1>2. \A d \in Above(p) : Len(d) <= Len(p)
  BY <1>1 DEF Above, Paths
<1> QED BY <1>1, <1>2 DEF Reached, Skip, Paths

LEMMA ReachedBelow ==
  ASSUME NEW d \in Paths, Reached(d), NEW g, NEW c \in Listed(d, g)
  PROVE  Reached(c)
<1>1. PICK f \in Below(d) : c = Child(d, f)
  BY DEF Listed
<1>2. f \in Paths /\ Len(d) < Len(f) /\ Upto(d, f)
  BY PathsAssumption DEF Below, Paths
<1>3. PICK n \in Named : /\ Upto(n, d)
                        /\ \A a \in Above(d) \cup {d} : Len(a) > Len(n) => ~Hidden(a)
  BY DEF Reached
<1>4. Upto(n, c)
  <2>1. Len(c) = Len(d) + 1 /\ \A i \in 1 .. Len(d) + 1 : c[i] = f[i]
    BY <1>1, <1>2, ChildType
  <2> QED BY <1>2, <1>3, <2>1, PathsAssumption DEF Upto, Paths
<1>5. ~SkipTree(c) /\ ~Hidden(c)
  BY DEF Listed, Skip, Hidden
<1>6. \A a \in Above(c) : a = d \/ a \in Above(d)
  BY <1>1, <1>2, AboveChild
<1> QED BY <1>3, <1>4, <1>5, <1>6 DEF Reached

\* What is hidden on the way to a path that was reached lies above the path asked for.
LEMMA ReachedOrHidden ==
  ASSUME NEW p \in Paths, Reached(p)
  PROVE  Wanted(p) \/ \E n \in Named : Upto(n, p) /\ \E d \in Above(n) \cup {n} : Hidden(d)
<1>1. PICK n \in Named : /\ Upto(n, p) /\ ~SkipTree(p)
                        /\ \A d \in Above(p) \cup {p} : Len(d) > Len(n) => ~Hidden(d)
  BY DEF Reached
<1>2. n \in Paths
  BY PathsAssumption DEF Paths
<1> SUFFICES ASSUME NEW d \in Above(p) \cup {p}, Hidden(d) PROVE d \in Above(n) \cup {n}
  BY <1>1 DEF Wanted
<1>3. Len(d) <= Len(n)
  BY <1>1, <1>2 DEF Above, Paths
<1>4. CASE d = p
  <2>1. Len(n) = Len(p)
    BY <1>1, <1>2, <1>3, <1>4 DEF Upto, Paths
  <2> QED BY <1>1, <1>2, <1>4, <2>1, SamePath
<1>5. CASE d \in Above(p)
  <2>1. PICK k \in 1 .. Len(p) - 1 : d = [i \in 1 .. k |-> p[i]]
    BY <1>5 DEF Above
  <2>2. k \in Nat /\ k >= 1 /\ Len(d) = k
    BY <2>1 DEF Paths
  <2>3. d = [i \in 1 .. k |-> n[i]]
    BY <1>1, <1>2, <1>3, <2>1, <2>2 DEF Upto, Paths
  <2>4. CASE k = Len(n)
    <3>1. n = [i \in 1 .. Len(n) |-> n[i]]
      BY <1>2 DEF Paths
    <3> QED BY <2>3, <2>4, <3>1
  <2>5. CASE k # Len(n)
    <3>1. k \in 1 .. Len(n) - 1
      BY <1>2, <1>3, <2>2, <2>5 DEF Paths
    <3> QED BY <2>3, <3>1 DEF Above
  <2> QED BY <2>4, <2>5
<1> QED BY <1>4, <1>5

LEMMA FromNamedStep == TypeOK /\ FromNamed /\ [Next]_vars => FromNamed'
<1> SUFFICES ASSUME TypeOK, FromNamed, [Next]_vars, ~full', overlays' = 0
             PROVE  FromNamed'
  BY DEF FromNamed
<1>0. ~full /\ overlays = 0
  <2>1. CASE \E o \in Ops : Overlay(o)
    BY <2>1 DEF Overlay, TypeOK
  <2> QED BY <2>1 DEF Next, vars, Begin, WalkEnds, SeedsEnd, ReadsEnd, Enter, Collect, Seed,
                      Read, Edit
<1> USE <1>0 DEF FromNamed
<1>1. CASE Begin
  <2>1. pending' = {[path |-> p, git |-> ~Protected(p)] : p \in Asked}
        /\ UNCHANGED <<collected, seeds, files>>
    BY <1>1 DEF Begin
  <2>2. \A p \in Asked : Reached(p)
    BY ReachedNamed DEF Asked
  <2> QED BY <2>1, <2>2
<1>2. ASSUME NEW e \in pending, Enter(e) PROVE FromNamed'
  <2>1. \A c \in Listed(e.path, e.git) : Reached(c)
    BY ReachedBelow DEF TypeOK, Paths
  <2> QED BY <1>2, <2>1 DEF Enter
<1>3. ASSUME NEW e \in pending, Collect(e) PROVE FromNamed'
  BY <1>3 DEF Collect
<1>4. CASE WalkEnds \/ SeedsEnd \/ ReadsEnd
  BY <1>4 DEF WalkEnds, SeedsEnd, ReadsEnd
<1>5. ASSUME NEW p \in collected, Seed(p) PROVE FromNamed'
  BY <1>5 DEF Seed
<1>6. ASSUME NEW s \in seeds, Read(s) PROVE FromNamed'
  BY <1>6 DEF Read
<1>7. ASSUME NEW f \in Files, Edit(f) PROVE FromNamed'
  BY <1>7 DEF Edit
<1>8. CASE \E o \in Ops : Overlay(o)
  BY <1>8 DEF Overlay, TypeOK
<1>9. CASE UNCHANGED vars
  BY <1>9 DEF vars
<1> QED BY <1>1, <1>2, <1>3, <1>4, <1>5, <1>6, <1>7, <1>8, <1>9 DEF Next

\* A changed-fast audit sees no file that a full one does not, but below a hidden path it
\* was asked for, or below a hidden directory above one.
THEOREM FastIsInsideFull == Spec => []FastOutsideFull
<1>1. Init => FromNamed
  BY DEF Init, FromNamed
<1>2. TypeOK /\ FromNamed => FastOutsideFull
  <2> SUFFICES ASSUME TypeOK, FromNamed, ~full, overlays = 0, NEW i \in files
               PROVE  Wanted(i.path) \/ \E p \in Named :
                          Upto(p, i.path) /\ \E d \in Above(p) \cup {p} : Hidden(d)
    BY DEF FastOutsideFull
  <2>1. i.path \in Paths /\ Reached(i.path)
    BY PathsAssumption DEF FromNamed, TypeOK, Infos, Paths
  <2> QED BY <2>1, ReachedOrHidden
<1> QED BY <1>1, <1>2, FromNamedStep, TypeCorrect, PTL DEF Spec
=============================================================================
