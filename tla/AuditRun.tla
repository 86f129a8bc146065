------------------------------ MODULE AuditRun ------------------------------
(***************************************************************************)
(* An audit from the inventory to its findings, as the pieces of the       *)
(* kernel read the repository: the inventory reads the files, then the     *)
(* language rules run on it one after another (language_rules/mod.rs), and *)
(* the finding builder adds what they found (finding_builder.rs).  The     *)
(* text of files is read once; the manifest of generated zones is read     *)
(* again by every module that asks for it, twice by the Rust rules, and    *)
(* the owner map for every finding.  Others edit all of them meanwhile.    *)
(*                                                                         *)
(* The caller that strings these together is not in the repository; it is  *)
(* taken to do it in this order and once.  A site stands for a place and a *)
(* detector; what the rules say of the text there is in LanguageRules.     *)
(***************************************************************************)
EXTENDS Routing, FiniteSets

CONSTANTS
    Sites,       \* places something may be found at, in the order of findings
    PathOf,      \* the path of a site
    ModuleOf,    \* ... the module that looks there
    HintOf,      \* ... and the owner hint of its rule
    ZoneFiles,   \* what may be in agent/generated-zones.toml
    OwnerFiles,  \* ... and in agent/owner-map.json
    CapOf,       \* how many findings a module reports
    MaxWorlds    \* bounds the states of the repository during an audit

\* The order of mod.rs, with the two passes of the Rust rules.
ModuleOrder == <<"rust", "rust lint", "sql", "typescript", "docker", "python", "ci", "git",
                 "gittools", "release", "comments">>
Modules == {ModuleOrder[k] : k \in DOMAIN ModuleOrder}
ZoneReaders == {"rust", "rust lint", "sql", "typescript", "comments"}

ASSUME SitesAssumption == /\ Sites \subseteq Nat /\ IsFiniteSet(Sites)
                          /\ ModuleOf \in [Sites -> Modules]
ASSUME CapAssumption == CapOf \in [Modules -> Nat]
ASSUME BoundAssumption == MaxWorlds \in Nat
\* The paths of an inventory are relative to the root and end in a name.
ASSUME PathsAssumption == \A s \in Sites : /\ PathOf[s] \in Seq(STRING) /\ PathOf[s] # <<>>
                                           /\ Normalized(PathOf[s]) = PathOf[s]
ASSUME OwnersAssumption == \A file \in OwnerFiles :
    file.entries \in Seq([key : Seq(STRING), owner : {entry.owner : entry \in Range(file.entries)}])

VARIABLES
    pc,        \* what the audit is doing
    world,     \* the repository
    past,      \* ... and all it has been since the audit began
    pending,   \* sites the inventory has still to read
    listed,    \* sites that were bad when it read them
    next,      \* the module that runs next
    queue,     \* findings not added yet
    report     \* ... and those added, with their owners

auditor == <<pc, pending, listed, next, queue, report>>
vars == <<auditor, world, past>>

Worlds == [bad : SUBSET Sites, zones : ZoneFiles, owners : OwnerFiles]

\* A zone hides a site from the modules that ask for zones.
Hidden(w, s) == ModuleOf[s] \in ZoneReaders /\ Suppressed(w.zones, PathOf[s])

\* The owner of a finding, or the hint of its rule.
OwnerFor(w, s) == LET owner == FindingOwner(w.owners, PathOf[s])
                  IN  IF owner = NoOwner THEN HintOf[s] ELSE owner

\* sort_and_cap_findings; the modules without it have a cap no audit reaches, and the pass
\* for lint suppressions stops behind its first file.
CappedFromEnd(hits, max) == {s \in hits : Cardinality({g \in hits : g > s}) < max}
Capped(hits, max) == {s \in hits : Cardinality({g \in hits : g < s}) < max}

-----------------------------------------------------------------------------

Init == /\ world \in Worlds
        /\ past = {world}
        /\ pc = "read" /\ pending = Sites
        /\ listed = {} /\ next = 1 /\ queue = {} /\ report = {}

\* The inventory reads a file, and with it all sites in it.
SitesIn(path) == {s \in Sites : PathOf[s] = path}
Read(path) == /\ pc = "read" /\ SitesIn(path) \cap pending # {}
              /\ pending' = pending \ SitesIn(path)
              /\ listed' = listed \cup (SitesIn(path) \cap world.bad)
              /\ UNCHANGED <<pc, next, queue, report, world, past>>

ReadsEnd == /\ pc = "read" /\ pending = {}
            /\ pc' = "scan"
            /\ UNCHANGED <<pending, listed, next, queue, report, world, past>>

\* A module reads the zones, if it does, and reports what is not in one.
ScanOver == /\ pc = "scan" /\ next \in DOMAIN ModuleOrder
            /\ LET m == ModuleOrder[next]
                   hits == {s \in listed : ModuleOf[s] = m /\ ~Hidden(world, s)}
               IN  queue' = Capped(hits, CapOf[m])
            /\ next' = next + 1
            /\ UNCHANGED <<pc, pending, listed, report, world, past>>
Scan == /\ pc = "scan" /\ next \in DOMAIN ModuleOrder
        /\ LET m == ModuleOrder[next]
               hits == {s \in listed : ModuleOf[s] = m /\ ~Hidden(world, s)}
           IN  queue' = queue \cup Capped(hits, CapOf[m])
        /\ next' = next + 1
        /\ UNCHANGED <<pc, pending, listed, report, world, past>>

ScansEnd == /\ pc = "scan" /\ next \notin DOMAIN ModuleOrder
            /\ pc' = "add"
            /\ UNCHANGED <<pending, listed, next, queue, report, world, past>>

\* FindingBuilder::add_with_rule
Finding(s) == [site |-> s, owner |-> OwnerFor(world, s)]
Add(s) == /\ pc = "add" /\ s \in queue
          /\ queue' = queue \ {s}
          /\ report' = report \cup {Finding(s)}
          /\ UNCHANGED <<pc, pending, listed, next, world, past>>

\* into_findings
Finish == /\ pc = "add" /\ queue = {}
          /\ pc' = "done"
          /\ UNCHANGED <<pending, listed, next, queue, report, world, past>>

\* Somebody saves a file: a source, the zones or the owner map.  Whoever writes a file in place
\* leaves it torn for a while, which is a state of the file like any other.
Save(w) == /\ pc # "done" /\ w # world
           /\ world' = w
           /\ past' = past \cup {w}
           /\ Cardinality(past') <= MaxWorlds
           /\ UNCHANGED auditor

SaveSource == \E s \in Sites :
    Save([world EXCEPT !.bad = IF s \in @ THEN @ \ {s} ELSE @ \cup {s}])
SaveZones == \E z \in ZoneFiles : Save([world EXCEPT !.zones = z])
SaveOwners == \E o \in OwnerFiles : Save([world EXCEPT !.owners = o])

Next == \/ \E s \in Sites : Read(PathOf[s]) \/ Add(s)
        \/ ReadsEnd \/ Scan \/ ScansEnd \/ Finish
        \/ SaveSource \/ SaveZones \/ SaveOwners

Spec == Init /\ [][Next]_vars

-----------------------------------------------------------------------------
(* What the audit promises.                                                *)

View(w) == [bad |-> w.bad, hidden |-> {s \in Sites : Hidden(w, s)},
            owner |-> [s \in Sites |-> OwnerFor(w, s)]]

Promise == INSTANCE AuditReport WITH
    Group <- [s \in Sites |-> {g \in Sites : ModuleOf[g] = ModuleOf[s]}],
    Cap <- [s \in Sites |-> CapOf[ModuleOf[s]]],
    world <- View(world),
    past <- {View(w) : w \in past},
    published <- pc = "done",
    report <- IF pc = "done" THEN report ELSE {}

\* Every variable keeps its type; a site is read, waits or is reported once.
TypeOK == /\ pc \in {"read", "scan", "add", "done"}
          /\ world \in Worlds /\ past \subseteq Worlds /\ world \in past
          /\ pending \subseteq Sites /\ listed \subseteq Sites \ pending
          /\ next \in 1 .. Len(ModuleOrder) + 1
          /\ queue \subseteq listed
          /\ \A f \in report : f.site \in listed \ queue

\* The report of an audit during which the repository is edited: every finding was true at
\* some moment, has an owner the map gave at some moment, and is there once; and what was to be
\* reported throughout is, up to the cap (rust_files, owner_for_path, sort_and_cap_findings).
ReportIsJustified == Promise!Spec

\* If nobody edits, the report is that of the repository: of every module the first sites that
\* are bad and in no zone, each under its owner.
QuietReport ==
    LET found(m) == {s \in world.bad : ModuleOf[s] = m /\ ~Hidden(world, s)}
    IN  {Finding(s) : s \in UNION {Capped(found(m), CapOf[m]) : m \in Modules}}
QuietIsExact == (pc = "done" /\ past = {world}) => report = QuietReport

\* The readers of a manifest agree.  While the keys of an owner map are written plainly, none as
\* the directory that a file is not, what the catalogue routes has an owner, what has one is
\* routed by both, and where no key ends within a name the finding builder and the catalogue name
\* the same owner (finding_builder.rs:310, context_data.rs:120, helpers.rs:1279); and what the
\* zones hide from the rules is guarded against edits, or refreshed (helpers.rs:1030, scan.rs:2719).
ManifestsAgree == \A s \in Sites :
    LET map == world.owners
    IN  /\ (map.state = "whole" /\ PlainKeys(map) /\ ~AsDirectory(map, PathOf[s])) =>
               Consistent(map, PathOf[s])
        /\ Guarded(world.zones, PathOf[s])
=============================================================================
