----------------------------- MODULE Inventory ------------------------------
(***************************************************************************)
(* The inventory of a repository (audit/fs.rs): the walk that finds the    *)
(* files to audit, in full or for the paths a changed-fast audit names;    *)
(* their metadata and then their text, read file by file on a thread pool  *)
(* while others may edit them; and the overlays that put unsaved changes   *)
(* into a finished inventory.                                              *)
(*                                                                         *)
(* A path is the sequence of its names; <<>> is the root.  Text stands for *)
(* what is taken of a file: how much of it, and whether the file is text,  *)
(* code or generated, depends on the path alone.  Order and case of paths, *)
(* and Windows separators, are left out.                                   *)
(*                                                                         *)
(* The constants of the list below that the code takes from .ignore and    *)
(* .gitignore files are sets of paths those files match.  Operators named  *)
(* after what they get wrong (AskedAll, ...) are faults that a run of the  *)
(* check puts in the place of the next operator.                           *)
(***************************************************************************)
EXTENDS Naturals, Sequences, FiniteSets

CONSTANTS
    Files,          \* the paths there may be files at
    Contents,       \* what may be in a file
    Absent,         \* ... of a file that is not there, or cannot be read
    Empty,          \* the content of an empty file
    ExcludedPaths,  \* excluded_paths of the policy
    Globbed,        \* the paths extra_excluded_globs of the policy match
    DotIgnored,     \* ... and those an .ignore file matches
    GitIgnored,     \* ... or a .gitignore file
    Named,          \* the paths the changed-fast audit asks for
    Candidates,     \* the paths of the changes that are overlaid
    MaxEdits,       \* bounds the edits during an inventory
    MaxOverlays     \* ... and the overlays after it

Upto(d, p) == Len(d) <= Len(p) /\ \A i \in 1 .. Len(d) : d[i] = p[i]

\* What is a file is never a directory.
ASSUME PathsAssumption == /\ \A f \in Files : f \in Seq(STRING) /\ Len(f) > 0
                          /\ \A f, g \in Files : Upto(f, g) => f = g
                          /\ Candidates \subseteq Files
                          /\ \A p \in Named : p \in Seq(STRING) /\ Len(p) > 0
                          /\ \A e \in ExcludedPaths : e \in Seq(STRING) /\ Len(e) > 0
ASSUME ContentsAssumption == Empty \in Contents /\ Absent \notin Contents
ASSUME BoundsAssumption == MaxEdits \in Nat /\ MaxOverlays \in Nat

VARIABLES
    pc,         \* what the inventory is doing
    full,       \* whether it is of the whole repository
    disk,       \* the files
    pending,    \* what the walk has still to visit, and whether by .gitignore
    collected,  \* the files found
    seeds,      \* ... their metadata
    files,      \* ... and the inventory itself
    landed,     \* the disk, had the overlaid changes been written
    touched,    \* the files edited during the inventory
    overlays,   \* how many changes have been overlaid
    blind       \* the files a change has moved without telling what is in them

vars == <<pc, full, disk, pending, collected, seeds, files, landed,
          touched, overlays, blind>>

-----------------------------------------------------------------------------
(* Paths.                                                                  *)

Child(d, p) == [i \in 1 .. Len(d) + 1 |-> p[i]]
Above(p) == {[i \in 1 .. n |-> p[i]] : n \in 1 .. Len(p) - 1}

EXCLUDED_DIRS == {".git", ".hg", ".svn", ".idea", ".mypy_cache", ".pytest_cache",
    ".ruff_cache", ".tox", ".venv", "__pycache__", "build", "coverage", "dist",
    "node_modules", "target", "vendor", "venv", ".witness"}
EXCLUDED_AGENT_STATE_DIRS == {".antigravity", "antigravity"}
PROTECTED_DIRS == {".github", "agent", "crates", "tools"}
PROTECTED_ROOT_FILES == {"AGENTS.md", "CHANGELOG.md", "CODEOWNERS", "CODE_OF_CONDUCT.md",
    "CONTRIBUTING.md", "Cargo.lock", "Cargo.toml", "Justfile", "README.md", "SECURITY.md",
    "SUPPORT.md", "VERSION", "package-lock.json", "package.json"}

\* is_inventory_protected_path
Protected(p) == p[1] \in PROTECTED_DIRS \/ (Len(p) = 1 /\ p[1] \in PROTECTED_ROOT_FILES)

CursorStateBare(p) == p[1] = ".cursor" /\ Len(p) > 1 /\ ~(Len(p) > 2 /\ p[2] = "rules")
CursorState(p) == p[1] = ".cursor" /\ Len(p) > 1 /\ p[2] # "rules"

\* should_skip, but for the globs: what it skips it skips with everything below.
SkipTree(p) == /\ ~Protected(p)
               /\ \/ CursorState(p)
                  \/ \E e \in ExcludedPaths : Upto(e, p)
                  \/ p[1] \in EXCLUDED_AGENT_STATE_DIRS
                  \/ \E i \in 1 .. Len(p) : p[i] \in EXCLUDED_DIRS
SkipGlob(p) == ~Protected(p) /\ p \in Globbed
Skip(p) == SkipTree(p) \/ SkipGlob(p)

-----------------------------------------------------------------------------
(* The walk.                                                               *)

Present(f) == disk[f] # Absent
Below(d) == {f \in Files : Present(f) /\ Upto(d, f) /\ Len(d) < Len(f)}

\* What a walk finds in directory d: the ignore crate applies .ignore files always.
Listed(d, git) ==
    {c \in {Child(d, f) : f \in Below(d)} :
        ~Skip(c) /\ c \notin DotIgnored /\ (git => c \notin GitIgnored)}

Init == /\ pc = "idle"
        /\ full \in BOOLEAN
        /\ disk \in [Files -> Contents \cup {Absent}]
        /\ pending = {} /\ collected = {} /\ seeds = {} /\ files = {}
        /\ landed = disk
        /\ touched = {}
        /\ overlays = 0
        /\ blind = {}

AskedAll == Named
Asked == {p \in Named : ~Skip(p)}

\* inventory_repo_detailed, inventory_paths_detailed
Begin == /\ pc = "idle"
         /\ pc' = "walk"
         /\ pending' = IF full THEN {[path |-> <<>>, git |-> FALSE]}
                       ELSE {[path |-> p, git |-> ~Protected(p)] : p \in Asked}
         /\ UNCHANGED <<full, disk, collected, seeds, files, landed,
                        touched, overlays, blind>>

Enter(e) == /\ pc = "walk" /\ e \in pending
            /\ e.path \notin Files
            /\ pending' = (pending \ {e})
                 \cup {[path |-> c, git |-> e.git] : c \in Listed(e.path, e.git)}
            /\ UNCHANGED <<pc, full, disk, collected, seeds, files, landed,
                           touched, overlays, blind>>

\* An entry that cannot be read is passed over, and the walk goes on.
CollectOrAbort(e) == /\ pc = "walk" /\ e \in pending
                     /\ e.path \in Files
                     /\ pending' = IF Present(e.path) THEN pending \ {e} ELSE {}
                     /\ collected' = IF Present(e.path) THEN collected \cup {e.path}
                                     ELSE collected
                     /\ UNCHANGED <<pc, full, disk, seeds, files, landed,
                                    touched, overlays, blind>>
Collect(e) == /\ pc = "walk" /\ e \in pending
              /\ e.path \in Files
              /\ pending' = pending \ {e}
              /\ collected' = IF Present(e.path) THEN collected \cup {e.path} ELSE collected
              /\ UNCHANGED <<pc, full, disk, seeds, files, landed,
                             touched, overlays, blind>>

WalkEnds == /\ pc = "walk" /\ pending = {}
            /\ pc' = "seed"
            /\ UNCHANGED <<full, disk, pending, collected, seeds, files, landed, touched,
                           overlays, blind>>

-----------------------------------------------------------------------------
(* inventory_from_paths: file_seed for every path, on the thread pool; then, when all *)
(* are there, read_text_sample for every seed.                                        *)

SeedUnasked(p) == /\ pc = "seed" /\ p \in collected
                  /\ collected' = collected \ {p}
                  /\ seeds' = seeds \cup {[path |-> p, size |-> disk[p]]}
                  /\ UNCHANGED <<pc, full, disk, pending, files, landed,
                                 touched, overlays, blind>>
Seed(p) == /\ pc = "seed" /\ p \in collected
           /\ collected' = collected \ {p}
           /\ seeds' = IF Present(p) THEN seeds \cup {[path |-> p, size |-> disk[p]]}
                       ELSE seeds
           /\ UNCHANGED <<pc, full, disk, pending, files, landed,
                          touched, overlays, blind>>

SeedsEnd == /\ pc = "seed" /\ collected = {}
            /\ pc' = "read"
            /\ UNCHANGED <<full, disk, pending, collected, seeds, files, landed, touched,
                           overlays, blind>>

\* A file that cannot be read has no text.
Read(s) == /\ pc = "read" /\ s \in seeds
           /\ seeds' = seeds \ {s}
           /\ files' = files \cup {[path |-> s.path, size |-> s.size, text |-> disk[s.path]]}
           /\ UNCHANGED <<pc, full, disk, pending, collected, landed,
                          touched, overlays, blind>>

ReadsEnd == /\ pc = "read" /\ seeds = {}
            /\ pc' = "done"
            /\ landed' = disk
            /\ UNCHANGED <<full, disk, pending, collected, seeds, files, touched, overlays,
                           blind>>

\* Others write and delete files meanwhile.
Edit(f) == /\ pc \in {"walk", "seed", "read"}
           /\ f \in touched \/ Cardinality(touched) < MaxEdits
           /\ touched' = touched \cup {f}
           /\ \E c \in (Contents \cup {Absent}) \ {disk[f]} : disk' = [disk EXCEPT ![f] = c]
           /\ UNCHANGED <<pc, full, pending, collected, seeds, files, landed, overlays, blind>>

-----------------------------------------------------------------------------
(* apply_overlay                                                           *)

Bytes == Contents \cup {Absent}
Ops == [op : {"create", "modify"}, to : Candidates, bytes : Bytes]
       \cup [op : {"delete"}, to : Candidates, bytes : {Absent}]
       \cup [op : {"rename"}, from : Candidates, to : Candidates, bytes : Bytes]

KeptAtTarget(o) == {i \in files : ~(o.op = "rename" /\ i.path = o.from)
                                  /\ ~(o.op # "rename" /\ i.path = o.to)}
KeptAtSource(o) == {i \in files : i.path # o.to}
Kept(o) == {i \in files : i.path # o.to /\ ~(o.op = "rename" /\ i.path = o.from)}

\* file_info_from_candidate
Info(p, c) == [path |-> p, size |-> c, text |-> c]
Candidate(o) == CASE o.op = "delete" -> {}
                  [] o.op = "rename" -> IF o.bytes = Absent THEN {} ELSE {Info(o.to, o.bytes)}
                  [] OTHER -> {Info(o.to, IF o.bytes = Absent THEN Empty ELSE o.bytes)}

\* What writing the change does to the disk: a rename without bytes moves what is there.
Written(o) == [f \in Files |->
    IF f = o.to THEN CASE o.op = "delete" -> Absent
                       [] o.op = "rename" -> IF o.bytes = Absent THEN landed[o.from] ELSE o.bytes
                       [] OTHER -> IF o.bytes = Absent THEN Empty ELSE o.bytes
    ELSE IF o.op = "rename" /\ f = o.from THEN Absent
    ELSE landed[f]]

Overlay(o) == /\ pc = "done"
              /\ overlays < MaxOverlays
              /\ overlays' = overlays + 1
              /\ files' = Kept(o) \cup Candidate(o)
              /\ landed' = Written(o)
              /\ blind' = (blind \ (IF o.op = "rename" THEN {o.from, o.to} ELSE {o.to}))
                          \cup (IF o.op = "rename" /\ o.bytes = Absent THEN {o.to} ELSE {})
              /\ UNCHANGED <<pc, full, disk, pending, collected, seeds, touched>>

Next == \/ Begin \/ WalkEnds \/ SeedsEnd \/ ReadsEnd
        \/ \E e \in pending : Enter(e) \/ Collect(e)
        \/ \E p \in collected : Seed(p)
        \/ \E s \in seeds : Read(s)
        \/ \E f \in Files : Edit(f)
        \/ \E o \in Ops : Overlay(o)

Spec == Init /\ [][Next]_vars

-----------------------------------------------------------------------------
Infos == [path : Files, size : Contents, text : Contents \cup {Absent}]

\* Every variable keeps its type.
TypeOK == /\ pc \in {"idle", "walk", "seed", "read", "done"}
          /\ full \in BOOLEAN
          /\ disk \in [Files -> Contents \cup {Absent}]
          /\ \A e \in pending : e.path \in Seq(STRING)
          /\ collected \subseteq Files
          /\ seeds \subseteq [path : Files, size : Contents]
          /\ files \subseteq Infos
          /\ landed \in [Files -> Contents \cup {Absent}]
          /\ touched \subseteq Files
          /\ overlays \in Nat
          /\ blind \subseteq Files

\* What a full inventory is for: a file no rule leaves out.  A glob of the policy or
\* an .ignore file that matches a directory leaves out what is below it.
Hidden(p) == SkipGlob(p) \/ p \in DotIgnored
Wanted(f) == ~SkipTree(f) /\ ~Hidden(f) /\ \A d \in Above(f) : ~Hidden(d)

\* A full inventory lists every such file that nobody touches, with its own size and
\* text, whatever is written, created or deleted around it: no directory that the walk
\* leaves out, and no file that goes away, takes another file with it.
UntouchedListed ==
    pc = "done" /\ full /\ overlays = 0 =>
        \A f \in Files \ touched : Wanted(f) /\ Present(f) => Info(f, disk[f]) \in files

\* An inventory has one entry for a file, and keeps it so through overlays.
OneEntryPerFile == \A i, j \in files : i.path = j.path => i = j

\* A changed-fast audit sees a file that a full one does not only where a glob or an
\* .ignore file hides a directory it was not asked to walk from above, or the very
\* file it was asked for.
FastOutsideFull ==
    pc = "done" /\ ~full /\ overlays = 0 =>
        \A i \in files : Wanted(i.path) \/
            \E p \in Named : Upto(p, i.path) /\ \E d \in Above(p) \cup {p} : Hidden(d)

\* fs.rs:397: "so overlaid and walked files are scored identically".  An overlaid
\* inventory is the one a walk would give had the changes been written, less the files
\* moved without their bytes: those it lists under neither name until they are written.
OverlayIsWalk ==
    pc = "done" /\ full /\ touched = {} =>
        files = {Info(f, landed[f]) :
                   f \in {g \in Files : Wanted(g) /\ landed[g] # Absent /\ g \notin blind}}
=============================================================================
