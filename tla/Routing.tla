------------------------------ MODULE Routing -------------------------------
(***************************************************************************)
(* To whom a path belongs.  The repository maps prefixes of paths to       *)
(* owners in agent/owner-map.json, and three pieces of code read that map: *)
(* the finding builder, the catalogue of the repository and the detector   *)
(* of paths without an owner.  agent/generated-zones.toml maps paths to    *)
(* generated zones.                                                        *)
(*                                                                         *)
(* A path is the sequence of the names, dots and slashes it is made of: a  *)
(* name may be cut in two where a key of the map ends within it.           *)
(***************************************************************************)
EXTENDS Integers, Sequences, FiniteSetsExt, SequencesExt

CONSTANTS
    OWNER_MAP_PREFIXES,  \* the table that is built in: a sequence of entries
    NoOwner              \* the answer of a map that has none

Slash == "/"

\* A map is absent, torn, repeats a key or is whole; its entries are in the order of their keys.
Entry(key, owner) == [key |-> key, owner |-> owner]

\* trim_end_matches('/') and normalize_path
Kept(text) == {i \in DOMAIN text : text[i] # Slash}
TrimEnd(text) == IF Kept(text) = {} THEN <<>> ELSE SubSeq(text, 1, Max(Kept(text)))
Trim(text) == IF Kept(text) = {} THEN <<>> ELSE SubSeq(text, Min(Kept(text)), Max(Kept(text)))
Undotted(text) ==
    LET dots == {k \in 0 .. Len(text) \div 2 :
                    \A i \in 1 .. k : text[2 * i - 1] = "." /\ text[2 * i] = Slash}
    IN  SubSeq(text, 2 * Max(dots) + 1, Len(text))
Normalized(text) == Trim(Undotted(text))

Within(path, directory) == path = directory \/ IsPrefix(Append(directory, Slash), path)

-----------------------------------------------------------------------------
(* The finding builder: the longest key that the path starts with, as text.*)

Starting(entries, path) == {i \in DOMAIN entries : IsPrefix(entries[i].key, path)}

EarliestKey(entries, path) == Min(Starting(entries, path))
LongestKey(entries, path) ==
    CHOOSE i \in Starting(entries, path) :
        \A j \in Starting(entries, path) : Len(entries[j].key) <= Len(entries[i].key)

\* A map that cannot be read, or that repeats a key, is passed over for the built-in table, of
\* which the first entry counts.
FindingOwner(map, path) ==
    LET built == Starting(OWNER_MAP_PREFIXES, path)
    IN  IF map.state = "whole" /\ Starting(map.entries, path) # {}
        THEN map.entries[LongestKey(map.entries, path)].owner
        ELSE IF built # {} THEN OWNER_MAP_PREFIXES[Min(built)].owner ELSE NoOwner

-----------------------------------------------------------------------------
(* The catalogue: the key with the most names, and of equals the last.     *)

RouteMatch(path, key) ==
    Normalized(path) # <<>> /\ Normalized(key) # <<>> /\ Within(Normalized(path), Normalized(key))
Specificity(key) == Cardinality({i \in DOMAIN Normalized(key) : Normalized(key)[i] = Slash}) + 1

CatalogRoutes(map, path) == {i \in DOMAIN map.entries : RouteMatch(path, map.entries[i].key)}
CatalogRoute(map, path) ==
    LET routes == CatalogRoutes(map, path)
        most == Max({Specificity(map.entries[i].key) : i \in routes})
    IN  Max({i \in routes : Specificity(map.entries[i].key) = most})
CatalogOwner(map, path) ==
    IF CatalogRoutes(map, path) = {} THEN NoOwner ELSE map.entries[CatalogRoute(map, path)].owner

-----------------------------------------------------------------------------
(* missing_owner_paths: whether a path has an owner at all.  It reads a    *)
(* map that repeats a key too.                                             *)

MissingOwner(map, path) ==
    /\ map.state \in {"whole", "repeated"}
    /\ \A i \in DOMAIN map.entries :
          LET key == map.entries[i].key
          IN  ~IsPrefix(key, path) /\ ~IsPrefix(Append(TrimEnd(key), Slash), path)

-----------------------------------------------------------------------------
(* The generated zones.  The language rules leave out what is in a zone,   *)
(* unless its outputs are reviewed or the zone covers protected paths; the *)
(* guard of zones reports what git shows edited in them, unless they are   *)
(* refreshed by their own tools or reviewed.                               *)

Refreshing == {"auditor_output", "lockfile"}
Zone(path, policy, protected) == [path |-> path, policy |-> policy, protected |-> protected]

\* A manifest that is absent or cannot be parsed has no zones.
ZonesOf(file) == IF file.state # "whole" THEN {} ELSE {z \in file.zones : z.path # <<>>}
InZone(zones, path) == \E z \in zones : Within(path, TrimEnd(z.path))

SuppressionZones(file) == {z \in ZonesOf(file) : z.policy # "reviewed_manual" /\ ~z.protected}
Suppressed(file, path) == InZone(SuppressionZones(file), path)

GovernedZones(file) == {z \in ZonesOf(file) : z.policy \notin Refreshing \cup {"reviewed_manual"}}
\* Without zones git is not asked; a git that fails shows nothing, and 20 hits are reported at most.
EditHits(file, changed) == {path \in changed : InZone(GovernedZones(file), path)}
ProtectedZones(file) == {z \in ZonesOf(file) : z.protected}

-----------------------------------------------------------------------------
(* What the readers of a manifest owe each other.                          *)

\* Keys as a careful author writes them: from the root, with one slash at most behind, and each
\* directory once.
PlainKeys(map) ==
    /\ \A i \in DOMAIN map.entries :
          LET key == map.entries[i].key
          IN  key = Normalized(key) \/ key = Append(Normalized(key), Slash)
    /\ \A i, j \in DOMAIN map.entries :
          Normalized(map.entries[i].key) = Normalized(map.entries[j].key) => i = j

\* The map has the path of a file for a directory.
AsDirectory(map, path) == \E i \in DOMAIN map.entries : map.entries[i].key = Append(path, Slash)

Consistent(map, path) ==
    LET names == \A i \in Starting(map.entries, path) : RouteMatch(path, map.entries[i].key)
    IN  /\ CatalogRoutes(map, path) # {} => ~MissingOwner(map, path)
        /\ names => (~MissingOwner(map, path) => CatalogRoutes(map, path) # {})
        /\ (names /\ Starting(map.entries, path) # {}) =>
               FindingOwner(map, path) = CatalogOwner(map, path)

\* What is hidden from the rules is guarded or refreshed, and what is guarded is hidden or in a
\* zone that is reported for what it covers.
Guarded(file, path) ==
    LET reported == path \in EditHits(file, {path})
    IN  /\ Suppressed(file, path) =>
               reported \/ InZone({z \in ZonesOf(file) : z.policy \in Refreshing}, path)
        /\ reported => Suppressed(file, path) \/ InZone(ProtectedZones(file), path)
=============================================================================
