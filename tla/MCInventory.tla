---------------------------- MODULE MCInventory -----------------------------
(* Inventory of small repositories, in two scenes: one in which every rule *)
(* of the walk has a file it leaves out and a neighbour it does not, and   *)
(* one with less files, that are edited more and then overlaid.            *)
EXTENDS Inventory

CONSTANTS c1, c2, none
VARIABLE scene

WalkFiles == { <<"Cargo.toml">>, <<"crates", "target", "a.rs">>, <<"target", "a.rs">>,
    <<".cursor", "rules", "a.md">>, <<".cursor", "b.md">>, <<"docs", "a.md">>,
    <<"docs", "old", "b.md">>, <<"tips", "c.md">>, <<"gen", "d.rs">> }
WalkExcluded == {<<"tips">>}
WalkGlobbed == {<<"docs", "old">>}
WalkDotIgnored == {<<"gen">>, <<"docs", "a.md">>}

\* What git status may name: files, and a directory nothing below is tracked in.
FastNamed == { <<"docs">>, <<"docs", "old", "b.md">>, <<"target", "a.rs">>, <<"gen">>,
    <<"crates">> }
FastGitIgnored == {<<"docs", "a.md">>, <<"crates", "target">>}

OverlayFiles == {<<"Cargo.toml">>, <<"src", "a.rs">>, <<"src", "b.rs">>, <<"dist", "c.js">>}
OverlayCandidates == OverlayFiles \ {<<"dist", "c.js">>}

SceneFiles == [walk |-> WalkFiles, overlay |-> OverlayFiles]
AllFiles == WalkFiles \cup OverlayFiles
SceneContents == [walk |-> {c1, none}, overlay |-> {c1, c2, none}]
SceneEdits == [walk |-> 1, overlay |-> 2]

\* The disk of a scene, none of the other's files on it.  Two of the walk are there to begin
\* with, and the one that overlays leave alone.
SceneStart == [walk |-> {<<"Cargo.toml">>, <<"tips", "c.md">>}, overlay |-> {<<"dist", "c.js">>}]
Disks(s) == {[f \in AllFiles |-> IF f \in SceneFiles[s] THEN d[f] ELSE none] :
               d \in {e \in [SceneFiles[s] -> SceneContents[s]] :
                       \A f \in SceneStart[s] : e[f] = c1}}

MCInit == /\ scene \in {"walk", "overlay"}
          /\ disk \in Disks(scene)
          /\ Init
          /\ scene = "overlay" => full

MCNext == /\ Next
          /\ UNCHANGED scene
          /\ touched' \subseteq SceneFiles[scene]
          /\ Cardinality(touched') <= SceneEdits[scene]
          /\ \A f \in touched' : disk'[f] \in SceneContents[scene]
          /\ scene = "walk" => overlays' = 0
          /\ overlays' > 0 => Cardinality(touched) + overlays' <= 2

MCSpec == MCInit /\ [][MCNext]_<<vars, scene>>
=============================================================================
