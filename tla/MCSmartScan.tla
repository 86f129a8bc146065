---------------------------- MODULE MCSmartScan -----------------------------
(* Instances of SmartScan for TLC: two auditor versions that disagree      *)
(* about what a hard finding is.                                           *)
EXTENDS SmartScan, TLC

CONSTANTS plain, todo, v1, v2

MCContents == {plain, todo}
MCVersions == {v1, v2}

\* v1 has a hard finding for todo; v2 caps the score for plain.
CapsHard == [v \in MCVersions |-> IF v = v1 THEN {todo} ELSE {}]
CapsCapped == [v \in MCVersions |-> IF v = v1 THEN {} ELSE {plain}]

\* Each version has a hard finding for what the other one accepts.
SwapHard == [v \in MCVersions |-> IF v = v1 THEN {todo} ELSE {plain}]
NoCaps == [v \in MCVersions |-> {}]

NoFiles == {}
AuditorSymmetry == Permutations(Auditors)
RepoSymmetry == AuditorSymmetry \cup Permutations(Commits)
=============================================================================
