------------------------- MODULE MCSmartScanHistory -------------------------
(* Instances of SmartScanHistory for TLC. *)
EXTENDS SmartScanHistory

CONSTANTS plain, todo, v1, v2

MCContents == {plain, todo}
MCVersions == {v1, v2}
\* v1 has a hard finding for todo; v2 caps the score for plain.
MCHard == [v \in MCVersions |-> IF v = v1 THEN {todo} ELSE {}]
MCCapped == [v \in MCVersions |-> IF v = v1 THEN {} ELSE {plain}]
=============================================================================
