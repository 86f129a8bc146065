----------------------------- MODULE LineRules ------------------------------
(***************************************************************************)
(* What the language rules share (language_rules/common.rs): lines and     *)
(* the comments cut from them, the windows around a line, allow comments,  *)
(* and the order and the cap of findings.                                  *)
(*                                                                         *)
(* The rules look for needles, so of a text only the needles it holds are  *)
(* kept: a mark stands for the needles a rule does not tell apart.  A line *)
(* has the marks of its code, of the note behind its comment sign, and the *)
(* detectors that a complete "jankurai:allow" on it names.  A path is the  *)
(* set of what the rules ask of it (at).                                   *)
(***************************************************************************)
EXTENDS Integers, FiniteSets, Sequences, FiniteSetsExt

Blank == [code |-> {}, sign |-> "none", note |-> {}, allow |-> {}]
Code(marks) == [Blank EXCEPT !.code = marks]
Commented(marks, sign, note) == [Blank EXCEPT !.code = marks, !.sign = sign, !.note = note]
Allow(id) == [Blank EXCEPT !.sign = "#", !.note = {"allow"}, !.allow = {id}]

Whole(line) == line.code \cup line.note
Text(lines) == UNION {Whole(lines[n]) : n \in DOMAIN lines}

\* A line's marks once the comment is cut, by the kind of file.  Nothing here knows of
\* literals: a sign inside one ("quoted") cuts the line as well.  In a source line "//" is
\* looked for first and "#" only in one without it, so that a remark behind "#" with a link,
\* which ends the note, is code up to the link.
CutSignsSwapped == [yaml |-> {"//", "quoted //"}, shell |-> {"//", "quoted //"},
                    source |-> {"//", "///", "#", "quoted //", "quoted #"}]
CutSigns == [yaml |-> {"#", "quoted #"}, shell |-> {"#", "quoted #"},
             source |-> {"//", "///", "#", "quoted //", "quoted #"}]
CutBehind(line, kind) == kind = "source" /\ line.sign \in {"#", "quoted #"} /\ "//" \in line.note
Cut(line, kind) ==
    IF line.sign \in CutSigns[kind] /\ ~CutBehind(line, kind) THEN line.code ELSE Whole(line)

Window(lines, n, radius) == (n - radius .. n + radius) \cap DOMAIN lines
Nearby(lines, n, radius) == UNION {Whole(lines[k]) : k \in Window(lines, n, radius)}

AllowedAnything(lines, n, id) == \E k \in Window(lines, n, 2) : lines[k].allow # {}
Allowed(lines, n, id) == \E k \in Window(lines, n, 2) : id \in lines[k].allow

\* The first line with one of the needles, or line 1.
FirstWith(lines, needles) ==
    LET at == {n \in DOMAIN lines : Whole(lines[n]) \cap needles # {}}
    IN  IF at = {} THEN 1 ELSE Min(at)

-----------------------------------------------------------------------------
(* A rule needs a needle of every group of "needs" and none of "unless".   *)

Rule(id, needs, unless) == [id |-> id, needs |-> needs, unless |-> unless]

Fires(rule, marks) == /\ \A group \in rule.needs : group \cap marks # {}
                      /\ rule.unless \cap marks = {}

\* The detectors of a set of rules that are all asked ...
Every(rules, marks) == {rule.id : rule \in {r \in rules : Fires(r, marks)}}

\* ... and of a chain of rules of which the first that fires returns.
First(chain, marks) ==
    LET fire == {k \in DOMAIN chain : Fires(chain[k], marks)}
    IN  IF fire = {} THEN {} ELSE {chain[Min(fire)].id}

Hit(n, id) == [line |-> n, id |-> id]
HitsOn(n, ids) == {Hit(n, id) : id \in ids}
HitsOnLines(ns, id) == {Hit(n, id) : n \in ns}

\* The lines that are not empty once their comments are cut.
CodeLines(lines, kind) == {n \in DOMAIN lines : Cut(lines[n], kind) # {}}

-----------------------------------------------------------------------------
(* Where what counts is the order of needles and signs in a line, a line   *)
(* is a sequence of tokens.                                                *)

\* The places of the tokens ts in a line, and the line before and behind a place.
At(line, ts) == {i \in DOMAIN line : line[i] \in ts}
Left(line, i) == SubSeq(line, 1, i - 1)
Right(line, i) == SubSeq(line, i + 1, Len(line))
CutAt(line, ts) == IF At(line, ts) = {} THEN line ELSE Left(line, Min(At(line, ts)))
=============================================================================
