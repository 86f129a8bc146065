---------------------------- MODULE TestScaffold ----------------------------
(***************************************************************************)
(* mark_rust_test_scaffolding (audit/source_context.rs): which lines of a  *)
(* Rust file are test code, told from attributes, the words "mod tests"    *)
(* and "fn " and the balance of braces.  Every detector that speaks of     *)
(* production code only (TODO markers, fallbacks, I/O in domain code,      *)
(* future-hostile terms) leaves the lines marked here out.                 *)
(*                                                                         *)
(* The scanner runs beside the source it scans: each step writes one more  *)
(* line, keeps account of what rustc makes of it (depth, base, place,      *)
(* test), and scans it.  Of a line only what the scanner looks for is      *)
(* kept: its marks and its balance of braces.  In the usual layout an      *)
(* attribute stands on the line before its item and the item under         *)
(* #[cfg(test)] is "mod tests {"; odd collects the other ones met:         *)
(*   "item"    #[cfg(test)] on an item other than "mod tests {"            *)
(*   "inline"  #[test] on the line of its function                         *)
(*   "split"   the signature of a test function on several lines           *)
(*   "nested"  "mod tests" inside a test                                   *)
(* Braces in literals are left out.  Operators named after what they get   *)
(* wrong are faults, which a run of the check puts in the place of the     *)
(* operator after them.                                                    *)
(***************************************************************************)
EXTENDS Integers

CONSTANTS
    MaxDepth,   \* bounds the nesting of braces
    MaxNet      \* ... and the balance of one line

ASSUME BoundsAssumption == MaxDepth \in Nat /\ MaxNet \in Nat

VARIABLES
    depth,      \* the source: how many braces are open
    base,       \* ... outside of the test that is open
    place,      \* ... in "code", after a "cfg" or a "test" attribute, in a "body"
    test,       \* ... whether the last line is test code
    odd,        \* ... and the odd layouts met so far, see above
    flags,      \* the scanner: which of its booleans are true
    cfg_depth,  \* ... and its counts of braces
    fn_depth,
    test_scaffold   \* ... and its mark for the last line

source == <<depth, base, place, test, odd>>
scanner == <<flags, cfg_depth, fn_depth, test_scaffold>>
vars == <<source, scanner>>

Flags == {"in_cfg_tests", "in_test_fn", "pending_cfg_tests", "pending_test_attr"}

\* What a line holds: #[cfg(test)], a test attribute, "mod tests", "fn " or "{".
Marks == {"cfg", "attr", "mod tests", "fn", "brace"}

Init == /\ depth = 0 /\ base = 0 /\ place = "code" /\ test = FALSE /\ odd = {}
        /\ flags = {} /\ cfg_depth = 0 /\ fn_depth = 0 /\ test_scaffold = FALSE

-----------------------------------------------------------------------------
(* The scanner, given the marks and the balance of a line.                 *)

ClosedBelow(d) == d < 0
Closed(d) == d <= 0

Up(flag) == flag \in flags
Outside == ~Up("in_cfg_tests") /\ ~Up("in_test_fn")

InCfgTests(bal) ==
    /\ Up("in_cfg_tests")
    /\ test_scaffold' = TRUE
    /\ IF Closed(cfg_depth + bal)
       THEN flags' = flags \ {"in_cfg_tests"} /\ cfg_depth' = 0
       ELSE cfg_depth' = cfg_depth + bal /\ UNCHANGED flags
    /\ UNCHANGED fn_depth

InTestFn(bal) ==
    /\ ~Up("in_cfg_tests") /\ Up("in_test_fn")
    /\ test_scaffold' = TRUE
    /\ IF Closed(fn_depth + bal)
       THEN flags' = flags \ {"in_test_fn"} /\ fn_depth' = 0
       ELSE fn_depth' = fn_depth + bal /\ UNCHANGED flags
    /\ UNCHANGED cfg_depth

\* A region that is not open at the end of the line is not entered.
Enter(flag, bal) == IF Closed(bal) THEN {} ELSE {flag}

CfgAttribute(marks, bal) ==
    /\ Outside /\ "cfg" \in marks
    /\ test_scaffold' = TRUE
    /\ IF "mod tests" \in marks
       THEN cfg_depth' = bal /\ flags' = flags \cup Enter("in_cfg_tests", bal)
       ELSE flags' = flags \cup {"pending_cfg_tests"} /\ UNCHANGED cfg_depth
    /\ UNCHANGED fn_depth

AwaitedNever(marks) == {}
AwaitedOnce(marks) == IF marks = {} THEN {} ELSE {"pending_cfg_tests"}
Awaited(marks) ==
    IF {"mod tests", "brace"} \subseteq marks THEN {"pending_cfg_tests"} ELSE {}

PendingCfgTests(marks, bal) ==
    /\ Outside /\ "cfg" \notin marks /\ Up("pending_cfg_tests")
    /\ test_scaffold' = TRUE
    /\ IF {"mod tests", "brace"} \subseteq marks
       THEN /\ cfg_depth' = bal
            /\ flags' = (flags \ Awaited(marks)) \cup Enter("in_cfg_tests", bal)
       ELSE flags' = flags \ Awaited(marks) /\ UNCHANGED cfg_depth
    /\ UNCHANGED fn_depth

PendingTestAttr(marks, bal) ==
    /\ Outside /\ "cfg" \notin marks
    /\ ~Up("pending_cfg_tests") /\ Up("pending_test_attr")
    /\ test_scaffold' = TRUE
    /\ IF {"fn", "brace"} \subseteq marks
       THEN /\ fn_depth' = bal
            /\ flags' = (flags \ {"pending_test_attr"}) \cup Enter("in_test_fn", bal)
       ELSE UNCHANGED <<flags, fn_depth>>
    /\ UNCHANGED cfg_depth

TestAttribute(marks) ==
    /\ Outside /\ "cfg" \notin marks
    /\ ~Up("pending_cfg_tests") /\ ~Up("pending_test_attr")
    /\ IF "attr" \in marks
       THEN test_scaffold' = TRUE /\ flags' = flags \cup {"pending_test_attr"}
       ELSE test_scaffold' = FALSE /\ UNCHANGED flags
    /\ UNCHANGED <<cfg_depth, fn_depth>>

Scan(marks, bal) ==
    \/ InCfgTests(bal) \/ InTestFn(bal) \/ CfgAttribute(marks, bal)
    \/ PendingCfgTests(marks, bal) \/ PendingTestAttr(marks, bal) \/ TestAttribute(marks)

-----------------------------------------------------------------------------
(* The source.                                                             *)

Line(marks, net, strange, is) ==
    /\ depth + net \in 0 .. MaxDepth
    /\ net > 0 => "brace" \in marks
    /\ odd' = odd \cup strange
    /\ test' = is
    /\ depth' = depth + net
    /\ Scan(marks, net)

\* A line of production code; its words may be those of an item.
Code(marks, net) ==
    /\ place = "code"
    /\ marks \subseteq {"mod tests", "fn", "brace"}
    /\ Line(marks, net, {}, FALSE)
    /\ UNCHANGED <<base, place>>

Attribute(kind) ==
    /\ place = "code"
    /\ Line(IF kind = "cfg" THEN {"cfg"} ELSE {"attr"}, 0, {}, TRUE)
    /\ place' = kind
    /\ UNCHANGED base

\* Further attributes, or a signature that goes on.
More(marks) ==
    /\ \/ place = "cfg" /\ marks \subseteq {"attr"} /\ Line(marks, 0, {}, TRUE)
       \/ place = "test" /\ marks = {} /\ Line(marks, 0, {}, TRUE)
       \/ place = "test" /\ marks = {"fn"} /\ Line(marks, 0, {"split"}, TRUE)
    /\ UNCHANGED <<base, place>>

\* The item under the attribute, or under the attribute on the same line.
Usual(marks) == \/ place = "cfg" /\ marks = {"mod tests", "brace"}
                \/ place = "code" /\ marks = {"cfg", "mod tests", "brace"}
                \/ place = "test" /\ marks = {"fn", "brace"}
Strange(marks) ==
    \/ place = "cfg" /\ marks \subseteq {"fn", "mod tests"}
    \/ place = "cfg" /\ marks \subseteq {"fn", "brace"}
    \/ place = "code" /\ marks \in {{"cfg"}, {"cfg", "fn", "brace"}}
Inline(marks) == place = "code" /\ marks = {"attr", "fn", "brace"}
Split(marks) == place = "test" /\ marks = {"brace"}

Item(marks, net) ==
    /\ net >= 0
    /\ \/ Usual(marks) /\ Line(marks, net, {}, TRUE)
       \/ Strange(marks) /\ Line(marks, net, {"item"}, TRUE)
       \/ Inline(marks) /\ Line(marks, net, {"inline"}, TRUE)
       \/ Split(marks) /\ Line(marks, net, {"split"}, TRUE)
    /\ place' = IF net = 0 THEN "code" ELSE "body"
    /\ base' = depth

\* A line inside a test, up to the one that closes it.
Body(marks, net) ==
    /\ place = "body"
    /\ depth + net >= base
    /\ Line(marks, net, IF "mod tests" \in marks THEN {"nested"} ELSE {}, TRUE)
    /\ place' = IF depth + net = base THEN "code" ELSE "body"
    /\ UNCHANGED base

Nets == -MaxNet .. MaxNet

Next == \/ \E kind \in {"cfg", "test"} : Attribute(kind)
        \/ \E marks \in SUBSET Marks : More(marks)
        \/ \E marks \in SUBSET Marks, net \in Nets :
             Code(marks, net) \/ Item(marks, net) \/ Body(marks, net)

Spec == Init /\ [][Next]_vars

-----------------------------------------------------------------------------
\* Every variable keeps its type, and a test that is open has an open brace.
TypeOK == /\ depth \in Nat /\ base \in Nat
          /\ place \in {"code", "cfg", "test", "body"}
          /\ odd \subseteq {"item", "inline", "split", "nested"}
          /\ test \in BOOLEAN /\ test_scaffold \in BOOLEAN
          /\ flags \subseteq Flags
          /\ cfg_depth \in Int /\ fn_depth \in Int
          /\ ~(Up("in_cfg_tests") /\ cfg_depth <= 0)
          /\ ~(Up("in_test_fn") /\ fn_depth <= 0)

\* In a source of the usual layout the marks are the test code: every line of a test
\* module or function, from its attribute to the brace that closes it, at any nesting,
\* and no line of production code, whatever its words.
ExactMarks == odd = {} => test_scaffold = test

\* Under #[cfg(test)] on any item the scanner still never takes test code for
\* production code: what it gets wrong there is only production code it leaves out.
TestsMarked == odd \subseteq {"item"} => (test => test_scaffold)
=============================================================================
