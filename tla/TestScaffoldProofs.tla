------------------------- MODULE TestScaffoldProofs -------------------------
(***************************************************************************)
(* Theorems about TestScaffold, for sources of any length and nesting.     *)
(***************************************************************************)
EXTENDS TestScaffold, TLAPS

-----------------------------------------------------------------------------
(* Type correctness.                                                       *)

Odd == {"item", "inline", "split", "nested"}

SourceType == /\ depth \in Nat /\ base \in Nat
              /\ place \in {"code", "cfg", "test", "body"}
              /\ test \in BOOLEAN
              /\ odd \subseteq Odd
ScannerType == /\ test_scaffold \in BOOLEAN
               /\ flags \subseteq Flags
               /\ cfg_depth \in Int /\ fn_depth \in Int
               /\ ~(Up("in_cfg_tests") /\ cfg_depth <= 0)
               /\ ~(Up("in_test_fn") /\ fn_depth <= 0)

LEMMA Types == TypeOK <=> SourceType /\ ScannerType
BY DEF TypeOK, SourceType, ScannerType, Odd

LEMMA EnterFacts ==
  ASSUME NEW flag \in Flags, NEW bal \in Int
  PROVE  /\ \A f : f \in Enter(flag, bal) => f = flag /\ bal > 0
         /\ bal > 0 => flag \in Enter(flag, bal)
<1>1. CASE bal <= 0
  BY <1>1 DEF Enter, Closed
<1>2. CASE ~(bal <= 0)
  BY <1>2 DEF Enter, Closed
<1> QED BY <1>1, <1>2

LEMMA ScanType ==
  ASSUME ScannerType, NEW marks, NEW bal \in Int, Scan(marks, bal)
  PROVE  ScannerType'
<1>a. /\ "in_cfg_tests" \in Flags /\ "in_test_fn" \in Flags
      /\ "pending_cfg_tests" \in Flags /\ "pending_test_attr" \in Flags
  BY DEF Flags
<1>b. \A flag \in Flags : \A f : f \in Enter(flag, bal) => f = flag /\ bal > 0
  BY EnterFacts
<1> USE <1>a DEF ScannerType, Outside, Up
<1>1. CASE InCfgTests(bal)
  <2>1. CASE cfg_depth + bal <= 0
    BY <1>1, <2>1 DEF InCfgTests, Closed
  <2>2. CASE ~(cfg_depth + bal <= 0)
    BY <1>1, <2>2 DEF InCfgTests, Closed
  <2> QED BY <2>1, <2>2
<1>2. CASE InTestFn(bal)
  <2>1. CASE fn_depth + bal <= 0
    BY <1>2, <2>1 DEF InTestFn, Closed
  <2>2. CASE ~(fn_depth + bal <= 0)
    BY <1>2, <2>2 DEF InTestFn, Closed
  <2> QED BY <2>1, <2>2
<1>3. CASE CfgAttribute(marks, bal)
  <2>1. CASE "mod tests" \in marks
    <3>1. flags' = flags \cup Enter("in_cfg_tests", bal)
      BY <1>3, <2>1 DEF CfgAttribute
    <3>2. cfg_depth' = bal /\ fn_depth' = fn_depth /\ test_scaffold' = TRUE
      BY <1>3, <2>1 DEF CfgAttribute
    <3>3. "in_cfg_tests" \notin flags /\ "in_test_fn" \notin flags
      BY <1>3 DEF CfgAttribute
    <3>4. flags' \subseteq Flags
      BY <3>1, <1>b
    <3>5. "in_test_fn" \notin flags'
      BY <3>1, <3>3, <1>b
    <3>6. "in_cfg_tests" \in flags' => bal > 0
      BY <3>1, <3>3, <1>b
    <3> QED BY <3>2, <3>4, <3>5, <3>6
  <2>2. CASE "mod tests" \notin marks
    <3>1. flags' = flags \cup {"pending_cfg_tests"} /\ UNCHANGED <<cfg_depth, fn_depth>>
      BY <1>3, <2>2 DEF CfgAttribute
    <3>2. test_scaffold' = TRUE /\ ~Up("in_test_fn")' /\ ~Up("in_cfg_tests")'
      BY <1>3, <3>1 DEF CfgAttribute
    <3> QED BY <3>1, <3>2
  <2> QED BY <2>1, <2>2
<1>4. CASE PendingCfgTests(marks, bal)
  <2>1. CASE {"mod tests", "brace"} \subseteq marks
    <3>1. flags' = (flags \ Awaited(marks)) \cup Enter("in_cfg_tests", bal)
      BY <1>4, <2>1 DEF PendingCfgTests
    <3>2. cfg_depth' = bal /\ fn_depth' = fn_depth /\ test_scaffold' = TRUE
      BY <1>4, <2>1 DEF PendingCfgTests
    <3>3. "in_cfg_tests" \notin flags /\ "in_test_fn" \notin flags
      BY <1>4 DEF PendingCfgTests
    <3>4. flags' \subseteq Flags
      BY <3>1, <1>b
    <3>5. "in_test_fn" \notin flags'
      BY <3>1, <3>3, <1>b
    <3>6. "in_cfg_tests" \in flags' => bal > 0
      BY <3>1, <3>3, <1>b
    <3> QED BY <3>2, <3>4, <3>5, <3>6
  <2>2. CASE ~({"mod tests", "brace"} \subseteq marks)
    <3>1. flags' \subseteq flags /\ UNCHANGED <<cfg_depth, fn_depth>>
      BY <1>4, <2>2 DEF PendingCfgTests
    <3> QED BY <1>4, <3>1 DEF PendingCfgTests
  <2> QED BY <2>1, <2>2
<1>5. CASE PendingTestAttr(marks, bal)
  <2>1. CASE {"fn", "brace"} \subseteq marks
    <3>1. flags' = (flags \ {"pending_test_attr"}) \cup Enter("in_test_fn", bal)
      BY <1>5, <2>1 DEF PendingTestAttr
    <3>2. fn_depth' = bal /\ cfg_depth' = cfg_depth /\ test_scaffold' = TRUE
      BY <1>5, <2>1 DEF PendingTestAttr
    <3>3. "in_cfg_tests" \notin flags /\ "in_test_fn" \notin flags
      BY <1>5 DEF PendingTestAttr
    <3>4. flags' \subseteq Flags
      BY <3>1, <1>b
    <3>5. "in_cfg_tests" \notin flags'
      BY <3>1, <3>3, <1>b
    <3>6. "in_test_fn" \in flags' => bal > 0
      BY <3>1, <3>3, <1>b
    <3> QED BY <3>2, <3>4, <3>5, <3>6
  <2>2. CASE ~({"fn", "brace"} \subseteq marks)
    BY <1>5, <2>2 DEF PendingTestAttr
  <2> QED BY <2>1, <2>2
<1>6. CASE TestAttribute(marks)
  <2>1. flags' \subseteq flags \cup {"pending_test_attr"}
    BY <1>6 DEF TestAttribute
  <2>2. UNCHANGED <<cfg_depth, fn_depth>> /\ test_scaffold' \in BOOLEAN
    BY <1>6 DEF TestAttribute
  <2> QED BY <2>1, <2>2
<1> QED BY <1>1, <1>2, <1>3, <1>4, <1>5, <1>6 DEF Scan

\* Every action of the source is a line that is scanned.
LEMMA LineType ==
  ASSUME TypeOK, NEW marks, NEW net \in Int, Scan(marks, net),
         depth + net \in 0 .. MaxDepth, depth' = depth + net,
         test' \in BOOLEAN, odd' \subseteq Odd,
         base' \in Nat, place' \in {"code", "cfg", "test", "body"}
  PROVE  TypeOK'
<1>1. ScannerType'
  BY Types, ScanType
<1>2. depth' \in Nat
  BY BoundsAssumption
<1> QED BY <1>1, <1>2 DEF ScannerType, TypeOK, Up, Odd

LEMMA TypeStep == TypeOK /\ [Next]_vars => TypeOK'
<1> SUFFICES ASSUME TypeOK, [Next]_vars PROVE TypeOK'
  OBVIOUS
<1>0. SourceType
  BY Types
<1>n. Nets \subseteq Int
  BY BoundsAssumption DEF Nets
<1> HIDE DEF TypeOK
<1> USE <1>0 DEF SourceType
<1>1. ASSUME NEW kind \in {"cfg", "test"}, Attribute(kind) PROVE TypeOK'
  <2>1. Scan(IF kind = "cfg" THEN {"cfg"} ELSE {"attr"}, 0)
    BY <1>1 DEF Attribute, Line
  <2>2. depth + 0 \in 0 .. MaxDepth /\ depth' = depth + 0
    BY <1>1 DEF Attribute, Line
  <2>3. test' \in BOOLEAN
    BY <1>1 DEF Attribute, Line
  <2>4. odd' \subseteq Odd
    BY <1>1 DEF Attribute, Line, Odd
  <2>5. base' \in Nat /\ place' \in {"code", "cfg", "test", "body"}
    BY <1>1 DEF Attribute
  <2> QED BY <2>1, <2>2, <2>3, <2>4, <2>5, LineType
<1>2. ASSUME NEW marks, More(marks) PROVE TypeOK'
  <2>1. Scan(marks, 0)
    BY <1>2 DEF More, Line
  <2>2. depth + 0 \in 0 .. MaxDepth /\ depth' = depth + 0
    BY <1>2 DEF More, Line
  <2>3. test' \in BOOLEAN
    BY <1>2 DEF More, Line
  <2>4. odd' \subseteq Odd
    BY <1>2 DEF More, Line, Odd
  <2>5. base' \in Nat /\ place' \in {"code", "cfg", "test", "body"}
    BY <1>2 DEF More
  <2> QED BY <2>1, <2>2, <2>3, <2>4, <2>5, LineType
<1>3. ASSUME NEW marks, NEW net \in Int, Code(marks, net) PROVE TypeOK'
  <2>1. Scan(marks, net)
    BY <1>3 DEF Code, Line
  <2>2. depth + net \in 0 .. MaxDepth /\ depth' = depth + net
    BY <1>3 DEF Code, Line
  <2>3. test' \in BOOLEAN
    BY <1>3 DEF Code, Line
  <2>4. odd' \subseteq Odd
    BY <1>3 DEF Code, Line, Odd
  <2>5. base' \in Nat /\ place' \in {"code", "cfg", "test", "body"}
    BY <1>3 DEF Code
  <2> QED BY <2>1, <2>2, <2>3, <2>4, <2>5, LineType
<1>4. ASSUME NEW marks, NEW net \in Int, Item(marks, net) PROVE TypeOK'
  <2>1. Scan(marks, net)
    BY <1>4 DEF Item, Line
  <2>2. depth + net \in 0 .. MaxDepth /\ depth' = depth + net
    BY <1>4 DEF Item, Line
  <2>3. test' \in BOOLEAN
    BY <1>4 DEF Item, Line
  <2>4. odd' \subseteq Odd
    BY <1>4 DEF Item, Line, Odd
  <2>5. base' \in Nat /\ place' \in {"code", "cfg", "test", "body"}
    BY <1>4 DEF Item
  <2> QED BY <2>1, <2>2, <2>3, <2>4, <2>5, LineType
<1>5. ASSUME NEW marks, NEW net \in Int, Body(marks, net) PROVE TypeOK'
  <2>1. Scan(marks, net)
    BY <1>5 DEF Body, Line
  <2>2. depth + net \in 0 .. MaxDepth /\ depth' = depth + net
    BY <1>5 DEF Body, Line
  <2>3. test' \in BOOLEAN
    BY <1>5 DEF Body, Line
  <2>4. odd' \subseteq Odd
    BY <1>5 DEF Body, Line, Odd
  <2>5. base' \in Nat /\ place' \in {"code", "cfg", "test", "body"}
    BY <1>5 DEF Body
  <2> QED BY <2>1, <2>2, <2>3, <2>4, <2>5, LineType
<1>6. CASE UNCHANGED vars
  BY <1>6 DEF vars, source, scanner, TypeOK, Up
<1> QED BY <1>1, <1>2, <1>3, <1>4, <1>5, <1>6, <1>n DEF Next

\* Every variable keeps its type, whatever the source.
THEOREM TypeCorrect == Spec => []TypeOK
<1>1. Init => TypeOK
  <2> SUFFICES ASSUME Init PROVE TypeOK
    OBVIOUS
  <2>1. flags = {} /\ odd = {} /\ depth = 0 /\ base = 0 /\ cfg_depth = 0 /\ fn_depth = 0
    BY DEF Init
  <2>2. place = "code" /\ test \in BOOLEAN /\ test_scaffold \in BOOLEAN
    BY DEF Init
  <2> QED BY <2>1, <2>2 DEF TypeOK, Up
<1> QED BY <1>1, TypeStep, PTL DEF Spec

-----------------------------------------------------------------------------
(* In the usual layout the marks are exact.                                *)

\* In the usual layout the scanner is where the source is.
ExactInv == odd = {} =>
    /\ test_scaffold = test
    /\ place = "code" => flags = {}
    /\ place = "cfg" => flags = {"pending_cfg_tests"}
    /\ place = "test" => flags = {"pending_test_attr"}
    /\ place = "body" =>
         /\ depth > base
         /\ \/ flags = {"in_cfg_tests"} /\ cfg_depth = depth - base
            \/ flags = {"in_test_fn"} /\ fn_depth = depth - base

\* Which branch of the scanner is taken follows from its flags and the marks.
LEMMA Branches ==
  ASSUME NEW marks, NEW bal \in Int, Scan(marks, bal)
  PROVE  /\ Up("in_cfg_tests") => InCfgTests(bal)
         /\ ~Up("in_cfg_tests") /\ Up("in_test_fn") => InTestFn(bal)
         /\ Outside /\ "cfg" \in marks => CfgAttribute(marks, bal)
         /\ Outside /\ "cfg" \notin marks /\ Up("pending_cfg_tests")
              => PendingCfgTests(marks, bal)
         /\ Outside /\ "cfg" \notin marks /\ ~Up("pending_cfg_tests") =>
              IF Up("pending_test_attr")
              THEN PendingTestAttr(marks, bal) ELSE TestAttribute(marks)
<1>1. InCfgTests(bal) => Up("in_cfg_tests")
  BY DEF InCfgTests
<1>2. InTestFn(bal) => ~Up("in_cfg_tests") /\ Up("in_test_fn")
  BY DEF InTestFn
<1>3. CfgAttribute(marks, bal) => Outside /\ "cfg" \in marks
  BY DEF CfgAttribute
<1>4. PendingCfgTests(marks, bal)
        => Outside /\ "cfg" \notin marks /\ Up("pending_cfg_tests")
  BY DEF PendingCfgTests
<1>5. PendingTestAttr(marks, bal)
        => /\ Outside /\ "cfg" \notin marks
           /\ ~Up("pending_cfg_tests") /\ Up("pending_test_attr")
  BY DEF PendingTestAttr
<1>6. TestAttribute(marks)
        => /\ Outside /\ "cfg" \notin marks
           /\ ~Up("pending_cfg_tests") /\ ~Up("pending_test_attr")
  BY DEF TestAttribute
<1>7. Outside <=> ~Up("in_cfg_tests") /\ ~Up("in_test_fn")
  BY DEF Outside
<1>8. \/ InCfgTests(bal) \/ InTestFn(bal) \/ CfgAttribute(marks, bal)
      \/ PendingCfgTests(marks, bal) \/ PendingTestAttr(marks, bal) \/ TestAttribute(marks)
  BY DEF Scan
<1>a. Up("in_cfg_tests") => InCfgTests(bal)
  BY <1>2, <1>3, <1>4, <1>5, <1>6, <1>7, <1>8
<1>b. ~Up("in_cfg_tests") /\ Up("in_test_fn") => InTestFn(bal)
  BY <1>1, <1>3, <1>4, <1>5, <1>6, <1>7, <1>8
<1>c. Outside /\ "cfg" \in marks => CfgAttribute(marks, bal)
  BY <1>1, <1>2, <1>4, <1>5, <1>6, <1>7, <1>8
<1>d. Outside /\ "cfg" \notin marks /\ Up("pending_cfg_tests")
        => PendingCfgTests(marks, bal)
  BY <1>1, <1>2, <1>3, <1>5, <1>6, <1>7, <1>8
<1>e. Outside /\ "cfg" \notin marks /\ ~Up("pending_cfg_tests") /\ Up("pending_test_attr")
        => PendingTestAttr(marks, bal)
  BY <1>1, <1>2, <1>3, <1>4, <1>6, <1>7, <1>8
<1>f. Outside /\ "cfg" \notin marks /\ ~Up("pending_cfg_tests") /\ ~Up("pending_test_attr")
        => TestAttribute(marks)
  BY <1>1, <1>2, <1>3, <1>4, <1>5, <1>7, <1>8
<1> QED BY <1>a, <1>b, <1>c, <1>d, <1>e, <1>f

\* A region is open after a line if the line leaves a brace open.
LEMMA EnterIs ==
  ASSUME NEW flag, NEW bal \in Nat
  PROVE  Enter(flag, bal) = IF bal = 0 THEN {} ELSE {flag}
BY DEF Enter, Closed

\* The usual items: what the scanner enters is what the source opens.
LEMMA UsualItem ==
  ASSUME NEW marks, NEW net \in Nat, Scan(marks, net), Usual(marks),
         place = "code" => flags = {},
         place = "cfg" => flags = {"pending_cfg_tests"},
         place = "test" => flags = {"pending_test_attr"}
  PROVE  /\ test_scaffold' = TRUE
         /\ net = 0 => flags' = {}
         /\ net > 0 => \/ flags' = {"in_cfg_tests"} /\ cfg_depth' = net
                       \/ flags' = {"in_test_fn"} /\ fn_depth' = net
<1>1. CASE place = "cfg" /\ marks = {"mod tests", "brace"}
  <2>0. flags = {"pending_cfg_tests"} /\ "cfg" \notin marks
    BY <1>1
  <2>1. PendingCfgTests(marks, net)
    BY <2>0, Branches DEF Outside, Up
  <2>2. flags' = Enter("in_cfg_tests", net) /\ cfg_depth' = net
    BY <1>1, <2>1 DEF PendingCfgTests, Awaited
  <2>3. test_scaffold' = TRUE
    BY <2>1 DEF PendingCfgTests
  <2> QED BY <2>2, <2>3, EnterIs
<1>2. CASE place = "code" /\ marks = {"cfg", "mod tests", "brace"}
  <2>0. flags = {} /\ "cfg" \in marks
    BY <1>2
  <2>1. CfgAttribute(marks, net)
    BY <2>0, Branches DEF Outside, Up
  <2>2. flags' = Enter("in_cfg_tests", net) /\ cfg_depth' = net
    BY <1>2, <2>1 DEF CfgAttribute
  <2>3. test_scaffold' = TRUE
    BY <2>1 DEF CfgAttribute
  <2> QED BY <2>2, <2>3, EnterIs
<1>3. CASE place = "test" /\ marks = {"fn", "brace"}
  <2>1. PendingTestAttr(marks, net)
    BY <1>3, Branches DEF Outside, Up
  <2>2. flags' = Enter("in_test_fn", net) /\ fn_depth' = net
    BY <1>3, <2>1 DEF PendingTestAttr
  <2>3. test_scaffold' = TRUE
    BY <2>1 DEF PendingTestAttr
  <2> QED BY <2>2, <2>3, EnterIs
<1> QED BY <1>1, <1>2, <1>3 DEF Usual

LEMMA ExactStep == TypeOK /\ ExactInv /\ [Next]_vars => ExactInv'
<1> SUFFICES ASSUME TypeOK, ExactInv, [Next]_vars, odd' = {} PROVE ExactInv'
  BY DEF ExactInv
<1>t. /\ depth \in Nat /\ base \in Nat /\ cfg_depth \in Int /\ fn_depth \in Int
  BY DEF TypeOK
<1>n. Nets \subseteq Int
  BY BoundsAssumption DEF Nets
<1>1. ASSUME NEW kind \in {"cfg", "test"}, Attribute(kind) PROVE ExactInv'
  <2> DEFINE m == IF kind = "cfg" THEN {"cfg"} ELSE {"attr"}
  <2>1. odd = {} /\ test' = TRUE /\ place' = kind /\ place = "code" /\ Scan(m, 0)
    BY <1>1 DEF Attribute, Line
  <2>2. flags = {}
    BY <2>1 DEF ExactInv
  <2>3. CASE kind = "cfg"
    <3>1. CfgAttribute(m, 0) /\ "mod tests" \notin m
      BY <2>1, <2>2, <2>3, Branches DEF Outside, Up
    <3>2. flags' = {"pending_cfg_tests"} /\ test_scaffold' = TRUE
      BY <3>1, <2>2 DEF CfgAttribute
    <3> QED BY <2>1, <2>3, <3>2 DEF ExactInv
  <2>4. CASE kind = "test"
    <3>1. TestAttribute(m) /\ "attr" \in m
      BY <2>1, <2>2, <2>4, Branches DEF Outside, Up
    <3>2. flags' = {"pending_test_attr"} /\ test_scaffold' = TRUE
      BY <3>1, <2>2 DEF TestAttribute
    <3> QED BY <2>1, <2>4, <3>2 DEF ExactInv
  <2> QED BY <2>3, <2>4
<1>2. ASSUME NEW marks, More(marks) PROVE ExactInv'
  <2>1. odd = {} /\ test' = TRUE /\ place' = place /\ Scan(marks, 0)
    BY <1>2 DEF More, Line
  <2>2. CASE place = "cfg" /\ marks \subseteq {"attr"}
    <3>1. flags = {"pending_cfg_tests"}
      BY <2>1, <2>2 DEF ExactInv
    <3>2. "cfg" \notin marks /\ "mod tests" \notin marks
      BY <2>2
    <3>4. Outside /\ Up("pending_cfg_tests") /\ 0 \in Int
      BY <3>1 DEF Outside, Up
    <3>5. PendingCfgTests(marks, 0)
      BY <2>1, <3>2, <3>4, Branches
    <3>3. flags' = flags /\ test_scaffold' = TRUE
      BY <3>2, <3>5 DEF PendingCfgTests, Awaited
    <3> QED BY <2>1, <2>2, <3>1, <3>3 DEF ExactInv
  <2>3. CASE place = "test" /\ marks = {}
    <3>1. flags = {"pending_test_attr"}
      BY <2>1, <2>3 DEF ExactInv
    <3>2. PendingTestAttr(marks, 0)
      BY <2>1, <2>3, <3>1, Branches DEF Outside, Up
    <3>3. flags' = flags /\ test_scaffold' = TRUE
      BY <3>2, <2>3 DEF PendingTestAttr
    <3> QED BY <2>1, <2>3, <3>1, <3>3 DEF ExactInv
  <2> QED BY <1>2, <2>2, <2>3 DEF More, Line
<1>3. ASSUME NEW marks, NEW net \in Int, Code(marks, net) PROVE ExactInv'
  <2>1. odd = {} /\ test' = FALSE /\ place' = "code" /\ place = "code" /\ Scan(marks, net)
    BY <1>3 DEF Code, Line
  <2>2. flags = {}
    BY <2>1 DEF ExactInv
  <2>3. TestAttribute(marks) /\ "attr" \notin marks
    BY <1>3, <2>1, <2>2, Branches DEF Code, Outside, Up
  <2>4. flags' = {} /\ test_scaffold' = FALSE
    BY <2>2, <2>3 DEF TestAttribute
  <2> QED BY <2>1, <2>4 DEF ExactInv
<1>4. ASSUME NEW marks, NEW net \in Int, Item(marks, net) PROVE ExactInv'
  <2>1. odd = {} /\ test' = TRUE /\ Scan(marks, net) /\ Usual(marks) /\ net \in Nat
    BY <1>4 DEF Item, Line
  <2>2. place' = (IF net = 0 THEN "code" ELSE "body") /\ base' = depth /\ depth' = depth + net
    BY <1>4 DEF Item, Line
  <2>3. /\ place = "code" => flags = {}
        /\ place = "cfg" => flags = {"pending_cfg_tests"}
        /\ place = "test" => flags = {"pending_test_attr"}
    BY <2>1 DEF ExactInv
  <2>4. /\ test_scaffold' = TRUE
        /\ net = 0 => flags' = {}
        /\ net > 0 => \/ flags' = {"in_cfg_tests"} /\ cfg_depth' = net
                      \/ flags' = {"in_test_fn"} /\ fn_depth' = net
    BY <2>1, <2>3, UsualItem
  <2>5. CASE net = 0
    BY <2>1, <2>2, <2>4, <2>5 DEF ExactInv
  <2>6. CASE net > 0
    <3>1. place' = "body" /\ depth' > base' /\ depth' - base' = net
      BY <2>2, <2>6, <1>t
    <3> QED BY <2>1, <2>4, <2>6, <3>1 DEF ExactInv
  <2> QED BY <2>1, <2>5, <2>6
<1>5. ASSUME NEW marks, NEW net \in Int, Body(marks, net) PROVE ExactInv'
  <2>1. odd = {} /\ test' = TRUE /\ Scan(marks, net) /\ place = "body"
    BY <1>5 DEF Body, Line
  <2>2. /\ depth + net >= base /\ base' = base /\ depth' = depth + net
        /\ place' = IF depth + net = base THEN "code" ELSE "body"
    BY <1>5 DEF Body, Line
  <2>3. CASE flags = {"in_cfg_tests"} /\ cfg_depth = depth - base
    <3>1. InCfgTests(net)
      BY <2>1, <2>3, Branches DEF Up
    <3>2. test_scaffold' = TRUE
      BY <3>1 DEF InCfgTests
    <3>3. CASE depth + net = base
      <4>1. flags' = {}
        BY <2>3, <3>1, <3>3, <1>t DEF InCfgTests, Closed
      <4> QED BY <2>1, <2>2, <3>2, <3>3, <4>1 DEF ExactInv
    <3>4. CASE depth + net > base
      <4>1. flags' = flags /\ cfg_depth' = cfg_depth + net
        BY <2>3, <3>1, <3>4, <1>t DEF InCfgTests, Closed
      <4>2. place' = "body" /\ depth' > base' /\ cfg_depth' = depth' - base'
        BY <2>2, <2>3, <3>4, <4>1, <1>t
      <4> QED BY <2>1, <2>3, <3>2, <4>1, <4>2 DEF ExactInv
    <3> QED BY <2>2, <3>3, <3>4, <1>t
  <2>4. CASE flags = {"in_test_fn"} /\ fn_depth = depth - base
    <3>1. InTestFn(net)
      BY <2>1, <2>4, Branches DEF Up
    <3>2. test_scaffold' = TRUE
      BY <3>1 DEF InTestFn
    <3>3. CASE depth + net = base
      <4>1. flags' = {}
        BY <2>4, <3>1, <3>3, <1>t DEF InTestFn, Closed
      <4> QED BY <2>1, <2>2, <3>2, <3>3, <4>1 DEF ExactInv
    <3>4. CASE depth + net > base
      <4>1. flags' = flags /\ fn_depth' = fn_depth + net
        BY <2>4, <3>1, <3>4, <1>t DEF InTestFn, Closed
      <4>2. place' = "body" /\ depth' > base' /\ fn_depth' = depth' - base'
        BY <2>2, <2>4, <3>4, <4>1, <1>t
      <4> QED BY <2>1, <2>4, <3>2, <4>1, <4>2 DEF ExactInv
    <3> QED BY <2>2, <3>3, <3>4, <1>t
  <2> QED BY <2>1, <2>3, <2>4 DEF ExactInv
<1>6. CASE UNCHANGED vars
  BY <1>6 DEF vars, source, scanner, ExactInv
<1> QED BY <1>1, <1>2, <1>3, <1>4, <1>5, <1>6, <1>n DEF Next

\* In a source of the usual layout the marks are the test code, at any nesting.
THEOREM MarksAreExact == Spec => []ExactMarks
<1>1. Init => ExactInv
  BY DEF Init, ExactInv
<1>2. ExactInv => ExactMarks
  BY DEF ExactInv, ExactMarks
<1> QED BY <1>1, <1>2, ExactStep, TypeCorrect, PTL DEF Spec

-----------------------------------------------------------------------------
(* Under #[cfg(test)] on any item no test code is missed.                  *)

\* Under #[cfg(test)] on other items it is no later than the source to leave a test.
MarkedInv == odd \subseteq {"item"} =>
    /\ test => test_scaffold
    /\ Up("in_test_fn") => /\ place = "body" /\ fn_depth = depth - base
                           /\ ~Up("in_cfg_tests")
    /\ Up("pending_test_attr") => place = "test" /\ Outside /\ ~Up("pending_cfg_tests")
    /\ place = "cfg" => Up("in_cfg_tests") \/ Up("pending_cfg_tests")
    /\ place = "test" =>
         Up("in_cfg_tests") \/ Up("pending_cfg_tests") \/ Up("pending_test_attr")
    /\ place = "body" =>
         /\ depth > base
         /\ \/ Up("in_cfg_tests") /\ cfg_depth >= depth - base
            \/ Up("in_test_fn")
            \/ ~Up("in_cfg_tests") /\ Up("pending_cfg_tests")

\* What a line of the source may do to its places; "mod tests" opens no body but its own.
Shape(marks, net) ==
    /\ depth' = depth + net
    /\ place' \in {"cfg", "test"} => net = 0 /\ "mod tests" \notin marks
    /\ place' = "body" =>
         \/ place = "body" /\ base' = base /\ depth' > base /\ "mod tests" \notin marks
         \/ net > 0 /\ base' = depth

\* Inside a test module the scanner stays at least as long as the source.
LEMMA MarkedInCfg ==
  ASSUME TypeOK, MarkedInv, odd \subseteq {"item"}, Up("in_cfg_tests"),
         NEW marks, NEW net \in Int, Scan(marks, net), Shape(marks, net)
  PROVE  MarkedInv'
<1>0. /\ depth \in Nat /\ base \in Nat /\ cfg_depth \in Int /\ cfg_depth > 0
  BY DEF TypeOK
<1>1. InCfgTests(net)
  BY Branches
<1>2. ~Up("in_test_fn") /\ ~Up("pending_test_attr")
  BY DEF MarkedInv, Outside
<1>3. flags' \subseteq flags /\ test_scaffold' = TRUE
  BY <1>1 DEF InCfgTests
<1>4. ~Up("in_test_fn")' /\ ~Up("pending_test_attr")'
  BY <1>2, <1>3 DEF Up
<1>5. cfg_depth + net > 0 => Up("in_cfg_tests")' /\ cfg_depth' = cfg_depth + net
  BY <1>0, <1>1 DEF InCfgTests, Closed, Up
<1>6. ASSUME place' \in {"cfg", "test"} PROVE Up("in_cfg_tests")'
  <2>1. net = 0
    BY <1>6 DEF Shape
  <2>2. cfg_depth + net > 0
    BY <1>0, <2>1
  <2> QED BY <1>5, <2>2
<1>7. ASSUME place' = "body"
      PROVE  depth' > base' /\ Up("in_cfg_tests")' /\ cfg_depth' >= depth' - base'
  <2>1. CASE place = "body" /\ base' = base /\ depth' > base
    <3>1. cfg_depth >= depth - base
      BY <2>1, <1>2 DEF MarkedInv
    <3>2. depth' = depth + net
      BY DEF Shape
    <3> QED BY <1>0, <1>5, <2>1, <3>1, <3>2
  <2>2. CASE net > 0 /\ base' = depth
    <3>1. depth' = depth + net
      BY DEF Shape
    <3> QED BY <1>0, <1>5, <2>2, <3>1
  <2> QED BY <1>7, <2>1, <2>2 DEF Shape
<1> QED BY <1>3, <1>4, <1>6, <1>7 DEF MarkedInv

\* After #[cfg(test)] the scanner waits for "mod tests {", past the end of the item.
LEMMA MarkedPending ==
  ASSUME TypeOK, Outside, ~Up("pending_test_attr"),
         NEW marks, NEW net \in Int, Scan(marks, net), Shape(marks, net),
         Up("pending_cfg_tests") \/ "cfg" \in marks,
         place = "body" => depth > base
  PROVE  MarkedInv'
<1>0. /\ depth \in Nat /\ base \in Nat /\ net \in Int
      /\ "in_cfg_tests" \in Flags
  BY DEF TypeOK, Flags
<1>e. \A f : f \in Enter("in_cfg_tests", net) => f = "in_cfg_tests" /\ net > 0
  BY <1>0, EnterFacts
<1>h. net > 0 => "in_cfg_tests" \in Enter("in_cfg_tests", net)
  BY <1>0, EnterFacts
<1>1. CfgAttribute(marks, net) \/ PendingCfgTests(marks, net)
  BY Branches
<1>2. test_scaffold' = TRUE
  BY <1>1 DEF CfgAttribute, PendingCfgTests
<1>3. flags' \subseteq flags \cup {"pending_cfg_tests", "in_cfg_tests"}
  BY <1>1, <1>e DEF CfgAttribute, PendingCfgTests
<1>4. ~Up("in_test_fn")' /\ ~Up("pending_test_attr")'
  BY <1>3 DEF Up, Outside
<1>5. \/ Up("pending_cfg_tests")' /\ ~Up("in_cfg_tests")'
      \/ /\ "mod tests" \in marks /\ cfg_depth' = net
         /\ net > 0 => Up("in_cfg_tests")'
  <2>1. CASE CfgAttribute(marks, net)
    <3>1. CASE "mod tests" \in marks
      BY <2>1, <3>1, <1>h DEF CfgAttribute, Up
    <3>2. CASE "mod tests" \notin marks
      <4>1. flags' = flags \cup {"pending_cfg_tests"}
        BY <2>1, <3>2 DEF CfgAttribute
      <4> QED BY <4>1 DEF Up, Outside
    <3> QED BY <3>1, <3>2
  <2>2. CASE PendingCfgTests(marks, net)
    <3>1. CASE {"mod tests", "brace"} \subseteq marks
      BY <2>2, <3>1, <1>h DEF PendingCfgTests, Up
    <3>2. CASE ~({"mod tests", "brace"} \subseteq marks)
      <4>1. flags' = flags
        BY <2>2, <3>2 DEF PendingCfgTests, Awaited
      <4> QED BY <2>2, <4>1 DEF PendingCfgTests, Up, Outside
    <3> QED BY <3>1, <3>2
  <2> QED BY <1>1, <2>1, <2>2
<1>6. place' \in {"cfg", "test"} => Up("pending_cfg_tests")'
  BY <1>5 DEF Shape
<1>7. ASSUME place' = "body"
      PROVE  /\ depth' > base'
             /\ \/ Up("in_cfg_tests")' /\ cfg_depth' >= depth' - base'
                \/ ~Up("in_cfg_tests")' /\ Up("pending_cfg_tests")'
  <2>1. depth' = depth + net
    BY DEF Shape
  <2>2. CASE place = "body" /\ base' = base /\ depth' > base /\ "mod tests" \notin marks
    BY <1>5, <2>2
  <2>3. CASE net > 0 /\ base' = depth
    <3>1. depth' > base' /\ depth' - base' = net
      BY <1>0, <2>1, <2>3
    <3>2. CASE Up("pending_cfg_tests")' /\ ~Up("in_cfg_tests")'
      BY <3>1, <3>2
    <3>3. CASE cfg_depth' = net /\ (net > 0 => Up("in_cfg_tests")')
      <4>1. Up("in_cfg_tests")'
        BY <2>3, <3>3
      <4>2. cfg_depth' >= depth' - base'
        BY <1>0, <3>1, <3>3
      <4> QED BY <3>1, <4>1, <4>2
    <3> QED BY <1>5, <3>2, <3>3
  <2> QED BY <1>7, <2>2, <2>3 DEF Shape
<1> QED BY <1>2, <1>4, <1>6, <1>7 DEF MarkedInv

\* A test function is left with the line that closes it.
LEMMA MarkedInFn ==
  ASSUME TypeOK, MarkedInv, odd \subseteq {"item"},
         ~Up("in_cfg_tests"), Up("in_test_fn"),
         NEW marks, NEW net \in Int, Scan(marks, net), Body(marks, net)
  PROVE  MarkedInv'
<1>0. /\ depth \in Nat /\ base \in Nat /\ fn_depth \in Int
  BY DEF TypeOK
<1>1. InTestFn(net)
  BY Branches
<1>2. fn_depth = depth - base
  BY DEF MarkedInv
<1>3. ~Up("pending_test_attr")
  BY DEF MarkedInv, Outside
<1>4. flags' \subseteq flags /\ test_scaffold' = TRUE
  BY <1>1 DEF InTestFn
<1>5. ~Up("in_cfg_tests")' /\ ~Up("pending_test_attr")'
  BY <1>3, <1>4 DEF Up
<1>6. /\ depth' = depth + net /\ base' = base /\ depth + net >= base
      /\ place' = IF depth + net = base THEN "code" ELSE "body"
  BY DEF Body, Line
<1>7. CASE depth + net = base
  <2>1. ~Up("in_test_fn")'
    BY <1>0, <1>1, <1>2, <1>7 DEF InTestFn, Closed, Up
  <2>2. place' = "code"
    BY <1>6, <1>7
  <2> QED BY <1>4, <1>5, <2>1, <2>2 DEF MarkedInv
<1>8. CASE depth + net > base
  <2>1. flags' = flags /\ fn_depth' = fn_depth + net
    BY <1>0, <1>1, <1>2, <1>8 DEF InTestFn, Closed
  <2>2. Up("in_test_fn")'
    BY <2>1 DEF Up
  <2>3. place' = "body" /\ depth' > base' /\ fn_depth' = depth' - base'
    BY <1>0, <1>2, <1>6, <1>8, <2>1
  <2> QED BY <1>4, <1>5, <2>2, <2>3 DEF MarkedInv
<1> QED BY <1>0, <1>6, <1>7, <1>8

LEMMA MarkedStep == TypeOK /\ MarkedInv /\ [Next]_vars => MarkedInv'
<1> SUFFICES ASSUME TypeOK, MarkedInv, [Next]_vars, odd' \subseteq {"item"}
             PROVE  MarkedInv'
  BY DEF MarkedInv
<1>t. depth \in Nat /\ base \in Nat
  BY DEF TypeOK
<1>n. Nets \subseteq Int
  BY BoundsAssumption DEF Nets
<1>1. ASSUME NEW kind \in {"cfg", "test"}, Attribute(kind) PROVE MarkedInv'
  <2> DEFINE m == IF kind = "cfg" THEN {"cfg"} ELSE {"attr"}
  <2>1. /\ odd \subseteq {"item"} /\ place' = kind /\ place = "code"
        /\ Scan(m, 0) /\ depth' = depth + 0
    BY <1>1 DEF Attribute, Line
  <2>2. "mod tests" \notin m /\ (kind = "cfg" => "cfg" \in m)
    OBVIOUS
  <2>3. Shape(m, 0)
    BY <2>1, <2>2 DEF Shape
  <2>4. ~Up("in_test_fn") /\ ~Up("pending_test_attr")
    BY <2>1 DEF MarkedInv
  <2>5. CASE Up("in_cfg_tests")
    BY <2>1, <2>3, <2>5, MarkedInCfg
  <2>6. CASE ~Up("in_cfg_tests") /\ (Up("pending_cfg_tests") \/ kind = "cfg")
    BY <2>1, <2>2, <2>3, <2>4, <2>6, MarkedPending DEF Outside
  <2>7. CASE ~Up("in_cfg_tests") /\ ~Up("pending_cfg_tests") /\ kind = "test"
    <3>1. "cfg" \notin m /\ "attr" \in m
      BY <2>7
    <3>2. TestAttribute(m)
      BY <2>1, <2>4, <2>7, <3>1, Branches DEF Outside
    <3>3. flags' = flags \cup {"pending_test_attr"} /\ test_scaffold' = TRUE
      BY <3>1, <3>2 DEF TestAttribute
    <3>4. /\ ~Up("in_test_fn")' /\ ~Up("in_cfg_tests")'
          /\ ~Up("pending_cfg_tests")' /\ Up("pending_test_attr")'
      BY <2>4, <2>7, <3>3 DEF Up
    <3>5. place' = "test"
      BY <2>1, <2>7
    <3> QED BY <3>3, <3>4, <3>5 DEF MarkedInv, Outside
  <2> QED BY <2>5, <2>6, <2>7
<1>2. ASSUME NEW marks, More(marks) PROVE MarkedInv'
  <2>1. /\ odd \subseteq {"item"} /\ place' = place /\ place \in {"cfg", "test"}
        /\ Scan(marks, 0) /\ depth' = depth + 0
    BY <1>2 DEF More, Line
  <2>2. /\ marks \subseteq {"attr"}
        /\ place = "test" => marks = {}
    BY <1>2 DEF More, Line
  <2>3. Shape(marks, 0)
    BY <2>1, <2>2 DEF Shape
  <2>4. ~Up("in_test_fn")
    BY <2>1 DEF MarkedInv
  <2>5. CASE Up("in_cfg_tests")
    BY <2>1, <2>3, <2>5, MarkedInCfg
  <2>6. CASE ~Up("in_cfg_tests") /\ Up("pending_cfg_tests")
    <3>1. ~Up("pending_test_attr")
      BY <2>1, <2>6 DEF MarkedInv
    <3> QED BY <2>1, <2>3, <2>4, <2>6, <3>1, MarkedPending DEF Outside
  <2>7. CASE ~Up("in_cfg_tests") /\ ~Up("pending_cfg_tests")
    <3>1. Up("pending_test_attr") /\ place = "test" /\ marks = {}
      BY <2>1, <2>2, <2>7 DEF MarkedInv
    <3>2. "cfg" \notin marks /\ ~({"fn", "brace"} \subseteq marks)
      BY <3>1
    <3>3. PendingTestAttr(marks, 0)
      BY <2>1, <2>4, <2>7, <3>1, <3>2, Branches DEF Outside
    <3>4. flags' = flags /\ test_scaffold' = TRUE
      BY <3>2, <3>3 DEF PendingTestAttr
    <3>5. /\ ~Up("in_test_fn")' /\ ~Up("in_cfg_tests")'
          /\ ~Up("pending_cfg_tests")' /\ Up("pending_test_attr")'
      BY <2>4, <2>7, <3>1, <3>4 DEF Up
    <3>6. place' = "test"
      BY <2>1, <3>1
    <3> QED BY <3>4, <3>5, <3>6 DEF MarkedInv, Outside
  <2> QED BY <2>5, <2>6, <2>7
<1>3. ASSUME NEW marks, NEW net \in Int, Code(marks, net) PROVE MarkedInv'
  <2>1. /\ odd \subseteq {"item"} /\ place' = "code" /\ place = "code" /\ test' = FALSE
        /\ Scan(marks, net) /\ depth' = depth + net
    BY <1>3 DEF Code, Line
  <2>2. "cfg" \notin marks /\ "attr" \notin marks
    BY <1>3 DEF Code
  <2>3. Shape(marks, net)
    BY <2>1 DEF Shape
  <2>4. ~Up("in_test_fn") /\ ~Up("pending_test_attr")
    BY <2>1 DEF MarkedInv
  <2>5. CASE Up("in_cfg_tests")
    BY <2>1, <2>3, <2>5, MarkedInCfg
  <2>6. CASE ~Up("in_cfg_tests") /\ Up("pending_cfg_tests")
    BY <2>1, <2>3, <2>4, <2>6, MarkedPending DEF Outside
  <2>7. CASE ~Up("in_cfg_tests") /\ ~Up("pending_cfg_tests")
    <3>1. TestAttribute(marks)
      BY <2>1, <2>2, <2>4, <2>7, Branches DEF Outside
    <3>2. flags' = flags
      BY <2>2, <3>1 DEF TestAttribute
    <3>3. /\ ~Up("in_test_fn")' /\ ~Up("pending_test_attr")'
      BY <2>4, <3>2 DEF Up
    <3> QED BY <2>1, <3>3 DEF MarkedInv
  <2> QED BY <2>5, <2>6, <2>7
<1>4. ASSUME NEW marks, NEW net \in Int, Item(marks, net) PROVE MarkedInv'
  <2>1. /\ odd \subseteq {"item"} /\ Scan(marks, net) /\ net >= 0
        /\ depth' = depth + net /\ base' = depth
        /\ place' = IF net = 0 THEN "code" ELSE "body"
    BY <1>4 DEF Item, Line
  <2>2. Usual(marks) \/ Strange(marks)
    BY <1>4 DEF Item, Line
  <2>3. /\ place \in {"code", "cfg", "test"}
        /\ place = "code" => "cfg" \in marks
        /\ place = "test" => marks = {"fn", "brace"}
    BY <2>2 DEF Usual, Strange
  <2>4. Shape(marks, net)
    <3>1. CASE net = 0
      <4>1. place' = "code"
        BY <2>1, <3>1
      <4> QED BY <2>1, <4>1 DEF Shape
    <3>2. CASE net > 0
      <4>1. place' = "body"
        BY <2>1, <3>2
      <4> QED BY <2>1, <3>2, <4>1 DEF Shape
    <3> QED BY <2>1, <3>1, <3>2
  <2>5. ~Up("in_test_fn")
    BY <2>1, <2>3 DEF MarkedInv
  <2>6. CASE Up("in_cfg_tests")
    BY <2>1, <2>4, <2>6, MarkedInCfg
  <2>7. CASE ~Up("in_cfg_tests") /\ (Up("pending_cfg_tests") \/ "cfg" \in marks)
    <3>1. ~Up("pending_test_attr")
      <4>1. CASE place = "test"
        <5>1. "cfg" \notin marks
          BY <2>3, <4>1
        <5> QED BY <2>1, <2>7, <5>1 DEF MarkedInv
      <4> QED BY <2>1, <4>1 DEF MarkedInv
    <3> QED BY <2>1, <2>3, <2>4, <2>5, <2>7, <3>1, MarkedPending DEF Outside
  <2>8. CASE ~Up("in_cfg_tests") /\ ~Up("pending_cfg_tests") /\ "cfg" \notin marks
    <3>1. Up("pending_test_attr") /\ place = "test" /\ marks = {"fn", "brace"}
      BY <2>1, <2>3, <2>8 DEF MarkedInv
    <3>2. PendingTestAttr(marks, net)
      BY <2>1, <2>5, <2>8, <3>1, Branches DEF Outside
    <3>3. flags' = (flags \ {"pending_test_attr"}) \cup Enter("in_test_fn", net)
      BY <3>1, <3>2 DEF PendingTestAttr
    <3>4. fn_depth' = net /\ test_scaffold' = TRUE
      BY <3>1, <3>2 DEF PendingTestAttr
    <3>5. Enter("in_test_fn", net) = IF net = 0 THEN {} ELSE {"in_test_fn"}
      BY <2>1, EnterIs
    <3>6. ~Up("in_cfg_tests")' /\ ~Up("pending_test_attr")'
      BY <2>8, <3>3, <3>5 DEF Up
    <3>7. CASE net = 0
      <4>1. ~Up("in_test_fn")'
        BY <2>5, <3>3, <3>5, <3>7 DEF Up
      <4> QED BY <2>1, <3>4, <3>6, <3>7, <4>1 DEF MarkedInv
    <3>8. CASE net > 0
      <4>1. Up("in_test_fn")'
        BY <3>3, <3>5, <3>8 DEF Up
      <4>2. place' = "body" /\ depth' > base' /\ fn_depth' = depth' - base'
        BY <1>t, <2>1, <3>4, <3>8
      <4> QED BY <3>4, <3>6, <4>1, <4>2 DEF MarkedInv
    <3> QED BY <2>1, <3>7, <3>8
  <2> QED BY <2>6, <2>7, <2>8
<1>5. ASSUME NEW marks, NEW net \in Int, Body(marks, net) PROVE MarkedInv'
  <2>1. /\ odd \subseteq {"item"} /\ Scan(marks, net) /\ place = "body"
        /\ "mod tests" \notin marks
    BY <1>5 DEF Body, Line
  <2>2. /\ depth' = depth + net /\ base' = base /\ depth + net >= base
        /\ place' = IF depth + net = base THEN "code" ELSE "body"
    BY <1>5 DEF Body, Line
  <2>3. Shape(marks, net)
    <3>1. CASE depth + net = base
      <4>1. place' = "code"
        BY <2>2, <3>1
      <4> QED BY <2>2, <4>1 DEF Shape
    <3>2. CASE depth + net > base
      <4>1. place' = "body" /\ depth' > base
        BY <2>2, <3>2
      <4> QED BY <2>1, <2>2, <4>1 DEF Shape
    <3> QED BY <1>t, <2>2, <3>1, <3>2
  <2>4. depth > base
    BY <2>1 DEF MarkedInv
  <2>5. CASE Up("in_cfg_tests")
    BY <2>1, <2>3, <2>5, MarkedInCfg
  <2>6. CASE ~Up("in_cfg_tests") /\ Up("in_test_fn")
    BY <1>5, <2>1, <2>6, MarkedInFn
  <2>7. CASE ~Up("in_cfg_tests") /\ ~Up("in_test_fn")
    <3>1. Up("pending_cfg_tests") /\ ~Up("pending_test_attr")
      BY <2>1, <2>7 DEF MarkedInv
    <3> QED BY <2>1, <2>3, <2>4, <2>7, <3>1, MarkedPending DEF Outside
  <2> QED BY <2>5, <2>6, <2>7
<1>6. CASE UNCHANGED vars
  BY <1>6 DEF vars, source, scanner, MarkedInv, Up, Outside
<1> QED BY <1>1, <1>2, <1>3, <1>4, <1>5, <1>6, <1>n DEF Next

\* Under #[cfg(test)] on any item no test code is taken for production code.
THEOREM TestsAreMarked == Spec => []TestsMarked
<1>1. Init => MarkedInv
  BY DEF Init, MarkedInv, Up
<1>2. MarkedInv => TestsMarked
  BY DEF MarkedInv, TestsMarked
<1> QED BY <1>1, <1>2, MarkedStep, TypeCorrect, PTL DEF Spec
=============================================================================
