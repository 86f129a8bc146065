-------------------------- MODULE RustSpansProofs ---------------------------
(***************************************************************************)
(* Theorems about RustSpans for every file that is UTF-8, and about        *)
(* RustTokens for every file whose tokens are known: what the lexer        *)
(* collects is the text of the tokens, and what the stripper of comments   *)
(* keeps is the code.  Both readings are followed from token to token.     *)
(***************************************************************************)
EXTENDS RustTokens, FiniteSetTheorems, WellFoundedInduction, TLAPS

-----------------------------------------------------------------------------
(* Type correctness.                                                       *)

LEMMA PushedType ==
  ASSUME spans \in Seq(Spans), NEW l \in Nat, NEW a \in Nat, NEW b \in Nat
  PROVE  Pushed(l, a, b) \in Seq(Spans)
<1>1. [line |-> l, from |-> a, to |-> b] \in Spans
  BY DEF Spans
<1>2. Append(spans, [line |-> l, from |-> a, to |-> b]) \in Seq(Spans)
  BY <1>1
<1> QED BY <1>2 DEF Pushed

LEMMA CharLenType == ASSUME NEW i \in Nat PROVE CharLen(i) \in {1, 2}
BY DEF CharLen

LEMMA EndType == ASSUME WellFormed(src) PROVE End \in Nat
BY DEF End, WellFormed

LEMMA RawPrefixType == ASSUME NEW i \in Nat PROVE RawPrefix(i) \in 0 .. 2
BY DEF RawPrefix

LEMMA TypeStep == TypeOK /\ [Next]_vars => TypeOK'
<1> SUFFICES ASSUME TypeOK, [Next]_vars PROVE TypeOK'
  OBVIOUS
<1>0. End \in Nat
  BY EndType DEF TypeOK
<1>a. src' = src => (WellFormed(src)' <=> WellFormed(src))
  BY DEF WellFormed
<1>b. CharLen(index) \in {1, 2}
  BY CharLenType DEF TypeOK
<1>c. Pushed(segment_line, segment_start, index) \in Seq(Spans)
  BY PushedType DEF TypeOK
<1> USE <1>0, <1>a DEF TypeOK, Modes, Text, segment, Goto
<1>1. CASE CodeNewline
  BY <1>1 DEF CodeNewline
<1>2. CASE LineComment
  <2>1. \A e \in index + 2 .. End : Pushed(line_no, index + 2, e) \in Seq(Spans)
    BY PushedType
  <2> QED BY <1>2, <2>1 DEF LineComment
<1>d. ASSUME NEW m \in Modes, NEW d \in Nat, NEW i \in Nat, Open(m, d, i),
             ~(m = "BlockComment" /\ d = 0)
      PROVE  TypeOK'
  <2>1. escaped' = FALSE
    BY <1>d DEF Open
  <2>2. UNCHANGED <<src, line_no, spans>> /\ mode' = m /\ depth' = d
    BY <1>d DEF Open
  <2>3. index' \in Nat /\ segment_start' \in Nat /\ segment_line' \in Nat
    BY <1>d DEF Open
  <2>4. ~(mode' = "BlockComment" /\ depth' = 0)
    BY <1>d, <2>2
  <2> QED BY <2>1, <2>2, <2>3, <2>4
<1>3. CASE BlockComment \/ String
  BY <1>3, <1>d DEF BlockComment, String
<1>4. CASE RawString
  <2>1. PICK h \in 0 .. End : Open("RawString", h, index + RawPrefix(index) + h + 1)
    BY <1>4 DEF RawString
  <2>2. index + RawPrefix(index) + h + 1 \in Nat
    BY RawPrefixType
  <2> QED BY <1>d, <2>1, <2>2
<1>5. CASE CharLiteral
  <2>1. index' \in Nat
    <3>1. index' = index + 1 \/ \E k \in 1 .. CharWindow : index' = index + k + 1
      BY <1>5 DEF CharLiteral, Skip
    <3> QED BY <3>1 DEF CharWindow
  <2>2. UNCHANGED <<src, mode, depth, escaped, line_no, segment_start, segment_line, spans>>
    BY <1>5 DEF CharLiteral, Skip
  <2> QED BY <2>1, <2>2
<1>6. CASE OtherCode \/ CommentText \/ StringText \/ RawText
  BY <1>6, <1>b DEF OtherCode, CommentText, StringText, RawText, Skip
<1>7. CASE TextNewline
  <2>1. escaped' = FALSE /\ UNCHANGED <<src, mode, depth>>
    BY <1>7 DEF TextNewline
  <2>2. /\ index' \in Nat /\ line_no' \in Nat
        /\ segment_start' \in Nat /\ segment_line' \in Nat
    BY <1>7 DEF TextNewline
  <2>3. spans' \in Seq(Spans)
    BY <1>7, <1>c DEF TextNewline, PushSegment
  <2> QED BY <2>1, <2>2, <2>3
<1>8. CASE Deepen
  BY <1>8 DEF Deepen
<1>9. CASE CommentEnd
  <2>1. CASE Close(index + 2)
    BY <2>1, <1>c DEF Close, PushSegment
  <2>2. CASE /\ Nested(depth) /\ Goto(index + 2) /\ depth' = depth - 1
             /\ UNCHANGED <<src, mode, escaped, line_no, segment, spans>>
    BY <1>9, <2>2 DEF Nested, CommentEnd
  <2> QED BY <1>9, <2>1, <2>2 DEF CommentEnd
<1>10. CASE Escaped
  <2>1. index' \in Nat /\ escaped' = FALSE
    BY <1>10, <1>b DEF Escaped
  <2>2. UNCHANGED <<src, mode, depth, line_no, segment_start, segment_line, spans>>
    BY <1>10 DEF Escaped
  <2> QED BY <2>1, <2>2
<1>11. CASE Backslash
  BY <1>11 DEF Backslash
<1>12. CASE StringEnd
  BY <1>12, <1>c DEF StringEnd, Close, PushSegment
<1>13. CASE RawEnd
  BY <1>13, <1>c DEF RawEnd, Close, PushSegment
<1>14. CASE Finish
  BY <1>14, PushedType DEF Finish
<1>15. CASE UNCHANGED vars
  BY <1>15 DEF vars
<1> QED BY <1>1, <1>2, <1>3, <1>4, <1>5, <1>6, <1>7, <1>8, <1>9, <1>10, <1>11, <1>12,
           <1>13, <1>14, <1>15 DEF Next

LEMMA TypeInit == Init => TypeOK
<1> SUFFICES ASSUME Init PROVE TypeOK
  OBVIOUS
<1>1. spans = <<>> /\ escaped = FALSE /\ mode = "Code" /\ WellFormed(src)
  BY DEF Init
<1>2. spans \in Seq(Spans)
  BY <1>1
<1>3. /\ index \in Nat /\ depth \in Nat /\ line_no \in Nat
      /\ segment_start \in Nat /\ segment_line \in Nat
  BY DEF Init
<1> QED BY <1>1, <1>2, <1>3 DEF TypeOK, Modes, Text

\* Type correctness, for every file.
THEOREM TypeCorrect == Spec => []TypeOK
BY TypeInit, TypeStep, PTL DEF Spec

-----------------------------------------------------------------------------
(* The lexer never slices inside a character.                              *)

LEMMA NextByte ==
  ASSUME WellFormed(src), NEW i \in Nat, i < End, At(i) # "hi"
  PROVE  Boundary(i + 1)
<1>1. i + 1 \in 1 .. Len(src) /\ Len(src) \in Nat
  BY DEF End, WellFormed
<1>2. Has(i + 1, "lo") => src[i + 1] = "hi"
  <2>1. ASSUME Has(i + 1, "lo") PROVE i + 2 \in 1 .. Len(src) /\ src[i + 2] = "lo"
    BY <1>1, <2>1 DEF Has, At, End
  <2> QED BY <1>1, <2>1 DEF WellFormed
<1> QED BY <1>1, <1>2 DEF Boundary, At, End

LEMMA NextChar ==
  ASSUME WellFormed(src), NEW i \in Nat, i < End, ~Has(i, "lo")
  PROVE  Boundary(i + CharLen(i)) /\ i + CharLen(i) > i
<1>1. CASE At(i) # "hi"
  BY <1>1, NextByte DEF CharLen
<1>2. CASE At(i) = "hi"
  <2>1. i + 1 \in 1 .. Len(src) /\ Len(src) \in Nat
    BY DEF End, WellFormed
  <2>2. i + 1 < Len(src) /\ src[i + 2] = "lo"
    BY <1>2, <2>1 DEF At, WellFormed
  <2>3. At(i + 1) = "lo" /\ i + 1 < End
    BY <2>2 DEF At, End
  <2>4. Boundary(i + 2)
    BY <2>3, NextByte, (i + 1) + 1 = i + 2
  <2> QED BY <1>2, <2>4 DEF CharLen
<1> QED BY <1>1, <1>2

LEMMA PushLegal ==
  ASSUME spans \in Seq(Spans), \A i \in 1 .. Len(spans) : Slice(spans[i].from, spans[i].to),
         NEW l \in Nat, NEW a \in Nat, NEW b \in Nat, Slice(a, b),
         NEW s, s = Pushed(l, a, b)
  PROVE  \A i \in 1 .. Len(s) : Slice(s[i].from, s[i].to)
BY DEF Pushed

LEMMA SlicesStep == TypeOK /\ SlicesLegal /\ [Next]_vars => SlicesLegal'
<1> SUFFICES ASSUME TypeOK, SlicesLegal, [Next]_vars PROVE SlicesLegal'
  OBVIOUS
<1> DEFINE Legal(s) == \A i \in 1 .. Len(s) : Slice(s[i].from, s[i].to)
           Bounds == /\ Boundary(index')
                     /\ mode' \in Text => Slice(segment_start', index')
<1>0. WellFormed(src) /\ End \in Nat /\ index \in 0 .. End /\ ~Has(index, "lo")
  BY EndType DEF TypeOK, SlicesLegal, Boundary
<1>1. src' = src
  BY DEF Next, vars, segment, CodeNewline, LineComment, BlockComment, RawString, String,
     CharLiteral, OtherCode, TextNewline, Deepen, CommentEnd, CommentText, Escaped,
     Backslash, StringEnd, StringText, RawEnd, RawText, Finish, Open, Close, Skip
<1>2. Bounds /\ Legal(spans') => SlicesLegal'
  BY <1>1 DEF SlicesLegal, Slice, Boundary, Has, At, End
<1>3. Legal(spans)
  BY DEF SlicesLegal
<1>4. mode \in Text => Legal(Pushed(segment_line, segment_start, index))
  BY <1>3, PushLegal DEF TypeOK, SlicesLegal
<1>5. \A c \in Byte \ {"hi"} : Has(index, c) => Boundary(index + 1) /\ index < End
  BY <1>0, NextByte DEF Has
<1>6. \A c, d \in Byte \ {"hi"} : StartsWith(index, c, d)
          => Boundary(index + 2) /\ Boundary(index + 1) /\ index + 1 < End
  BY <1>0, NextByte, (index + 1) + 1 = index + 2 DEF StartsWith, Has
<1>7. index < End => Boundary(index + CharLen(index)) /\ index + CharLen(index) > index
  BY <1>0, NextChar
<1>8. ASSUME Skip(index + CharLen(index)) PROVE Bounds /\ Legal(spans')
  BY <1>0, <1>3, <1>7, <1>8, CharLenType DEF Skip, Goto, segment, TypeOK, SlicesLegal, Slice, Boundary
<1>9. ASSUME NEW m, NEW d, NEW i \in Nat, Boundary(i), Open(m, d, i)
      PROVE  Bounds /\ Legal(spans')
  BY <1>0, <1>3, <1>9 DEF Open, Goto, Slice, Boundary
<1>10. ASSUME NEW i \in Nat, Boundary(i), mode \in Text, Close(i)
       PROVE  Bounds /\ Legal(spans')
  BY <1>4, <1>10 DEF Close, Goto, PushSegment, Text
<1> SUFFICES Bounds /\ Legal(spans')
  BY <1>2
<1>11. CASE CodeNewline
  BY <1>3, <1>5, <1>11 DEF CodeNewline, InCode, Goto, Byte, Text
<1>12. CASE LineComment
  <2>1. PICK e \in index + 2 .. End : /\ LineEnd(index + 2, e)
                                     /\ spans' = Pushed(line_no, index + 2, e)
                                     /\ Goto(e)
    BY <1>12 DEF LineComment
  <2>2. Boundary(index + 2) /\ index + 2 \in Nat
    BY <1>0, <1>6, <1>12 DEF LineComment, Byte
  <2>3. Boundary(e) /\ e \in Nat
    BY <1>0, <2>1 DEF LineEnd, Boundary, Has
  <2>4. Slice(index + 2, e)
    BY <2>2, <2>3, <1>0 DEF Slice
  <2>5. Legal(spans')
    BY <2>1, <2>2, <2>3, <2>4, <1>3, PushLegal DEF TypeOK
  <2> QED BY <1>12, <2>1, <2>3, <2>5 DEF LineComment, InCode, Goto, Text
<1>13. CASE BlockComment
  BY <1>0, <1>6, <1>9, <1>13 DEF BlockComment, Byte
<1>14. CASE String
  BY <1>0, <1>5, <1>9, <1>14 DEF String, Byte
<1>15. CASE RawString
  <2>1. PICK h \in 0 .. End : /\ RawOpens(index, h)
                             /\ Open("RawString", h, index + RawPrefix(index) + h + 1)
    BY <1>15 DEF RawString
  <2> DEFINE q == index + RawPrefix(index) + h
  <2>2. q \in Nat /\ Has(q, "dq")
    BY <1>0, <2>1, RawPrefixType DEF RawOpens
  <2>3. Boundary(q + 1)
    BY <1>0, <2>2, NextByte DEF Has
  <2> QED BY <1>9, <2>1, <2>2, <2>3
<1>16. CASE CharLiteral
  <2>1. CASE \E k \in 1 .. CharWindow : CharEnds(index, k) /\ Skip(index + k + 1)
    <3>1. PICK k \in 1 .. CharWindow : CharEnds(index, k) /\ Skip(index + k + 1)
      BY <2>1
    <3>2. index + k \in Nat /\ Has(index + k, "sq")
      BY <1>0, <3>1 DEF CharEnds, CharWindow
    <3>3. Boundary(index + k + 1)
      BY <1>0, <3>2, NextByte DEF Has
    <3> QED BY <1>3, <1>16, <3>1, <3>3 DEF CharLiteral, InCode, Skip, Goto, Text
  <2>2. CASE Skip(index + 1)
    BY <1>3, <1>5, <1>16, <2>2 DEF CharLiteral, InCode, Skip, Goto, Text, Byte
  <2> QED BY <1>16, <2>1, <2>2 DEF CharLiteral
<1>17. CASE OtherCode \/ CommentText \/ StringText \/ RawText
  BY <1>8, <1>17 DEF OtherCode, CommentText, StringText, RawText
<1>18. CASE TextNewline
  <2>1. Boundary(index + 1) /\ mode \in Text
    BY <1>5, <1>18 DEF TextNewline, Byte
  <2> QED BY <1>0, <1>4, <1>18, <2>1 DEF TextNewline, Goto, PushSegment, Slice
<1>19. CASE Deepen
  <2>1. Boundary(index + 2) /\ mode \in Text
    BY <1>6, <1>19 DEF Deepen, Byte, Text
  <2> QED BY <1>0, <1>3, <1>19, <2>1 DEF Deepen, Goto, segment, Slice, SlicesLegal, TypeOK, Boundary
<1>20. CASE CommentEnd
  <2>1. Boundary(index + 2) /\ mode \in Text /\ index + 2 \in Nat
    BY <1>0, <1>6, <1>20 DEF CommentEnd, Byte, Text
  <2>2. CASE Close(index + 2)
    BY <1>10, <2>1, <2>2
  <2>3. CASE Goto(index + 2) /\ UNCHANGED <<src, mode, escaped, line_no, segment, spans>>
    BY <1>0, <1>3, <2>1, <2>3 DEF Goto, segment, Slice, SlicesLegal, TypeOK, Boundary
  <2> QED BY <1>20, <2>2, <2>3 DEF CommentEnd
<1>21. CASE Escaped
  BY <1>0, <1>3, <1>7, <1>21, CharLenType
     DEF Escaped, Goto, segment, Slice, SlicesLegal, TypeOK, Boundary, Text
<1>22. CASE Backslash
  <2>1. Boundary(index + 1)
    BY <1>5, <1>22 DEF Backslash, Byte
  <2> QED BY <1>0, <1>3, <1>22, <2>1
          DEF Backslash, Goto, segment, Slice, SlicesLegal, TypeOK, Boundary, Text
<1>23. CASE StringEnd
  BY <1>0, <1>5, <1>10, <1>23 DEF StringEnd, Byte, Text
<1>24. CASE RawEnd
  <2>1. Has(index + depth, IF depth = 0 THEN "dq" ELSE "#") /\ index + depth \in Nat
    BY <1>0, <1>24 DEF RawEnd, RawCloses, TypeOK
  <2>2. Boundary(index + 1 + depth) /\ index + 1 + depth \in Nat
    BY <1>0, <2>1, NextByte, (index + depth) + 1 = index + 1 + depth DEF Has, TypeOK
  <2> QED BY <1>10, <1>24, <2>2 DEF RawEnd, Text
<1>25. CASE Finish
  <2>1. Legal(spans')
    <3>1. CASE mode \in Text
      BY <1>4, <1>25, <3>1 DEF Finish, Text
    <3>2. CASE mode = "Code"
      BY <1>3, <1>25, <3>2 DEF Finish
    <3> QED BY <1>25, <3>1, <3>2 DEF Finish, TypeOK, Modes
  <2> QED BY <1>0, <1>25, <2>1 DEF Finish, Text, Boundary
<1>26. CASE UNCHANGED vars
  BY <1>0, <1>3, <1>26 DEF vars, SlicesLegal, Boundary
<1> QED BY <1>11, <1>12, <1>13, <1>14, <1>15, <1>16, <1>17, <1>18, <1>19, <1>20,
           <1>21, <1>22, <1>23, <1>24, <1>25, <1>26 DEF Next

LEMMA SlicesInit == Init => SlicesLegal
<1> SUFFICES ASSUME Init PROVE SlicesLegal
  OBVIOUS
<1>1. ~Has(0, "lo")
  BY DEF Init, Has, At, WellFormed, End
<1>2. Boundary(0) /\ Len(spans) = 0
  BY <1>1, EndType DEF Init, Boundary
<1> QED BY <1>2 DEF Init, SlicesLegal, Text

\* No file makes the lexer panic.
THEOREM SlicesAreLegal == Spec => []SlicesLegal
BY SlicesInit, SlicesStep, TypeCorrect, PTL DEF Spec

-----------------------------------------------------------------------------
(* The lexer counts lines.                                                 *)

LEMMA SameLine ==
  ASSUME WellFormed(src), NEW i \in Nat, NEW j \in Nat, i <= j, j <= End, NoNewline(i, j)
  PROVE  LineOf(j) = LineOf(i)
<1>1. \A k \in i + 1 .. j : src[k] # "nl"
  <2> SUFFICES ASSUME NEW k \in i + 1 .. j PROVE src[k] # "nl"
    OBVIOUS
  <2>1. k - 1 \in i .. j - 1 /\ At(k - 1) = src[k]
    BY DEF At
  <2> QED BY <2>1 DEF NoNewline
<1>2. {k \in 1 .. j : src[k] = "nl"} = {k \in 1 .. i : src[k] = "nl"}
  BY <1>1
<1> QED BY <1>2 DEF LineOf

LEMMA NextLine ==
  ASSUME WellFormed(src), NEW i \in Nat, Has(i, "nl")
  PROVE  LineOf(i + 1) = LineOf(i) + 1
<1> DEFINE before == {k \in 1 .. i : src[k] = "nl"}
<1> DEFINE upto == {k \in 1 .. i + 1 : src[k] = "nl"}
<1>1. upto = before \cup {i + 1}
  BY DEF Has, At
<1>2. IsFiniteSet(before) /\ Cardinality(before) \in Nat
  <2>1. IsFiniteSet(1 .. i)
    BY FS_Interval
  <2> QED BY <2>1, FS_Subset, FS_CardinalityType
<1>3. i + 1 \notin before
  OBVIOUS
<1>4. LineOf(i) = 1 + Cardinality(before) /\ LineOf(i + 1) = 1 + Cardinality(upto)
  BY DEF LineOf
<1> HIDE DEF before, upto
<1>5. Cardinality(before \cup {i + 1}) = Cardinality(before) + 1
  BY <1>2, <1>3, FS_AddElement
<1> QED BY <1>1, <1>2, <1>4, <1>5

LEMMA Joined ==
  ASSUME NEW a \in Nat, NEW b \in Nat, NEW c \in Nat, NoNewline(a, b), NoNewline(b, c)
  PROVE  NoNewline(a, c)
<1> SUFFICES ASSUME NEW k \in a .. c - 1 PROVE At(k) # "nl"
  BY DEF NoNewline
<1>1. k \in a .. b - 1 \/ k \in b .. c - 1
  OBVIOUS
<1> QED BY <1>1 DEF NoNewline

Placed(s) == \A i \in 1 .. Len(s) : /\ s[i].line = LineOf(s[i].from)
                                    /\ NoNewline(s[i].from, s[i].to)

LEMMA PushPlaced ==
  ASSUME spans \in Seq(Spans), Placed(spans), NEW l \in Nat, NEW a \in Nat, NEW b \in Nat,
         l = LineOf(a), NoNewline(a, b)
  PROVE  Placed(Pushed(l, a, b))
BY DEF Pushed, Placed

LEMMA LinesStep == TypeOK /\ SlicesLegal /\ SlicesLegal' /\ LinesRight /\ [Next]_vars
                     => LinesRight'
<1> SUFFICES ASSUME TypeOK, SlicesLegal, SlicesLegal', LinesRight, [Next]_vars
             PROVE  LinesRight'
  OBVIOUS
<1> DEFINE Here == /\ line_no' = LineOf(index')
                   /\ mode' \in Text => /\ segment_line' = LineOf(segment_start')
                                        /\ NoNewline(segment_start', index')
<1>0. WellFormed(src) /\ End \in Nat /\ index \in 0 .. End /\ ~Has(index, "lo")
  BY EndType DEF TypeOK, SlicesLegal, Boundary
<1>1. src' = src
  BY DEF Next, vars, segment, CodeNewline, LineComment, BlockComment, RawString, String,
     CharLiteral, OtherCode, TextNewline, Deepen, CommentEnd, CommentText, Escaped,
     Backslash, StringEnd, StringText, RawEnd, RawText, Finish, Open, Close, Skip
<1>2. index' \in 0 .. End /\ (mode \in Text => segment_start \in Nat /\ segment_start <= index)
  BY <1>0, <1>1 DEF SlicesLegal, Boundary, Slice, End, TypeOK
<1>3. Here /\ Placed(spans') => LinesRight'
  BY <1>1 DEF LinesRight, Placed, LineOf, NoNewline, At
<1> SUFFICES Here /\ Placed(spans')
  BY <1>3
<1>4. Placed(spans) /\ line_no = LineOf(index)
  BY DEF LinesRight, Placed
<1>5. mode \in Text => segment_line = LineOf(segment_start) /\ NoNewline(segment_start, index)
  BY DEF LinesRight
<1>6. mode \in Text => Placed(Pushed(segment_line, segment_start, index))
  BY <1>4, <1>5, PushPlaced DEF TypeOK
<1>7. ASSUME NoNewline(index, index'), index <= index' PROVE LineOf(index') = LineOf(index)
  BY <1>0, <1>2, <1>7, SameLine
\* A step over bytes that are no newline, within the text it was in.
<1>8. ASSUME NoNewline(index, index'), index <= index',
             UNCHANGED <<mode, line_no, segment_start, segment_line, spans>>
      PROVE  Here /\ Placed(spans')
  <2>1. mode \in Text => NoNewline(segment_start, index')
    BY <1>0, <1>2, <1>5, <1>8, Joined
  <2> QED BY <1>4, <1>5, <1>7, <1>8, <2>1
\* ... and out of it, or into another.
<1>9. ASSUME NoNewline(index, index'), index <= index', mode \in Text, mode' = "Code",
             PushSegment, line_no' = line_no
      PROVE  Here /\ Placed(spans')
  BY <1>4, <1>6, <1>7, <1>9 DEF PushSegment, Text
<1>10. ASSUME NEW to \in Nat, index <= to, NoNewline(index, to), NEW m, NEW d, Open(m, d, to)
       PROVE  Here /\ Placed(spans')
  <2>0. index' = to
    BY <1>10 DEF Open, Goto
  <2>1. UNCHANGED <<line_no, spans>> /\ segment_start' = index' /\ segment_line' = line_no
    BY <1>10, <2>0 DEF Open
  <2>2. NoNewline(index', index')
    <3>1. \A i \in Int : NoNewline(i, i)
      BY DEF NoNewline
    <3> QED BY <1>0, <1>2, <3>1
  <2> QED BY <1>4, <1>7, <1>10, <2>0, <2>1, <2>2
<1>11. \A c \in Byte \ {"nl"} : Has(index, c) => NoNewline(index, index + 1)
  BY <1>0 DEF Has, NoNewline
<1>12. \A c, d \in Byte \ {"nl"} : StartsWith(index, c, d) => NoNewline(index, index + 2)
  BY <1>0 DEF StartsWith, Has, NoNewline
<1>13. index < End /\ At(index) # "nl" => NoNewline(index, index + CharLen(index))
  <2> SUFFICES ASSUME index < End, At(index) # "nl"
               PROVE  NoNewline(index, index + CharLen(index))
    OBVIOUS
  <2>1. CASE At(index) = "hi"
    <3>1. index + 1 \in 1 .. Len(src) /\ src[index + 2] = "lo"
      BY <1>0, <2>1 DEF WellFormed, At, End
    <3>2. At(index + 1) = "lo"
      BY <1>0, <3>1 DEF At
    <3> QED BY <1>0, <2>1, <3>2 DEF NoNewline, CharLen
  <2>2. CASE At(index) # "hi"
    BY <1>0, <2>2 DEF NoNewline, CharLen
  <2> QED BY <2>1, <2>2
<1>14. CASE CodeNewline
  BY <1>0, <1>4, <1>14, NextLine DEF CodeNewline, InCode, Goto, Text
<1>15. CASE LineComment
  <2>1. PICK e \in index + 2 .. End : /\ LineEnd(index + 2, e)
                                     /\ spans' = Pushed(line_no, index + 2, e)
                                     /\ index' = e
    BY <1>15 DEF LineComment, Goto
  <2>2. NoNewline(index, index + 2) /\ NoNewline(index + 2, e) /\ index + 2 <= End
    BY <1>0, <1>12, <1>15, <2>1 DEF LineComment, LineEnd, NoNewline, Byte
  <2>3. LineOf(index + 2) = line_no
    BY <1>0, <1>4, <2>2, SameLine
  <2>4. Placed(spans')
    BY <1>0, <1>4, <2>1, <2>2, <2>3, PushPlaced DEF TypeOK
  <2>5. NoNewline(index, e) /\ index <= e
    BY <1>0, <2>1, <2>2 DEF NoNewline
  <2> QED BY <1>4, <1>7, <1>15, <2>1, <2>4, <2>5 DEF LineComment, InCode, Text
<1>16. CASE BlockComment
  <2>1. NoNewline(index, index + 2) /\ index + 2 \in Nat /\ index <= index + 2
    BY <1>0, <1>12, <1>16 DEF BlockComment, Byte
  <2> QED BY <1>10, <1>16, <2>1 DEF BlockComment
<1>17. CASE String
  <2>1. NoNewline(index, index + 1) /\ index + 1 \in Nat /\ index <= index + 1
    BY <1>0, <1>11, <1>17 DEF String, Byte
  <2> QED BY <1>10, <1>17, <2>1 DEF String
<1>18. CASE RawString
  <2>1. PICK h \in 0 .. End : /\ RawOpens(index, h)
                             /\ Open("RawString", h, index + RawPrefix(index) + h + 1)
    BY <1>18 DEF RawString
  <2> DEFINE p == RawPrefix(index)
  <2>2. /\ p \in 1 .. 2
        /\ \A k \in index .. index + p - 1 : At(k) \in {"r", "b"}
    BY <1>0, <2>1 DEF RawOpens, RawPrefix, StartsWith, Has
  <2>3. /\ \A k \in 0 .. h - 1 : At(index + p + k) = "#"
        /\ At(index + p + h) = "dq"
    BY <2>1 DEF RawOpens, Has
  <2> HIDE DEF p
  <2>4. \A k \in index + p .. index + p + h - 1 : At(k) = "#"
    <3> SUFFICES ASSUME NEW k \in index + p .. index + p + h - 1 PROVE At(k) = "#"
      OBVIOUS
    <3>1. k - index - p \in 0 .. h - 1 /\ index + p + (k - index - p) = k
      BY <1>0, <2>2
    <3> QED BY <2>3, <3>1
  <2>5. NoNewline(index, index + p + h + 1)
    BY <1>0, <2>2, <2>3, <2>4 DEF NoNewline
  <2>6. index + p + h + 1 \in Nat /\ index <= index + p + h + 1
    BY <1>0, <2>2
  <2>7. Open("RawString", h, index + p + h + 1)
    BY <2>1 DEF p
  <2> QED BY <1>10, <2>5, <2>6, <2>7
<1>19. CASE CharLiteral
  <2>0. UNCHANGED <<mode, line_no, segment_start, segment_line, spans>> /\ Has(index, "sq")
    BY <1>19 DEF CharLiteral, Skip, segment
  <2>1. CASE \E k \in 1 .. CharWindow : CharEnds(index, k) /\ Skip(index + k + 1)
    <3>1. PICK k \in 1 .. CharWindow : CharEnds(index, k) /\ index' = index + k + 1
      BY <2>1 DEF Skip, Goto
    <3>2. k \in Nat /\ At(index + k) = "sq" /\ At(index) = "sq"
      BY <2>0, <3>1 DEF CharEnds, Has, CharWindow
    <3>3. \A j \in 1 .. k - 1 : At(index + j) # "nl"
      BY <3>1 DEF CharEnds
    <3>4. \A j \in index + 1 .. index + k - 1 : At(j) # "nl"
      <4> SUFFICES ASSUME NEW j \in index + 1 .. index + k - 1 PROVE At(j) # "nl"
        OBVIOUS
      <4>1. j - index \in 1 .. k - 1 /\ index + (j - index) = j
        BY <1>0, <3>2
      <4> QED BY <3>3, <4>1
    <3>5. NoNewline(index, index')
      BY <1>0, <3>1, <3>2, <3>4 DEF NoNewline
    <3> QED BY <1>0, <1>8, <2>0, <3>1, <3>2, <3>5
  <2>2. CASE index' = index + 1
    BY <1>0, <1>8, <1>11, <2>0, <2>2 DEF Byte
  <2> QED BY <1>19, <2>1, <2>2 DEF CharLiteral, Skip, Goto
<1>20. CASE OtherCode \/ CommentText \/ StringText \/ RawText
  <2>1. /\ index < End /\ At(index) # "nl"
        /\ index' = index + CharLen(index)
        /\ UNCHANGED <<mode, line_no, segment_start, segment_line, spans>>
    BY <1>20 DEF OtherCode, CommentText, StringText, RawText, Skip, Goto, segment
  <2> QED BY <1>0, <1>8, <1>13, <2>1, CharLenType
<1>21. CASE TextNewline
  <2>1. /\ mode \in Text /\ Has(index, "nl") /\ index' = index + 1
        /\ line_no' = line_no + 1 /\ segment_line' = line_no + 1
        /\ segment_start' = index + 1
        /\ spans' = Pushed(segment_line, segment_start, index)
    BY <1>21 DEF TextNewline, Goto, PushSegment
  <2>2. LineOf(index + 1) = line_no + 1
    BY <1>0, <1>4, <2>1, NextLine
  <2>3. NoNewline(index + 1, index + 1)
    BY <1>0 DEF NoNewline
  <2> QED BY <1>6, <2>1, <2>2, <2>3
<1>22. CASE Deepen
  <2>1. NoNewline(index, index + 2)
    BY <1>12, <1>22 DEF Deepen, Byte
  <2> QED BY <1>0, <1>8, <1>22, <2>1 DEF Deepen, Goto, segment
<1>23. CASE CommentEnd
  <2>1. NoNewline(index, index + 2)
    BY <1>12, <1>23 DEF CommentEnd, Byte
  <2>2. CASE Close(index + 2)
    BY <1>0, <1>9, <1>23, <2>1, <2>2 DEF CommentEnd, Close, Goto, Text
  <2>3. CASE Goto(index + 2) /\ UNCHANGED <<src, mode, escaped, line_no, segment, spans>>
    BY <1>0, <1>8, <2>1, <2>3 DEF Goto, segment
  <2> QED BY <1>23, <2>2, <2>3 DEF CommentEnd
<1>24. CASE Escaped
  <2>1. /\ index < End /\ At(index) # "nl" /\ index' = index + CharLen(index)
        /\ UNCHANGED <<mode, line_no, segment_start, segment_line, spans>>
    BY <1>24 DEF Escaped, Goto, segment
  <2> QED BY <1>0, <1>8, <1>13, <2>1, CharLenType
<1>25. CASE Backslash
  <2>1. NoNewline(index, index + 1)
    BY <1>11, <1>25 DEF Backslash, Byte
  <2> QED BY <1>0, <1>8, <1>25, <2>1 DEF Backslash, Goto, segment
<1>26. CASE StringEnd
  <2>1. NoNewline(index, index + 1)
    BY <1>11, <1>26 DEF StringEnd, Byte
  <2> QED BY <1>0, <1>9, <1>26, <2>1 DEF StringEnd, Close, Goto, Text
<1>27. CASE RawEnd
  <2>1. At(index) = "dq" /\ \A k \in 1 .. depth : At(index + k) = "#"
    BY <1>27 DEF RawEnd, RawCloses, Has
  <2>2. \A k \in index + 1 .. index + depth : At(k) = "#"
    <3> SUFFICES ASSUME NEW k \in index + 1 .. index + depth PROVE At(k) = "#"
      OBVIOUS
    <3>1. k - index \in 1 .. depth /\ index + (k - index) = k
      BY <1>0 DEF TypeOK
    <3> QED BY <2>1, <3>1
  <2>3. NoNewline(index, index + 1 + depth)
    BY <1>0, <2>1, <2>2 DEF NoNewline, TypeOK
  <2> QED BY <1>0, <1>9, <1>27, <2>3 DEF RawEnd, Close, Goto, Text, TypeOK
<1>28. CASE Finish
  <2>1. Placed(spans')
    <3>1. CASE mode \in Text
      <4>1. spans' = Pushed(segment_line, segment_start, index)
        BY <1>28, <3>1 DEF Finish, Text
      <4> QED BY <1>6, <3>1, <4>1
    <3>2. CASE mode = "Code"
      BY <1>4, <1>28, <3>2 DEF Finish
    <3> QED BY <1>28, <3>1, <3>2 DEF Finish, TypeOK, Modes
  <2> QED BY <1>4, <1>28, <2>1 DEF Finish, Text
<1>29. CASE UNCHANGED vars
  BY <1>4, <1>5, <1>29 DEF vars
<1> QED BY <1>14, <1>15, <1>16, <1>17, <1>18, <1>19, <1>20, <1>21, <1>22, <1>23, <1>24,
           <1>25, <1>26, <1>27, <1>28, <1>29 DEF Next

LEMMA LinesInit == Init => LinesRight
<1>1. LineOf(0) = 1
  BY FS_EmptySet DEF LineOf
<1> QED BY <1>1 DEF Init, LinesRight, Text

\* Every span is reported at the line its text is on, for every file.
THEOREM LinesAreRight == Spec => []LinesRight
BY LinesInit, LinesStep, TypeCorrect, SlicesAreLegal, PTL DEF Spec

LEMMA Induction ==
  ASSUME NEW S, 0 \in S, \A n \in Nat : n \in S => n + 1 \in S
  PROVE  \A n \in Nat : n \in S
<1> SUFFICES ASSUME Nat \ S # {} PROVE FALSE
  OBVIOUS
<1>1. PICK n \in Nat \ S : \A m \in Nat \ S : <<m, n>> \notin OpToRel(<, Nat)
  BY NatLessThanWellFounded, WFMin, Nat \ S \subseteq Nat
<1>2. n # 0 /\ n - 1 \in Nat /\ n - 1 < n
  OBVIOUS
<1>3. n - 1 \in S
  BY <1>1, <1>2 DEF OpToRel
<1>4. (n - 1) + 1 \in S
  BY <1>2, <1>3
<1> QED BY <1>2, <1>4


Reads(t, a, b, mark) == t = [k \in a .. b |-> mark[k] /\ (k - 1 \in a .. b => ~t[k - 1])]

LEMMA TakenExists ==
  ASSUME NEW a \in Nat, NEW mark
  PROVE  \A n \in Nat : \E f : Reads(f, a, a + n, mark)
<1> DEFINE S == {n \in Nat : \E f : Reads(f, a, a + n, mark)}
<1>1. 0 \in S
  <2> DEFINE f == [k \in a .. a + 0 |-> mark[k] /\ TRUE]
  <2>1. \A k \in a .. a + 0 : ~(k - 1 \in a .. a + 0)
    OBVIOUS
  <2>2. Reads(f, a, a + 0, mark)
    BY <2>1 DEF Reads
  <2> QED BY <2>2
<1>2. ASSUME NEW n \in Nat, n \in S PROVE n + 1 \in S
  <2>1. PICK f : Reads(f, a, a + n, mark)
    BY <1>2
  <2> DEFINE g == [k \in a .. a + (n + 1) |->
                     mark[k] /\ (k - 1 \in a .. a + (n + 1) => ~f[k - 1])]
  <2>2. \A k \in a .. a + n : f[k] = (mark[k] /\ (k - 1 \in a .. a + n => ~f[k - 1]))
    BY <2>1 DEF Reads
  <2>3. \A k \in a .. a + (n + 1) : k - 1 \in a .. a + (n + 1) <=> k - 1 \in a .. a + n
    OBVIOUS
  <2>4. \A k \in a .. a + n : g[k] = f[k]
    <3> SUFFICES ASSUME NEW k \in a .. a + n PROVE g[k] = f[k]
      OBVIOUS
    <3>1. k \in a .. a + (n + 1)
      OBVIOUS
    <3>2. g[k] = (mark[k] /\ (k - 1 \in a .. a + (n + 1) => ~f[k - 1]))
      BY <3>1
    <3> HIDE DEF g
    <3> QED BY <2>2, <2>3, <3>1, <3>2
  <2>5. ASSUME NEW k \in a .. a + (n + 1)
        PROVE  (k - 1 \in a .. a + (n + 1) => ~f[k - 1])
                 = (k - 1 \in a .. a + (n + 1) => ~g[k - 1])
    BY <2>3, <2>4
  <2>6. Reads(g, a, a + (n + 1), mark)
    <3> DEFINE h == [k \in a .. a + (n + 1) |->
                       mark[k] /\ (k - 1 \in a .. a + (n + 1) => ~g[k - 1])]
    <3>1. g = h
      BY <2>5
    <3> QED BY <3>1 DEF Reads
  <2>7. n + 1 \in Nat
    OBVIOUS
  <2> QED BY <2>6, <2>7
<1> HIDE DEF S
<1>3. \A n \in Nat : n \in S
  BY <1>1, <1>2, Induction
<1> QED BY <1>3 DEF S

\* What Taken says of every place: a mark is read there unless one was at the place before.
LEMMA TakenWorks ==
  ASSUME NEW a \in Nat, NEW b \in Int, NEW mark, DOMAIN mark = a .. b
  PROVE  \A k \in a .. b : Taken(mark)[k] = (mark[k] /\ (k > a => ~Taken(mark)[k - 1]))
<1>1. CASE b < a
  <2>1. a .. b = {}
    BY <1>1
  <2> QED BY <2>1
<1>2. CASE b >= a
  <2>1. PICK d \in Nat : a + d = b
    BY <1>2, b - a \in Nat, a + (b - a) = b
  <2>2. \E f : Reads(f, a, b, mark)
    BY <2>1, TakenExists
  <2>3. Taken(mark) = CHOOSE t : Reads(t, a, b, mark)
    BY DEF Taken, Reads
  <2> DEFINE g == Taken(mark)
  <2>4. Reads(g, a, b, mark)
    BY <2>2, <2>3, Zenon
  <2> HIDE DEF g
  <2>5. \A k \in a .. b : g[k] = (mark[k] /\ (k - 1 \in a .. b => ~g[k - 1]))
    BY <2>4 DEF Reads
  <2>6. \A k \in a .. b : (k - 1 \in a .. b) = (k > a)
    OBVIOUS
  <2>7. \A k \in a .. b : g[k] = (mark[k] /\ (k > a => ~g[k - 1]))
    BY <2>5, <2>6
  <2> QED BY <2>7 DEF g
<1> QED BY <1>1, <1>2

LEMMA MarksRead ==
  ASSUME NEW t, t.from \in Nat, t.to \in Nat
  PROVE  \A k \in t.from .. t.to - 1 :
           Marks(t)[k] = ((StartsWith(k, "/", "*") \/ StartsWith(k, "*", "/"))
                          /\ (k > t.from => ~Marks(t)[k - 1]))
<1> DEFINE mark == [k \in t.from .. t.to - 1 |->
                      StartsWith(k, "/", "*") \/ StartsWith(k, "*", "/")]
<1>1. \A k \in t.from .. t.to - 1 :
        Taken(mark)[k] = (mark[k] /\ (k > t.from => ~Taken(mark)[k - 1]))
  <2>1. t.to - 1 \in Int /\ DOMAIN mark = t.from .. t.to - 1
    OBVIOUS
  <2> HIDE DEF mark
  <2> QED BY <2>1, TakenWorks
<1>2. \A k \in t.from .. t.to - 1 :
        mark[k] = (StartsWith(k, "/", "*") \/ StartsWith(k, "*", "/"))
  OBVIOUS
<1>3. Marks(t) = Taken(mark)
  BY DEF Marks
<1> HIDE DEF mark
<1> QED BY <1>1, <1>2, <1>3

LEMMA EscapesRead ==
  ASSUME NEW t, t.text \in Nat, t.to \in Nat
  PROVE  \A k \in t.text .. t.to - 1 :
           Escapes(t)[k] = (At(k) = "bs" /\ (k > t.text => ~Escapes(t)[k - 1]))
<1> DEFINE mark == [k \in t.text .. t.to - 1 |-> At(k) = "bs"]
<1>1. \A k \in t.text .. t.to - 1 :
        Taken(mark)[k] = (mark[k] /\ (k > t.text => ~Taken(mark)[k - 1]))
  <2>1. t.to - 1 \in Int /\ DOMAIN mark = t.text .. t.to - 1
    OBVIOUS
  <2> HIDE DEF mark
  <2> QED BY <2>1, TakenWorks
<1>2. \A k \in t.text .. t.to - 1 : mark[k] = (At(k) = "bs")
  OBVIOUS
<1>3. Escapes(t) = Taken(mark)
  BY DEF Escapes
<1> HIDE DEF mark
<1> QED BY <1>1, <1>2, <1>3

Escaping(e, i) == e = [k \in 1 .. CharWindow + 1 |-> k > 1 /\ Has(i + k - 1, "bs") /\ ~e[k - 1]]

LEMMA EscapedFromWorks ==
  ASSUME NEW i \in Nat
  PROVE  \A k \in 1 .. CharWindow + 1 :
           EscapedFrom(i)[k] = (k > 1 /\ Has(i + k - 1, "bs") /\ ~EscapedFrom(i)[k - 1])
<1> DEFINE mark == [k \in 1 .. 13 |-> k > 1 /\ Has(i + k - 1, "bs")]
           e == EscapedFrom(i)
<1>1. PICK f : Reads(f, 1, 13, mark)
  <2>1. \E f : Reads(f, 1, 1 + 12, mark)
    BY TakenExists
  <2> QED BY <2>1
<1>2. Escaping(f, i)
  <2>1. f = [k \in 1 .. 13 |-> mark[k] /\ (k - 1 \in 1 .. 13 => ~f[k - 1])]
    BY <1>1 DEF Reads
  <2>2. ASSUME NEW k \in 1 .. 13
        PROVE  (mark[k] /\ (k - 1 \in 1 .. 13 => ~f[k - 1]))
                 = (k > 1 /\ Has(i + k - 1, "bs") /\ ~f[k - 1])
    <3>1. mark[k] = (k > 1 /\ Has(i + k - 1, "bs"))
      OBVIOUS
    <3>2. k - 1 \in 1 .. 13 <=> k > 1
      OBVIOUS
    <3> HIDE DEF mark
    <3> QED BY <3>1, <3>2
  <2> HIDE DEF mark
  <2> QED BY <2>1, <2>2 DEF Escaping, CharWindow
<1>3. e = CHOOSE x : Escaping(x, i)
  BY DEF EscapedFrom, Escaping
<1>4. Escaping(e, i)
  BY <1>2, <1>3, Zenon
<1> HIDE DEF e
<1>5. \A k \in 1 .. CharWindow + 1 : e[k] = (k > 1 /\ Has(i + k - 1, "bs") /\ ~e[k - 1])
  BY <1>4 DEF Escaping
<1> QED BY <1>5 DEF e

LEMMA LevelStep ==
  ASSUME NEW t, t.from \in Nat, NEW k \in Nat, t.from <= k
  PROVE  /\ ~Marks(t)[k] => Level(t, k + 1) = Level(t, k)
         /\ Marks(t)[k] /\ At(k) = "/" => Level(t, k + 1) = Level(t, k) + 1
         /\ Marks(t)[k] /\ At(k) = "*" => Level(t, k + 1) = Level(t, k) - 1
         /\ Level(t, k) \in Int
<1>1. Opened(t, k + 1) = IF Marks(t)[k] /\ At(k) = "/" THEN Opened(t, k) \cup {k} ELSE Opened(t, k)
  BY DEF Opened
<1>2. Closed(t, k + 1) = IF Marks(t)[k] /\ At(k) = "*" THEN Closed(t, k) \cup {k} ELSE Closed(t, k)
  BY DEF Closed
<1>3. IsFiniteSet(Opened(t, k)) /\ IsFiniteSet(Closed(t, k))
  <2>1. IsFiniteSet(t.from .. k - 1)
    BY FS_Interval
  <2>2. Opened(t, k) \subseteq t.from .. k - 1 /\ Closed(t, k) \subseteq t.from .. k - 1
    BY DEF Opened, Closed
  <2> QED BY <2>1, <2>2, FS_Subset
<1>4. k \notin Opened(t, k) /\ k \notin Closed(t, k)
  BY DEF Opened, Closed
<1>5. /\ Cardinality(Opened(t, k) \cup {k}) = Cardinality(Opened(t, k)) + 1
      /\ Cardinality(Closed(t, k) \cup {k}) = Cardinality(Closed(t, k)) + 1
      /\ Cardinality(Opened(t, k)) \in Nat /\ Cardinality(Closed(t, k)) \in Nat
  BY <1>3, <1>4, FS_AddElement, FS_CardinalityType
<1> QED BY <1>1, <1>2, <1>5 DEF Level

LEMMA LevelStart ==
  ASSUME NEW t, t.from \in Nat, t.to \in Nat, t.from + 2 <= t.to, StartsWith(t.from, "/", "*")
  PROVE  /\ Marks(t)[t.from] /\ ~Marks(t)[t.from + 1]
         /\ Level(t, t.from + 2) = 1
<1>1. Marks(t)[t.from]
  <2>1. t.from \in t.from .. t.to - 1 /\ ~(t.from > t.from)
    OBVIOUS
  <2> QED BY <2>1, MarksRead
<1>2. ~Marks(t)[t.from + 1]
  <2>1. t.from + 1 \in t.from .. t.to - 1 /\ (t.from + 1) - 1 = t.from /\ t.from + 1 > t.from
    OBVIOUS
  <2> QED BY <1>1, <2>1, MarksRead
<1>3. Opened(t, t.from) = {} /\ Closed(t, t.from) = {}
  BY DEF Opened, Closed
<1>4. Level(t, t.from) = 0
  BY <1>3, FS_EmptySet DEF Level
<1>5. Level(t, t.from + 1) = 1
  BY <1>1, <1>4, LevelStep DEF StartsWith, Has
<1>6. Level(t, (t.from + 1) + 1) = 1
  BY <1>2, <1>5, LevelStep
<1> QED BY <1>1, <1>2, <1>6

-----------------------------------------------------------------------------
LineSet(from, to) == IF Blank(from, to) THEN {}
                     ELSE {[line |-> LineOf(from), from |-> from, to |-> to]}
LinesBefore(t, s) == {l \in TextLines(t.text, t.end) : l.to < s}

LEMMA IsTextLine ==
  ASSUME NEW a \in Nat, NEW b \in Nat, NEW l
  PROVE  l \in TextLines(a, b) <=>
           \E p, q \in a .. b : /\ p <= q
                                /\ p = a \/ At(p - 1) = "nl"
                                /\ q = b \/ At(q) = "nl"
                                /\ NoNewline(p, q)
                                /\ ~Blank(p, q)
                                /\ l = [line |-> LineOf(p), from |-> p, to |-> q]
<1> DEFINE Line(p, q) == /\ p <= q
                         /\ p = a \/ At(p - 1) = "nl"
                         /\ q = b \/ At(q) = "nl"
                         /\ NoNewline(p, q)
                         /\ ~Blank(p, q)
           Pairs == {q \in (a .. b) \X (a .. b) : Line(q[1], q[2])}
           Rec(p, q) == [line |-> LineOf(p), from |-> p, to |-> q]
<1>1. TextLines(a, b) = {Rec(p[1], p[2]) : p \in Pairs}
  BY DEF TextLines
<1> HIDE DEF Line, Rec
<1>2. ASSUME NEW p \in Pairs, l = Rec(p[1], p[2]) PROVE \E x, y \in a .. b : Line(x, y) /\ l = Rec(x, y)
  BY <1>2
<1>3. ASSUME NEW x \in a .. b, NEW y \in a .. b, Line(x, y), l = Rec(x, y)
      PROVE  \E p \in Pairs : l = Rec(p[1], p[2])
  <2>1. <<x, y>> \in Pairs /\ <<x, y>>[1] = x /\ <<x, y>>[2] = y
    BY <1>3
  <2> QED BY <1>3, <2>1
<1>4. l \in TextLines(a, b) <=> \E x, y \in a .. b : Line(x, y) /\ l = Rec(x, y)
  BY <1>1, <1>2, <1>3
<1> QED BY <1>4 DEF Line, Rec

\* The line that ends at i, in a text that goes from a to b and in which a line begins at s.
LEMMA LineFrom ==
  ASSUME NEW a \in Nat, NEW b \in Nat, NEW s \in Nat, NEW i \in Nat, a <= s, s <= i, i <= b,
         s = a \/ At(s - 1) = "nl", NoNewline(s, i), i = b \/ At(i) = "nl"
  PROVE  {l \in TextLines(a, b) : l.to < i + 1} = {l \in TextLines(a, b) : l.to < s} \cup LineSet(s, i)
<1>1. ASSUME NEW l \in TextLines(a, b), l.to < i + 1, ~(l.to < s) PROVE l \in LineSet(s, i)
  <2>1. PICK p, q \in a .. b : /\ p <= q
                               /\ p = a \/ At(p - 1) = "nl"
                               /\ q = b \/ At(q) = "nl"
                               /\ NoNewline(p, q)
                               /\ ~Blank(p, q)
                               /\ l = [line |-> LineOf(p), from |-> p, to |-> q]
    BY <1>1, IsTextLine
  <2>2. s <= q /\ q <= i
    BY <1>1, <2>1
  <2>3. q = i
    BY <2>1, <2>2 DEF NoNewline
  <2>4. ~(s < p)
    BY <2>1, <2>2 DEF NoNewline
  <2>5. ~(p < s)
    BY <2>1, <2>2 DEF NoNewline
  <2>6. p = s
    BY <2>4, <2>5, <2>1
  <2> QED BY <2>1, <2>3, <2>6 DEF LineSet
<1>2. ASSUME NEW l \in LineSet(s, i) PROVE l \in TextLines(a, b) /\ l.to < i + 1
  <2>1. ~Blank(s, i) /\ l = [line |-> LineOf(s), from |-> s, to |-> i]
    BY <1>2 DEF LineSet
  <2>2. s \in a .. b /\ i \in a .. b /\ l.to = i
    BY <2>1
  <2>3. l \in TextLines(a, b)
    BY <2>1, <2>2, IsTextLine
  <2> QED BY <2>2, <2>3
<1>3. ASSUME NEW l \in TextLines(a, b), l.to < s PROVE l.to < i + 1
  <2>1. l.to \in Nat
    BY <1>3 DEF TextLines
  <2> QED BY <1>3, <2>1
<1> QED BY <1>1, <1>2, <1>3

LEMMA TokenFacts ==
  ASSUME Tokenised, NEW n \in DOMAIN tokens, NEW t, t = tokens[n]
  PROVE  /\ t.from \in Nat /\ t.text \in Nat /\ t.end \in Nat /\ t.to \in Nat /\ t.hashes \in Nat
         /\ t.from < t.to /\ t.from <= t.text /\ t.text <= t.end /\ t.end <= t.to
         /\ t.to <= End /\ t.to = Start(n + 1) /\ t.from = Start(n)
         /\ t.kind \in Kinds /\ Is(t)
<1>1. t \in Token
  BY DEF Tokenised
<1>2. /\ t.from < t.to /\ t.from <= t.text /\ t.text <= t.end /\ t.end <= t.to
      /\ t.to = Start(n + 1) /\ Boundary(t.to) /\ Is(t)
  BY DEF Tokenised
<1>3. t.to <= End
  BY <1>2 DEF Boundary
<1>4. t.from = Start(n)
  BY DEF Start
<1> QED BY <1>1, <1>2, <1>3, <1>4 DEF Token

LEMMA KindFacts ==
  ASSUME NEW t, t.kind \in Kinds, Is(t)
  PROVE  /\ t.kind = "word" => IsWord(t)
         /\ t.kind = "char" => IsChar(t)
         /\ t.kind = "line" => IsLine(t)
         /\ t.kind = "block" => IsBlock(t)
         /\ t.kind = "string" => IsString(t)
         /\ t.kind = "raw" => IsRaw(t)
BY DEF Is, Kinds

LEMMA TextBeforeFirst == TextBefore(1) = {}
<1>1. 1 .. 1 - 1 = {}
  OBVIOUS
<1> QED BY <1>1 DEF TextBefore

LEMMA TextBeforeNext ==
  ASSUME NEW n \in Nat, n >= 1
  PROVE  TextBefore(n + 1) = TextBefore(n) \cup
           IF HoldsText(tokens[n]) THEN TextLines(tokens[n].text, tokens[n].end) ELSE {}
<1> DEFINE B(k) == {tokens[m] : m \in {j \in 1 .. k - 1 : HoldsText(tokens[j])}}
<1>1. B(n + 1) = B(n) \cup IF HoldsText(tokens[n]) THEN {tokens[n]} ELSE {}
  <2>1. {j \in 1 .. (n + 1) - 1 : HoldsText(tokens[j])}
          = {j \in 1 .. n - 1 : HoldsText(tokens[j])} \cup IF HoldsText(tokens[n]) THEN {n} ELSE {}
    OBVIOUS
  <2> QED BY <2>1
<1>2. \A k : TextBefore(k) = UNION {TextLines(t.text, t.end) : t \in B(k)}
  BY DEF TextBefore
<1> HIDE DEF B
<1> QED BY <1>1, <1>2

\* What Pushed adds.
Set(s) == {s[i] : i \in DOMAIN s}

LEMMA CollectPush ==
  ASSUME spans \in Seq(Spans), NEW l, NEW a \in Nat, NEW b \in Nat, l = LineOf(a),
         NEW s, s = Pushed(l, a, b)
  PROVE  Set(s) = Collected \cup LineSet(a, b)
<1>1. CASE Blank(a, b)
  BY <1>1 DEF Pushed, LineSet, Set, Collected
<1>2. CASE ~Blank(a, b)
  <2> DEFINE x == [line |-> l, from |-> a, to |-> b]
  <2>1. s = Append(spans, x) /\ LineSet(a, b) = {x}
    BY <1>2 DEF Pushed, LineSet
  <2> HIDE DEF x
  <2>2. /\ Len(spans) \in Nat /\ DOMAIN spans = 1 .. Len(spans)
        /\ DOMAIN s = 1 .. Len(spans) + 1
        /\ \A i \in 1 .. Len(spans) : s[i] = spans[i]
        /\ s[Len(spans) + 1] = x
    BY <2>1
  <2>3. Set(s) = Set(spans) \cup {x}
    BY <2>2 DEF Set
  <2> QED BY <2>1, <2>3 DEF Set, Collected
<1> QED BY <1>1, <1>2

-----------------------------------------------------------------------------
(* Code.                                                                   *)

LEMMA CodeNext ==
  ASSUME TypeOK, mode = "Code", index < End, Next
  PROVE  \/ CodeNewline \/ LineComment \/ BlockComment \/ RawString \/ String
         \/ CharLiteral \/ OtherCode
<1>1. index \in Nat /\ End \in Nat
  BY EndType DEF TypeOK
<1>2. index # End
  BY <1>1
<1> QED BY <1>2 DEF Next, TextNewline, Deepen, CommentEnd, CommentText, Escaped, Backslash,
       StringEnd, StringText, RawEnd, RawText, Finish, Text

\* Where the lexer goes on in code.
On(i) == mode' = "Code" /\ spans' = spans /\ index' = i

LEMMA WordIsNotRaw ==
  ASSUME TypeOK, NEW t, t.from \in Nat, t.to \in Nat, IsWord(t),
         NEW k \in t.from .. t.to - 1, NEW h \in Nat
  PROVE  ~RawOpens(k, h)
<1> SUFFICES ASSUME RawOpens(k, h) PROVE FALSE
  OBVIOUS
<1> DEFINE p == RawPrefix(k)
<1>1. p \in 1 .. 2 /\ Has(k + p + h, "dq") /\ \A j \in 0 .. h - 1 : Has(k + p + j, "#")
  BY RawPrefixType DEF RawOpens
<1>2. At(k) \in {"r", "b"} /\ (p = 2 => At(k + 1) = "r") /\ (p = 1 => At(k) = "r")
  BY <1>1 DEF RawPrefix, RawOpens, StartsWith, Has
<1> HIDE DEF p
<1>3. \A j \in k + p .. k + p + h - 1 : Has(j, "#")
  <2> SUFFICES ASSUME NEW j \in k + p .. k + p + h - 1 PROVE Has(j, "#")
    OBVIOUS
  <2>1. j - k - p \in 0 .. h - 1 /\ k + p + (j - k - p) = j
    BY <1>1
  <2> QED BY <1>1, <2>1
<1>4. k + p + h >= t.to
  BY <1>1 DEF IsWord, Has
<1>5. t.to < End
  BY <1>1, <1>4, EndType DEF Has, TypeOK
<1>6. At(t.to) \in {"dq", "r", "#"}
  <2>1. CASE t.to = k + p + h
    BY <1>1, <2>1 DEF Has
  <2>2. CASE t.to < k + p + h /\ t.to >= k + p
    BY <1>3, <2>2, <1>1 DEF Has
  <2>3. CASE t.to < k + p
    BY <1>1, <1>2, <2>3
  <2> QED BY <2>1, <2>2, <2>3, <1>1, <1>4
<1>7. At(t.to - 1) \in {"r", "b", "#"}
  <2>1. CASE t.to - 1 = k \/ (p = 2 /\ t.to - 1 = k + 1)
    BY <1>2, <2>1
  <2>2. CASE t.to - 1 >= k + p
    BY <1>1, <1>3, <1>4, <2>2 DEF Has
  <2> QED BY <1>1, <2>1, <2>2
<1> QED BY <1>5, <1>6, <1>7 DEF IsWord

LEMMA WordStep ==
  ASSUME TypeOK, mode = "Code", Next, NEW t, t.from \in Nat, t.to \in Nat, t.to <= End,
         IsWord(t), index \in t.from .. t.to - 1
  PROVE  On(index + CharLen(index))
<1>1. /\ index < End
      /\ At(index) \notin {"dq", "sq"}
      /\ ~StartsWith(index, "/", "/") /\ ~StartsWith(index, "/", "*")
  BY EndType DEF IsWord, TypeOK
<1>2. \A h \in 0 .. End : ~RawOpens(index, h)
  BY WordIsNotRaw
<1>3. CodeNewline \/ OtherCode
  BY <1>1, <1>2, CodeNext DEF LineComment, BlockComment, RawString, String, CharLiteral, Has
<1>4. CASE CodeNewline
  BY <1>4 DEF CodeNewline, Goto, On, Has, CharLen
<1>5. CASE OtherCode
  BY <1>5 DEF OtherCode, Skip, Goto, On
<1> QED BY <1>3, <1>4, <1>5

\* The b before a quote.
LEMMA PrefixStep ==
  ASSUME TypeOK, mode = "Code", Next, Has(index, "b"),
         Has(index + 1, "dq") \/ Has(index + 1, "sq")
  PROVE  On(index + 1)
<1>1. RawPrefix(index) = 0
  BY DEF RawPrefix, StartsWith, Has
<1>2. index < End /\ At(index) = "b"
  BY DEF Has
<1>3. OtherCode
  BY <1>1, <1>2, CodeNext
     DEF CodeNewline, LineComment, BlockComment, RawString, String, CharLiteral, Has, StartsWith, RawOpens
<1> QED BY <1>2, <1>3 DEF OtherCode, Skip, Goto, On, CharLen

\* A quote that is escaped in the window of a character literal.
LEMMA CharEscapes ==
  ASSUME TypeOK, NEW t, t.from \in Nat, t.text \in Nat, t.end \in Nat, IsChar(t), t.text - 1 = index
  PROVE  LET e == EscapedFrom(index) IN
         \A k \in 1 .. t.end - index : e[k] <=> (k = 2 /\ At(t.text) = "bs")
<1> DEFINE e == EscapedFrom(index)
           last == t.end - index
<1>0. index \in Nat /\ t.text = index + 1 /\ last \in 1 .. 12
  <2>1. index \in Nat /\ t.text = index + 1
    BY DEF TypeOK
  <2>2. t.text < t.end /\ t.end - t.text < 12
    BY DEF IsChar, CharWindow
  <2> QED BY <2>1, <2>2
<1>1. \A k \in 1 .. last : e[k] <=> k > 1 /\ Has(index + k - 1, "bs") /\ ~e[k - 1]
  <2>1. \A k \in 1 .. last : k \in 1 .. CharWindow + 1
    BY <1>0 DEF CharWindow
  <2> HIDE DEF last
  <2> QED BY <1>0, <2>1, EscapedFromWorks
<1>2. \A k \in 2 .. last : Has(index + k - 1, "bs") => k = 2 \/ (k = 3 /\ At(t.text) = "bs")
  BY <1>0 DEF IsChar, Has
<1>3. At(t.text) = "bs" => Has(t.text, "bs") /\ last >= 3
  BY <1>0, EndType DEF IsChar, Has, TypeOK
<1>4. Has(t.text, "bs") => At(t.text) = "bs"
  BY DEF Has
<1>5. index + 2 - 1 = t.text
  BY <1>0
<1> HIDE DEF e, last
<1>6. ~e[1]
  BY <1>0, <1>1
<1>7. last >= 2 => (e[2] <=> Has(index + 2 - 1, "bs"))
  <2> SUFFICES ASSUME last >= 2 PROVE e[2] <=> Has(index + 2 - 1, "bs")
    OBVIOUS
  <2>1. 2 \in 1 .. last /\ 2 > 1 /\ 2 - 1 = 1
    BY <1>0
  <2> QED BY <1>1, <1>6, <2>1
<1>8. ASSUME NEW k \in 3 .. last PROVE ~e[k]
  <2>1. k \in 1 .. last /\ k \in 2 .. last
    BY <1>0
  <2>2. CASE k = 3
    <3>1. e[3] => At(t.text) = "bs" /\ ~e[2]
      BY <1>1, <1>2, <2>1, <2>2
    <3> QED BY <1>0, <1>3, <1>5, <1>7, <2>1, <2>2, <3>1
  <2>3. CASE k # 3
    BY <1>1, <1>2, <2>1, <2>3
  <2> QED BY <2>2, <2>3
<1>9. ASSUME NEW k \in 1 .. last PROVE e[k] <=> (k = 2 /\ At(t.text) = "bs")
  <2>1. CASE k = 1
    BY <1>6, <2>1
  <2>2. CASE k = 2
    BY <1>0, <1>3, <1>4, <1>5, <1>7, <2>2
  <2>3. CASE k >= 3
    BY <1>8, <2>3, <1>0
  <2> QED BY <2>1, <2>2, <2>3, <1>0
<1> QED BY <1>9 DEF e, last

LEMMA CharStep ==
  ASSUME TypeOK, mode = "Code", Next, NEW t, t.from \in Nat, t.text \in Nat, t.end \in Nat,
         IsChar(t), t.text - 1 = index
  PROVE  On(t.to)
<1> DEFINE last == t.end - index
           e == EscapedFrom(index)
<1>0. /\ index \in Nat /\ index < End /\ At(index) = "sq" /\ t.text = index + 1
      /\ last \in 1 .. CharWindow /\ Has(index + last, "sq") /\ t.to = index + last + 1
  <2>1. index \in Nat /\ t.text = index + 1 /\ End \in Nat
    BY EndType DEF TypeOK
  <2>2. Has(index, "sq")
    BY DEF IsChar, Quoted
  <2>3. t.text < t.end /\ t.end - t.text < 12 /\ t.to = t.end + 1 /\ Has(t.end, "sq")
    BY DEF IsChar, CharWindow
  <2>4. last \in 1 .. 12 /\ index + last = t.end
    BY <2>1, <2>3
  <2> QED BY <2>1, <2>2, <2>3, <2>4 DEF Has, CharWindow
<1>1. \A k \in 1 .. last : e[k] <=> (k = 2 /\ At(t.text) = "bs")
  BY CharEscapes
<1>2. \A j \in 1 .. last - 1 : /\ At(index + j) # "nl"
                               /\ At(index + j) = "sq" => e[j]
                               /\ e[j] => ~(Has(index + j, "sq") /\ ~e[j])
  <2> SUFFICES ASSUME NEW j \in 1 .. last - 1
               PROVE  At(index + j) # "nl" /\ (At(index + j) = "sq" => e[j])
    OBVIOUS
  <2>1. index + j \in t.text .. t.end - 1
    BY <1>0
  <2>2. At(index + j) = "sq" => index + j = t.text + 1 /\ At(t.text) = "bs"
    BY <2>1 DEF IsChar
  <2>3. At(index + j) # "nl"
    BY <2>1 DEF IsChar
  <2> QED BY <1>0, <1>1, <2>2, <2>3
<1>3. ~e[last]
  <2>1. At(t.text) = "bs" => last # 2
    BY <1>0 DEF IsChar
  <2> QED BY <1>0, <1>1, <2>1
<1>a. \A k \in 1 .. CharWindow : CharEnds(index, k) <=>
        /\ Has(index + k, "sq") /\ ~e[k]
        /\ \A j \in 1 .. k - 1 : At(index + j) # "nl" /\ (At(index + j) = "sq" => e[j])
  BY DEF CharEnds
<1> HIDE DEF e, last
<1>4. CharEnds(index, last)
  BY <1>0, <1>2, <1>3, <1>a
<1>5. ASSUME NEW k \in 1 .. CharWindow, CharEnds(index, k) PROVE k = last
  <2>1. CASE k < last
    <3>1. k \in 1 .. last - 1
      BY <1>0, <2>1 DEF CharWindow
    <3> QED BY <1>2, <1>5, <1>a, <3>1 DEF Has
  <2>2. CASE k > last
    <3>1. last \in 1 .. k - 1
      BY <1>0, <2>2 DEF CharWindow
    <3> QED BY <1>0, <1>3, <1>5, <1>a, <3>1 DEF Has
  <2> QED BY <1>0, <2>1, <2>2 DEF CharWindow
<1>6. CharLiteral
  <2>1. RawPrefix(index) = 0
    BY <1>0 DEF RawPrefix, StartsWith, Has
  <2> QED BY <1>0, <2>1, CodeNext
          DEF CodeNewline, LineComment, BlockComment, RawString, String, OtherCode, Has, StartsWith, RawOpens
<1> QED BY <1>0, <1>4, <1>5, <1>6 DEF CharLiteral, Skip, Goto, On

LEMMA LineStep ==
  ASSUME TypeOK, mode = "Code", Next, NEW t, t.from \in Nat, t.text \in Nat, t.end \in Nat,
         t.text <= t.end, t.end <= t.to, t.to \in Nat, t.to <= End, IsLine(t), index = t.from
  PROVE  mode' = "Code" /\ index' = t.end /\ spans' = Pushed(line_no, t.text, t.end)
<1>1. /\ index < End /\ At(index) = "/" /\ StartsWith(index, "/", "/") /\ t.text = index + 2
      /\ ~Has(index + 1, "*")
  BY EndType DEF TypeOK, IsLine, StartsWith, Has
<1>2. LineComment
  BY <1>1, CodeNext DEF CodeNewline, BlockComment, RawString, String, CharLiteral, OtherCode,
     Has, StartsWith, RawOpens, RawPrefix
<1>3. PICK e \in t.text .. End : LineEnd(t.text, e) /\ spans' = Pushed(line_no, t.text, e) /\ index' = e
  BY <1>1, <1>2 DEF LineComment, Goto
<1>4. e = t.end
  <2>1. /\ e = End \/ Has(e, "nl")
        /\ \A k \in t.text .. e - 1 : At(k) # "nl"
    BY <1>3 DEF LineEnd
  <2>2. /\ t.end = End \/ Has(t.end, "nl")
        /\ \A k \in t.text .. t.end - 1 : At(k) # "nl"
    BY DEF IsLine
  <2> QED BY <2>1, <2>2, <1>3, EndType DEF Has, TypeOK
<1> QED BY <1>2, <1>3, <1>4 DEF LineComment

LEMMA NewlineStep ==
  ASSUME TypeOK, mode = "Code", Next, Has(index, "nl")
  PROVE  On(index + 1)
<1>1. CodeNewline
  BY CodeNext DEF LineComment, BlockComment, RawString, String, CharLiteral, OtherCode,
     Has, StartsWith, RawOpens, RawPrefix
<1> QED BY <1>1 DEF CodeNewline, Goto, On

\* Where the lexer begins to read text.
Into(m, d, i) == /\ mode' = m /\ depth' = d /\ index' = i /\ segment_start' = i
                 /\ escaped' = FALSE /\ spans' = spans

LEMMA BlockStep ==
  ASSUME TypeOK, mode = "Code", Next, StartsWith(index, "/", "*")
  PROVE  Into("BlockComment", 1, index + 2)
<1>1. /\ index < End /\ At(index) = "/" /\ ~Has(index + 1, "/")
  BY DEF StartsWith, Has
<1>2. BlockComment
  BY <1>1, CodeNext DEF CodeNewline, LineComment, RawString, String, CharLiteral, OtherCode,
     Has, StartsWith, RawOpens, RawPrefix
<1> QED BY <1>2 DEF BlockComment, Open, Goto, Into

LEMMA StringStep ==
  ASSUME TypeOK, mode = "Code", Next, Has(index, "dq")
  PROVE  Into("String", depth, index + 1)
<1>1. String
  BY CodeNext DEF CodeNewline, LineComment, BlockComment, RawString, CharLiteral, OtherCode,
     Has, StartsWith, RawOpens, RawPrefix
<1> QED BY <1>1 DEF String, Open, Goto, Into

LEMMA RawStep ==
  ASSUME TypeOK, mode = "Code", Next, NEW t, t.from \in Nat, t.text \in Nat, t.end \in Nat,
         t.hashes \in Nat, t.text <= t.end, t.end <= End, IsRaw(t), index = t.from
  PROVE  Into("RawString", t.hashes, t.text)
<1> DEFINE p == RawPrefix(index)
           h == t.hashes
<1>1. PICK q \in {1, 2} : /\ q = 1 => Has(index, "r")
                          /\ q = 2 => StartsWith(index, "b", "r")
                          /\ t.text = index + q + h + 1
                          /\ \A k \in index + q .. index + q + h - 1 : At(k) = "#"
                          /\ Has(t.text - 1, "dq")
  BY DEF IsRaw
<1>2. p = q /\ At(index) \in {"r", "b"} /\ index < End
  BY <1>1 DEF RawPrefix, StartsWith, Has
<1>3. index \in Nat /\ End \in Nat /\ h \in 0 .. End /\ h \in Nat
  <2>1. index \in Nat /\ End \in Nat /\ h \in Nat
    BY EndType DEF TypeOK
  <2>2. t.text = index + q + h + 1
    BY <1>1
  <2>3. h <= End
    BY <2>1, <2>2
  <2> QED BY <2>1, <2>3
<1>4. t.text - 1 = index + q + h
  BY <1>1, <1>3
<1> HIDE DEF p, h
<1>5. \A k \in 0 .. h - 1 : Has(index + q + k, "#")
  <2> SUFFICES ASSUME NEW k \in 0 .. h - 1 PROVE Has(index + q + k, "#")
    OBVIOUS
  <2>1. index + q + k \in index + q .. index + q + h - 1
    BY <1>3
  <2>2. index + q + k < End
    BY <1>1, <1>3, <1>4 DEF Has
  <2> QED BY <1>1, <2>1, <2>2 DEF Has
<1>6. \A x \in Nat : RawOpens(index, x) <=>
        (\A k \in 0 .. x - 1 : Has(index + q + k, "#")) /\ Has(index + q + x, "dq")
  <2>1. q > 0
    OBVIOUS
  <2> QED BY <1>2, <2>1 DEF RawOpens, p
<1>7. RawOpens(index, h)
  BY <1>1, <1>3, <1>4, <1>5, <1>6
<1>8. ASSUME NEW x \in Nat, RawOpens(index, x) PROVE x = h
  <2>1. ~(x < h)
    BY <1>3, <1>5, <1>6, <1>8 DEF Has
  <2>2. ~(h < x)
    BY <1>1, <1>3, <1>4, <1>6, <1>8 DEF Has
  <2> QED BY <1>3, <2>1, <2>2
<1>9. RawString
  BY <1>2, <1>3, <1>7, CodeNext DEF CodeNewline, LineComment, BlockComment, String, CharLiteral,
     OtherCode, Has, StartsWith
<1>10. PICK x \in 0 .. End : RawOpens(index, x) /\ Open("RawString", x, index + RawPrefix(index) + x + 1)
  BY <1>9 DEF RawString
<1>11. x = h
  BY <1>8, <1>10, <1>3
<1>12. Open("RawString", h, t.text)
  BY <1>1, <1>2, <1>10, <1>11 DEF p
<1> QED BY <1>12 DEF Open, Goto, Into, h

-----------------------------------------------------------------------------
(* Text.                                                                   *)

\* What a step does to the text it is in: nothing but go on, end a line, or end it.
Along(i) == mode' = mode /\ spans' = spans /\ segment_start' = segment_start /\ index' = i
NewLine == /\ mode' = mode /\ index' = index + 1 /\ segment_start' = index + 1
           /\ depth' = depth /\ escaped' = FALSE
           /\ spans' = Pushed(segment_line, segment_start, index)
Ended(i) == mode' = "Code" /\ index' = i /\ spans' = Pushed(segment_line, segment_start, index)

LEMMA TextNewlineStep ==
  ASSUME TypeOK, mode \in Text, Next, Has(index, "nl")
  PROVE  NewLine
<1>1. ~Finish
  BY EndType DEF Finish, Has, TypeOK
<1>2. TextNewline
  BY <1>1 DEF Next, Text, CodeNewline, LineComment, BlockComment, RawString, String, CharLiteral, OtherCode,
     InCode, Deepen, CommentEnd, CommentText, Escaped, Backslash, StringEnd, StringText,
     RawEnd, RawText, Has, StartsWith, RawCloses
<1> QED BY <1>2 DEF TextNewline, Goto, PushSegment, NewLine

LEMMA FinishStep ==
  ASSUME TypeOK, index = End, Next
  PROVE  /\ mode' = "done" /\ index' = index
         /\ spans' = IF mode = "Code" THEN spans ELSE Pushed(segment_line, segment_start, End)
<1>1. ~(index < End)
  BY EndType DEF TypeOK
<1>2. Finish
  BY <1>1 DEF Next, CodeNewline, LineComment, BlockComment, RawString, String, CharLiteral, OtherCode,
     InCode, TextNewline, Deepen, CommentEnd, CommentText, Escaped, Backslash, StringEnd, StringText,
     RawEnd, RawText, Has, StartsWith, RawCloses
<1> QED BY <1>2 DEF Finish

\* In a block comment.
LEMMA InBlockStep ==
  ASSUME TypeOK, mode = "BlockComment", index < End, At(index) # "nl", Next
  PROVE  /\ StartsWith(index, "/", "*") => Along(index + 2) /\ depth' = depth + 1
         /\ StartsWith(index, "*", "/") /\ depth # 1 => Along(index + 2) /\ depth' = depth - 1
         /\ StartsWith(index, "*", "/") /\ depth = 1 => Ended(index + 2)
         /\ ~StartsWith(index, "/", "*") /\ ~StartsWith(index, "*", "/")
              => Along(index + CharLen(index)) /\ depth' = depth
<1>1. ~(index = End)
  BY EndType DEF TypeOK
<1>2. Deepen \/ CommentEnd \/ CommentText
  BY <1>1 DEF Next, CodeNewline, LineComment, BlockComment, RawString, String, CharLiteral, OtherCode,
     InCode, TextNewline, Escaped, Backslash, StringEnd, StringText, RawEnd, RawText, Finish, Has
<1>3. ~(StartsWith(index, "/", "*") /\ StartsWith(index, "*", "/"))
  BY DEF StartsWith, Has
<1>4. CASE Deepen
  BY <1>3, <1>4 DEF Deepen, Goto, Along, segment
<1>5. CASE CommentEnd
  BY <1>3, <1>5 DEF CommentEnd, Nested, Close, PushSegment, Goto, Along, Ended, segment
<1>6. CASE CommentText
  BY <1>6 DEF CommentText, Skip, Goto, Along, segment
<1> QED BY <1>2, <1>4, <1>5, <1>6

\* In a string.
LEMMA InStringStep ==
  ASSUME TypeOK, mode = "String", index < End, At(index) # "nl", Next
  PROVE  /\ escaped => Along(index + CharLen(index)) /\ escaped' = FALSE
         /\ ~escaped /\ At(index) = "bs" => Along(index + 1) /\ escaped' = TRUE
         /\ ~escaped /\ At(index) = "dq" => Ended(index + 1)
         /\ ~escaped /\ At(index) \notin {"bs", "dq"}
              => Along(index + CharLen(index)) /\ escaped' = FALSE
<1>1. ~(index = End)
  BY EndType DEF TypeOK
<1>2. Escaped \/ Backslash \/ StringEnd \/ StringText
  BY <1>1 DEF Next, CodeNewline, LineComment, BlockComment, RawString, String, CharLiteral, OtherCode,
     InCode, TextNewline, Deepen, CommentEnd, CommentText, RawEnd, RawText, Finish, Has
<1>3. CASE Escaped
  BY <1>3 DEF Escaped, Goto, Along, segment
<1>4. CASE Backslash
  BY <1>4 DEF Backslash, Goto, Along, segment, Has
<1>5. CASE StringEnd
  BY <1>5 DEF StringEnd, Close, PushSegment, Goto, Ended, Has
<1>6. CASE StringText
  <2>1. escaped' = FALSE
    BY <1>6 DEF StringText, Skip, TypeOK
  <2> QED BY <1>6, <2>1 DEF StringText, Skip, Goto, Along, segment
<1> QED BY <1>2, <1>3, <1>4, <1>5, <1>6

\* In a raw string.
LEMMA InRawStep ==
  ASSUME TypeOK, mode = "RawString", index < End, At(index) # "nl", Next
  PROVE  /\ RawCloses(index, depth) => Ended(index + 1 + depth)
         /\ ~RawCloses(index, depth) => Along(index + CharLen(index)) /\ depth' = depth
<1>1. ~(index = End)
  BY EndType DEF TypeOK
<1>2. RawEnd \/ RawText
  BY <1>1 DEF Next, CodeNewline, LineComment, BlockComment, RawString, String, CharLiteral, OtherCode,
     InCode, TextNewline, Deepen, CommentEnd, CommentText, Escaped, Backslash, StringEnd, StringText,
     Finish, Has
<1>3. CASE RawEnd
  BY <1>3 DEF RawEnd, Close, PushSegment, Goto, Ended
<1>4. CASE RawText
  BY <1>4 DEF RawText, Skip, Goto, Along, segment
<1> QED BY <1>2, <1>3, <1>4

\* Where the lexer stands in code: at the beginning of token n, somewhere in a word, at the
\* quote after a b, or at the newline after the line comment it has collected.
CodeAt(n, i, collected) ==
    \/ /\ collected = TextBefore(n)
       /\ \/ i = Start(n)
          \/ /\ n \in DOMAIN tokens
             /\ \/ tokens[n].kind = "word" /\ tokens[n].from <= i /\ i < tokens[n].to
                \/ tokens[n].kind \in {"char", "string"} /\ i = tokens[n].text - 1
    \/ /\ n \in DOMAIN tokens
       /\ tokens[n].kind = "line" /\ i = tokens[n].end /\ i < tokens[n].to
       /\ collected = TextBefore(n + 1)

\* ... in the text of a token: where a line of it began, and as deep, or as escaped, as the
\* token itself says; what is collected is the text before, and the lines that have ended.
TextAt(t, i, s, m, d, e) ==
    /\ t.text <= s /\ s <= i /\ i <= t.end
    /\ s = t.text \/ Has(s - 1, "nl")
    /\ \/ m = "BlockComment" /\ t.kind = "block" /\ d = Level(t, i) /\ ~Marks(t)[i - 1]
       \/ m = "String" /\ t.kind = "string" /\ (e <=> IsEscaped(t, i))
       \/ m = "RawString" /\ t.kind = "raw" /\ d = t.hashes

Ordered(s, i) == /\ \A x, y \in DOMAIN s : x < y => s[x].to <= s[y].from
                 /\ \A x \in DOMAIN s : s[x].to <= i

TextSynced == LifetimeFree =>
    /\ mode = "Code" => \E n \in 1 .. Len(tokens) + 1 : CodeAt(n, index, Collected)
    /\ mode \in Text => \E n \in DOMAIN tokens :
         /\ TextAt(tokens[n], index, segment_start, mode, depth, escaped)
         /\ Collected = TextBefore(n) \cup LinesBefore(tokens[n], segment_start)
    /\ mode = "done" => Collected = TokenText
    /\ Ordered(spans, IF mode \in Text THEN segment_start ELSE index)

\* The same of the next state, said of the file and the tokens as they are.
NextSynced ==
    /\ mode' = "Code" => \E n \in 1 .. Len(tokens) + 1 : CodeAt(n, index', Set(spans'))
    /\ mode' \in Text => \E n \in DOMAIN tokens :
         /\ TextAt(tokens[n], index', segment_start', mode', depth', escaped')
         /\ Set(spans') = TextBefore(n) \cup LinesBefore(tokens[n], segment_start')
    /\ mode' = "done" => Set(spans') = TokenText
    /\ Ordered(spans', IF mode' \in Text THEN segment_start' ELSE index')

LEMMA SameBytes ==
  ASSUME src' = src
  PROVE  /\ End' = End /\ \A i : At(i)' = At(i)
         /\ \A i, b : Has(i, b)' = Has(i, b)
         /\ \A i, b, c : StartsWith(i, b, c)' = StartsWith(i, b, c)
         /\ \A t : Marks(t)' = Marks(t)
         /\ \A t, i : Level(t, i)' = Level(t, i)
         /\ \A t, i : IsEscaped(t, i)' = IsEscaped(t, i)
         /\ \A a, b : TextLines(a, b)' = TextLines(a, b)
<1>1. End' = End /\ \A i : At(i)' = At(i)
  BY DEF End, At
<1>2. \A i, b : Has(i, b)' = Has(i, b)
  BY <1>1 DEF Has
<1>3. \A i, b, c : StartsWith(i, b, c)' = StartsWith(i, b, c)
  BY <1>2 DEF StartsWith
<1>4. \A t : Marks(t)' = Marks(t)
  BY <1>3 DEF Marks, Taken
<1>5. \A t, i : Level(t, i)' = Level(t, i)
  BY <1>1, <1>4 DEF Level, Opened, Closed
<1>6. \A t, i : IsEscaped(t, i)' = IsEscaped(t, i)
  <2>1. \A t : Escapes(t)' = Escapes(t)
    BY <1>1 DEF Escapes, Taken
  <2> QED BY <2>1 DEF IsEscaped
<1>7. \A a, b : TextLines(a, b)' = TextLines(a, b)
  BY <1>1 DEF TextLines, LineOf, NoNewline, Blank, At
<1> QED BY <1>1, <1>2, <1>3, <1>4, <1>5, <1>6, <1>7

LEMMA SameFile ==
  ASSUME src' = src, tokens' = tokens, LifetimeFree => NextSynced
  PROVE  TextSynced'
<1>1. \A n : TextBefore(n)' = TextBefore(n)
  BY SameBytes DEF TextBefore, HoldsText
<1>2. \A t, i : LinesBefore(t, i)' = LinesBefore(t, i)
  BY SameBytes DEF LinesBefore
<1>3. \A n : Start(n)' = Start(n)
  BY SameBytes DEF Start
<1>4. TokenText' = TokenText /\ Collected' = Set(spans')
  BY <1>1 DEF TokenText, Collected, Set
<1>5. LifetimeFree' = LifetimeFree
  BY DEF LifetimeFree
<1>6. mode' = "Code" /\ NextSynced => \E n \in 1 .. Len(tokens') + 1 : CodeAt(n, index, Collected)'
  BY <1>1, <1>3, <1>4 DEF NextSynced, CodeAt
<1>7. mode' \in Text /\ NextSynced => \E n \in DOMAIN tokens' :
         /\ TextAt(tokens[n], index, segment_start, mode, depth, escaped)'
         /\ Collected' = (TextBefore(n) \cup LinesBefore(tokens[n], segment_start))'
  BY <1>1, <1>2, <1>4, SameBytes DEF NextSynced, TextAt
<1>8. NextSynced => /\ mode' = "done" => Collected' = TokenText'
                    /\ Ordered(spans, IF mode \in Text THEN segment_start ELSE index)'
  BY <1>4 DEF NextSynced, Ordered
<1> QED BY <1>5, <1>6, <1>7, <1>8 DEF TextSynced

LEMMA SpanTypes ==
  ASSUME spans \in Seq(Spans)
  PROVE  \A k \in DOMAIN spans : spans[k].to \in Nat /\ spans[k].from \in Nat
<1>1. \A k \in DOMAIN spans : spans[k] \in Spans
  OBVIOUS
<1>2. \A x \in Spans : x.to \in Nat /\ x.from \in Nat
  BY DEF Spans
<1> QED BY <1>1, <1>2

LEMMA OrderedPush ==
  ASSUME spans \in Seq(Spans), NEW l \in Nat, NEW a \in Nat, NEW b \in Nat, NEW i \in Nat,
         a <= b, b <= i, Ordered(spans, a)
  PROVE  Ordered(Pushed(l, a, b), i)
<1> DEFINE x == [line |-> l, from |-> a, to |-> b]
           s == Pushed(l, a, b)
<1>1. \A k \in DOMAIN spans : spans[k].to \in Nat /\ spans[k].from \in Nat /\ spans[k].to <= a
  BY SpanTypes DEF Ordered
<1>2. CASE Blank(a, b)
  BY <1>1, <1>2 DEF Pushed, Ordered
<1>3. CASE ~Blank(a, b)
  <2>1. s = Append(spans, x)
    BY <1>3 DEF Pushed
  <2>2. x.from = a /\ x.to = b
    OBVIOUS
  <2> HIDE DEF x
  <2>3. /\ Len(spans) \in Nat /\ DOMAIN spans = 1 .. Len(spans)
        /\ DOMAIN s = 1 .. Len(spans) + 1
        /\ \A k \in 1 .. Len(spans) : s[k] = spans[k]
        /\ s[Len(spans) + 1] = x
    BY <2>1
  <2> HIDE DEF s
  <2>4. \A k \in DOMAIN s : s[k].to <= i
    BY <1>1, <2>2, <2>3
  <2>5. ASSUME NEW j \in DOMAIN s, NEW k \in DOMAIN s, j < k PROVE s[j].to <= s[k].from
    <3>1. j \in DOMAIN spans /\ s[j] = spans[j]
      BY <2>3, <2>5
    <3>2. CASE k = Len(spans) + 1
      BY <1>1, <2>2, <2>3, <3>1, <3>2
    <3>3. CASE k # Len(spans) + 1
      <4>1. k \in DOMAIN spans /\ s[k] = spans[k]
        BY <2>3, <2>5, <3>3
      <4> QED BY <2>5, <3>1, <4>1 DEF Ordered
    <3> QED BY <3>2, <3>3
  <2>6. Ordered(s, i)
    BY <2>4, <2>5 DEF Ordered
  <2> QED BY <2>6 DEF s
<1> QED BY <1>2, <1>3

LEMMA OrderedOn ==
  ASSUME spans \in Seq(Spans), NEW a \in Nat, NEW b \in Nat, a <= b, Ordered(spans, a)
  PROVE  Ordered(spans, b)
BY SpanTypes DEF Ordered

\* A character ends before a boundary or at it.
LEMMA CharBefore ==
  ASSUME WellFormed(src), NEW i \in Nat, NEW b \in Nat, i < b, b <= End, ~Has(b, "lo")
  PROVE  /\ i + CharLen(i) <= b
         /\ i + CharLen(i) = i + 1 \/ (i + CharLen(i) = i + 2 /\ At(i) = "hi" /\ At(i + 1) = "lo")
<1>0. End \in Nat /\ End = Len(src)
  BY EndType DEF End
<1>1. CASE At(i) = "hi"
  <2>1. i + 1 \in 1 .. Len(src) /\ src[i + 1] = "hi"
    BY <1>0, <1>1 DEF At
  <2>2. i + 1 < Len(src) /\ src[(i + 1) + 1] = "lo"
    BY <2>1 DEF WellFormed
  <2>3. At(i + 1) = "lo" /\ i + 1 < End
    BY <1>0, <2>2 DEF At
  <2>4. b # i + 1
    BY <2>3 DEF Has
  <2> QED BY <1>1, <2>3, <2>4 DEF CharLen
<1>2. CASE At(i) # "hi"
  BY <1>2 DEF CharLen
<1> QED BY <1>1, <1>2

\* The whole text of a token, when its last line begins at s.
LEMMA LastLine ==
  ASSUME NEW t, t.text \in Nat, t.end \in Nat, NEW s \in Nat, t.text <= s, s <= t.end,
         s = t.text \/ At(s - 1) = "nl", NoNewline(s, t.end)
  PROVE  TextLines(t.text, t.end) = LinesBefore(t, s) \cup LineSet(s, t.end)
<1>1. {l \in TextLines(t.text, t.end) : l.to < t.end + 1} = LinesBefore(t, s) \cup LineSet(s, t.end)
  BY LineFrom DEF LinesBefore
<1>2. \A l \in TextLines(t.text, t.end) : l.to < t.end + 1
  <2>1. \A l \in TextLines(t.text, t.end) : l.to \in t.text .. t.end
    BY DEF TextLines
  <2> QED BY <2>1
<1> QED BY <1>1, <1>2

LEMMA NoLinesYet ==
  ASSUME NEW t, t.text \in Nat, t.end \in Nat
  PROVE  LinesBefore(t, t.text) = {}
<1>1. \A l \in TextLines(t.text, t.end) : l.to \in t.text .. t.end
  BY DEF TextLines
<1> QED BY <1>1 DEF LinesBefore

-----------------------------------------------------------------------------
(* A step in code.                                                         *)

\* What holds of the file and the lexer, whatever it reads.
Sound == TypeOK /\ SlicesLegal /\ LinesRight /\ Tokenised

LEMMA NextTokenPlace ==
  ASSUME Tokenised, NEW n \in DOMAIN tokens
  PROVE  n \in Nat /\ n >= 1 /\ n \in 1 .. Len(tokens) + 1 /\ n + 1 \in 1 .. Len(tokens) + 1
<1>1. Len(tokens) \in Nat /\ DOMAIN tokens = 1 .. Len(tokens)
  BY DEF Tokenised
<1> QED BY <1>1

\* The token is done with, and what it says is collected.
LEMMA Reached ==
  ASSUME Tokenised, NEW n \in DOMAIN tokens, mode' = "Code", index' = tokens[n].to,
         Set(spans') = TextBefore(n + 1), Ordered(spans', index')
  PROVE  NextSynced
<1>1. n + 1 \in 1 .. Len(tokens) + 1 /\ index' = Start(n + 1)
  BY NextTokenPlace, TokenFacts
<1>2. CodeAt(n + 1, index', Set(spans'))
  BY <1>1 DEF CodeAt
<1>3. mode' # "done" /\ mode' \notin Text
  BY DEF Text
<1> QED BY <1>1, <1>2, <1>3 DEF NextSynced

\* Code that goes on, within the token or after it.
LEMMA GoneOn ==
  ASSUME Sound, NEW n \in DOMAIN tokens, NEW i \in Nat, On(i), index <= i,
         Collected = TextBefore(n), Ordered(spans, index),
         \/ i = tokens[n].to /\ ~HoldsText(tokens[n])
         \/ CodeAt(n, i, TextBefore(n))
  PROVE  NextSynced
<1>1. Set(spans') = TextBefore(n) /\ mode' = "Code" /\ index' = i
  BY DEF On, Set, Collected
<1>2. Ordered(spans', index')
  BY <1>1, OrderedOn DEF On, Sound, TypeOK
<1>3. CASE i = tokens[n].to /\ ~HoldsText(tokens[n])
  <2>1. TextBefore(n + 1) = TextBefore(n)
    BY <1>3, NextTokenPlace, TextBeforeNext DEF Sound
  <2> QED BY <1>1, <1>2, <1>3, <2>1, Reached DEF Sound
<1>4. CASE CodeAt(n, i, TextBefore(n))
  <2>1. n \in 1 .. Len(tokens) + 1
    BY NextTokenPlace DEF Sound
  <2> QED BY <1>1, <1>2, <1>4, <2>1 DEF NextSynced, Text
<1> QED BY <1>3, <1>4

\* The lexer begins to read the text of token n.
LEMMA TextBegun ==
  ASSUME Sound, NEW n \in DOMAIN tokens, NEW t, t = tokens[n], NEW m, NEW d, NEW e,
         m \in Text, Into(m, d, t.text), index <= t.text, Collected = TextBefore(n),
         Ordered(spans, index),
         \/ m = "BlockComment" /\ t.kind = "block" /\ d = Level(t, t.text) /\ ~Marks(t)[t.text - 1]
         \/ m = "String" /\ t.kind = "string"
         \/ m = "RawString" /\ t.kind = "raw" /\ d = t.hashes
  PROVE  NextSynced
<1>1. /\ mode' = m /\ depth' = d /\ index' = t.text /\ segment_start' = t.text
      /\ escaped' = FALSE /\ spans' = spans
  BY DEF Into
<1>2. t.text \in Nat /\ t.end \in Nat /\ t.text <= t.end
  BY TokenFacts DEF Sound
<1>3. ~IsEscaped(t, t.text)
  BY <1>2 DEF IsEscaped
<1>4. TextAt(t, index', segment_start', mode', depth', escaped')
  BY <1>1, <1>2, <1>3 DEF TextAt
<1>5. Set(spans') = TextBefore(n) \cup LinesBefore(t, segment_start')
  BY <1>1, <1>2, NoLinesYet DEF Set, Collected
<1>6. Ordered(spans', segment_start')
  BY <1>1, <1>2, OrderedOn DEF Sound, TypeOK
<1>7. mode' # "Code" /\ mode' # "done" /\ mode' \in Text
  BY <1>1 DEF Text
<1> QED BY <1>4, <1>5, <1>6, <1>7 DEF NextSynced

LEMMA InWord ==
  ASSUME Sound, mode = "Code", Next, NEW n \in DOMAIN tokens, tokens[n].kind = "word",
         tokens[n].from <= index, index < tokens[n].to,
         Collected = TextBefore(n), Ordered(spans, index)
  PROVE  NextSynced
<1> DEFINE t == tokens[n]
           i == index + CharLen(index)
<1>0. /\ t.from \in Nat /\ t.to \in Nat /\ t.to <= End /\ IsWord(t) /\ ~Has(t.to, "lo")
      /\ index \in Nat /\ End \in Nat /\ index \in t.from .. t.to - 1 /\ WellFormed(src)
  BY TokenFacts, KindFacts, EndType DEF Sound, TypeOK, Tokenised, Boundary
<1>1. On(i)
  BY <1>0, WordStep DEF Sound
<1>2. i \in Nat /\ index <= i /\ i <= t.to
  BY <1>0, CharBefore
<1>3. CASE i = t.to
  BY <1>1, <1>2, <1>3, GoneOn DEF HoldsText
<1>4. CASE i < t.to
  <2>1. CodeAt(n, i, TextBefore(n))
    BY <1>0, <1>2, <1>4 DEF CodeAt
  <2> QED BY <1>1, <1>2, <2>1, GoneOn
<1> QED BY <1>0, <1>2, <1>3, <1>4

\* At the beginning of a literal, or at its quote.
LEMMA InLiteral ==
  ASSUME Sound, mode = "Code", Next, NEW n \in DOMAIN tokens, tokens[n].kind \in {"char", "string"},
         index = tokens[n].from \/ index = tokens[n].text - 1,
         Collected = TextBefore(n), Ordered(spans, index)
  PROVE  NextSynced
<1> DEFINE t == tokens[n]
<1>0. /\ t.from \in Nat /\ t.text \in Nat /\ t.end \in Nat /\ t.to \in Nat /\ index \in Nat
      /\ t.text <= t.end /\ t.end <= t.to /\ TypeOK /\ Tokenised
      /\ t.kind = "char" => IsChar(t)
      /\ t.kind = "string" => IsString(t)
  BY TokenFacts, KindFacts DEF Sound, TypeOK
<1>1. PICK b \in {"sq", "dq"} : /\ Quoted(t, b)
                                /\ t.kind = "char" => b = "sq"
                                /\ t.kind = "string" => b = "dq"
  BY <1>0 DEF IsChar, IsString
<1>2. Has(t.text - 1, b) /\ (t.text - 1 = t.from \/ (t.text - 1 = t.from + 1 /\ Has(t.from, "b")))
  BY <1>1 DEF Quoted
<1>3. CASE index = t.text - 1
  <2>1. CASE t.kind = "char"
    <3>1. On(t.to)
      BY <1>0, <1>3, <2>1, CharStep
    <3>2. index <= t.to
      BY <1>0, <1>3
    <3> QED BY <1>0, <2>1, <3>1, <3>2, GoneOn DEF HoldsText
  <2>2. CASE t.kind = "string"
    <3>1. Has(index, "dq")
      BY <1>1, <1>2, <1>3, <2>2
    <3>2. Into("String", depth, t.text)
      BY <1>0, <1>3, <3>1, StringStep, index + 1 = t.text
    <3>3. index <= t.text /\ "String" \in Text
      BY <1>0, <1>3 DEF Text
    <3> QED BY <2>2, <3>2, <3>3, TextBegun
  <2> QED BY <2>1, <2>2
<1>4. CASE index # t.text - 1
  <2>1. index = t.from /\ t.text - 1 = index + 1 /\ Has(index, "b")
    BY <1>2, <1>4
  <2>2. On(index + 1)
    BY <1>0, <1>2, <2>1, PrefixStep
  <2>3. CodeAt(n, index + 1, TextBefore(n))
    BY <2>1 DEF CodeAt
  <2> QED BY <1>0, <2>2, <2>3, GoneOn
<1> QED BY <1>3, <1>4

LEMMA AtLine ==
  ASSUME Sound, mode = "Code", Next, NEW n \in DOMAIN tokens, tokens[n].kind = "line",
         index = tokens[n].from, Collected = TextBefore(n), Ordered(spans, index)
  PROVE  NextSynced
<1> DEFINE t == tokens[n]
<1>0. /\ t.from \in Nat /\ t.text \in Nat /\ t.end \in Nat /\ t.to \in Nat /\ t.to <= End
      /\ t.text <= t.end /\ t.end <= t.to /\ IsLine(t) /\ TypeOK /\ Tokenised
      /\ index \in Nat /\ WellFormed(src) /\ spans \in Seq(Spans) /\ line_no \in Nat
      /\ t.text = t.from + 2
  BY TokenFacts, KindFacts DEF Sound, TypeOK, IsLine
<1>1. mode' = "Code" /\ index' = t.end /\ spans' = Pushed(line_no, t.text, t.end)
  BY <1>0, LineStep
<1>2. NoNewline(t.text, t.end)
  BY <1>0 DEF IsLine, NoNewline
<1>3. line_no = LineOf(t.text)
  <2>1. NoNewline(t.from, t.text)
    BY <1>0 DEF IsLine, StartsWith, Has, NoNewline
  <2>2. t.text <= End
    BY <1>0, EndType
  <2> QED BY <1>0, <2>1, <2>2, SameLine DEF Sound, LinesRight
<1>4. TextLines(t.text, t.end) = LinesBefore(t, t.text) \cup LineSet(t.text, t.end)
  BY <1>0, <1>2, LastLine
<1>5. Set(spans') = Collected \cup LineSet(t.text, t.end)
  BY <1>0, <1>1, <1>3, CollectPush
<1>6. Set(spans') = TextBefore(n + 1)
  <2>1. TextBefore(n + 1) = TextBefore(n) \cup TextLines(t.text, t.end)
    BY <1>0, NextTokenPlace, TextBeforeNext DEF HoldsText
  <2>2. LinesBefore(t, t.text) = {}
    BY <1>0, NoLinesYet
  <2> QED BY <1>4, <1>5, <2>1, <2>2
<1>7. Ordered(spans', index')
  <2>1. Ordered(spans, t.text)
    BY <1>0, OrderedOn
  <2> QED BY <1>0, <1>1, <2>1, OrderedPush
<1>8. CASE t.end = t.to
  BY <1>0, <1>1, <1>6, <1>7, <1>8, Reached
<1>9. CASE t.end < t.to
  <2>1. CodeAt(n, index', Set(spans'))
    BY <1>1, <1>6, <1>9 DEF CodeAt
  <2>2. n \in 1 .. Len(tokens) + 1
    BY <1>0, NextTokenPlace
  <2> QED BY <1>1, <1>7, <2>1, <2>2 DEF NextSynced, Text
<1> QED BY <1>0, <1>8, <1>9

LEMMA AtLineEnd ==
  ASSUME Sound, mode = "Code", Next, NEW n \in DOMAIN tokens, tokens[n].kind = "line",
         index = tokens[n].end, index < tokens[n].to, Collected = TextBefore(n + 1),
         Ordered(spans, index)
  PROVE  NextSynced
<1> DEFINE t == tokens[n]
<1>0. /\ t.end \in Nat /\ t.to \in Nat /\ IsLine(t) /\ TypeOK /\ Tokenised /\ spans \in Seq(Spans)
      /\ index \in Nat
  BY TokenFacts, KindFacts DEF Sound, TypeOK
<1>1. Has(index, "nl") /\ t.to = index + 1
  BY <1>0 DEF IsLine
<1>2. On(t.to)
  BY <1>0, <1>1, NewlineStep
<1>3. Ordered(spans, t.to)
  BY <1>0, <1>1, OrderedOn
<1> QED BY <1>0, <1>2, <1>3, Reached DEF On, Set, Collected

LEMMA AtBlock ==
  ASSUME Sound, mode = "Code", Next, NEW n \in DOMAIN tokens, tokens[n].kind = "block",
         index = tokens[n].from, Collected = TextBefore(n), Ordered(spans, index)
  PROVE  NextSynced
<1> DEFINE t == tokens[n]
<1>0. /\ t.from \in Nat /\ t.text \in Nat /\ t.end \in Nat /\ t.to \in Nat
      /\ t.text <= t.end /\ t.end <= t.to /\ IsBlock(t) /\ TypeOK
  BY TokenFacts, KindFacts DEF Sound
<1>1. StartsWith(index, "/", "*") /\ t.text = index + 2 /\ t.from + 2 <= t.to
  BY <1>0 DEF IsBlock
<1>2. Into("BlockComment", 1, t.text)
  BY <1>0, <1>1, BlockStep
<1>3. /\ Level(t, t.text) = 1 /\ ~Marks(t)[t.text - 1]
  <2>1. Level(t, t.from + 2) = 1 /\ ~Marks(t)[t.from + 1]
    BY <1>0, <1>1, LevelStart
  <2>2. t.from + 2 = t.text /\ t.from + 1 = t.text - 1
    BY <1>0, <1>1
  <2> QED BY <2>1, <2>2
<1>4. index <= t.text /\ "BlockComment" \in Text
  BY <1>0, <1>1 DEF Text
<1> QED BY <1>2, <1>3, <1>4, TextBegun

LEMMA AtRaw ==
  ASSUME Sound, mode = "Code", Next, NEW n \in DOMAIN tokens, tokens[n].kind = "raw",
         index = tokens[n].from, Collected = TextBefore(n), Ordered(spans, index)
  PROVE  NextSynced
<1> DEFINE t == tokens[n]
<1>0. /\ t.from \in Nat /\ t.text \in Nat /\ t.end \in Nat /\ t.to \in Nat /\ t.hashes \in Nat
      /\ t.from <= t.text /\ t.text <= t.end /\ t.end <= t.to /\ t.to <= End /\ IsRaw(t) /\ TypeOK
  BY TokenFacts, KindFacts DEF Sound
<1>1. Into("RawString", t.hashes, t.text)
  BY <1>0, RawStep, EndType DEF TypeOK
<1>2. index <= t.text /\ "RawString" \in Text
  BY <1>0 DEF Text
<1> QED BY <1>1, <1>2, TextBegun

LEMMA CodeStep ==
  ASSUME Sound, LifetimeFree, mode = "Code", Next, NEW n \in 1 .. Len(tokens) + 1,
         CodeAt(n, index, Collected), Ordered(spans, index)
  PROVE  NextSynced
<1>0. index \in Nat /\ End \in Nat /\ index <= End /\ Len(tokens) \in Nat /\ DOMAIN tokens = 1 .. Len(tokens)
  BY EndType DEF Sound, TypeOK, SlicesLegal, Boundary, Tokenised
<1>1. CASE n \notin DOMAIN tokens
  <2>1. n = Len(tokens) + 1 /\ index = End /\ Collected = TokenText
    BY <1>0, <1>1 DEF CodeAt, Start, TokenText
  <2>2. mode' = "done" /\ index' = index /\ spans' = spans
    BY <2>1, FinishStep DEF Sound
  <2> QED BY <2>1, <2>2 DEF NextSynced, Set, Collected, Text
<1>2. CASE n \in DOMAIN tokens
  <2> DEFINE t == tokens[n]
  <2>1. /\ t.kind \in Kinds /\ t.kind # "lifetime" /\ t.from = Start(n) /\ t.from < t.to
        /\ t.from \in Nat /\ t.to \in Nat
    BY <1>2, TokenFacts DEF Sound, LifetimeFree
  <2>2. CASE t.kind = "line" /\ index = t.end /\ index < t.to /\ Collected = TextBefore(n + 1)
    BY <1>2, <2>2, AtLineEnd
  <2>3. CASE /\ Collected = TextBefore(n)
             /\ \/ index = t.from
                \/ t.kind = "word" /\ t.from <= index /\ index < t.to
                \/ t.kind \in {"char", "string"} /\ index = t.text - 1
    <3>1. CASE t.kind = "word"
      BY <1>2, <2>1, <2>3, <3>1, InWord
    <3>2. CASE t.kind \in {"char", "string"}
      BY <1>2, <2>1, <2>3, <3>2, InLiteral
    <3>3. CASE t.kind = "line"
      BY <1>2, <2>3, <3>3, AtLine
    <3>4. CASE t.kind = "block"
      BY <1>2, <2>3, <3>4, AtBlock
    <3>5. CASE t.kind = "raw"
      BY <1>2, <2>3, <3>5, AtRaw
    <3> QED BY <2>1, <3>1, <3>2, <3>3, <3>4, <3>5 DEF Kinds
  <2> QED BY <1>2, <2>1, <2>2, <2>3 DEF CodeAt
<1> QED BY <1>1, <1>2

\* What holds in the text of token t.
Within(n, t) == /\ Sound /\ n \in DOMAIN tokens /\ t = tokens[n]
                /\ mode \in Text
                /\ TextAt(t, index, segment_start, mode, depth, escaped)
                /\ Collected = TextBefore(n) \cup LinesBefore(t, segment_start)
                /\ Ordered(spans, segment_start)

LEMMA WithinFacts ==
  ASSUME NEW n, NEW t, Within(n, t)
  PROVE  /\ t.from \in Nat /\ t.text \in Nat /\ t.end \in Nat /\ t.to \in Nat /\ t.hashes \in Nat
         /\ t.from < t.to /\ t.from <= t.text /\ t.text <= t.end /\ t.end <= t.to /\ t.to <= End
         /\ t.text <= segment_start /\ segment_start <= index /\ index <= t.end
         /\ segment_start = t.text \/ At(segment_start - 1) = "nl"
         /\ index \in Nat /\ segment_start \in Nat /\ segment_line \in Nat /\ End \in Nat
         /\ TypeOK /\ Tokenised /\ WellFormed(src) /\ spans \in Seq(Spans)
         /\ segment_line = LineOf(segment_start) /\ NoNewline(segment_start, index)
         /\ ~Has(index, "lo") /\ index <= End /\ n \in Nat /\ n >= 1
         /\ HoldsText(t)
<1>1. Sound /\ n \in DOMAIN tokens /\ t = tokens[n]
  BY DEF Within
<1>2. /\ t.from \in Nat /\ t.text \in Nat /\ t.end \in Nat /\ t.to \in Nat /\ t.hashes \in Nat
      /\ t.from < t.to /\ t.from <= t.text /\ t.text <= t.end /\ t.end <= t.to /\ t.to <= End
  BY <1>1, TokenFacts DEF Sound
<1>3. /\ t.text <= segment_start /\ segment_start <= index /\ index <= t.end
      /\ segment_start = t.text \/ At(segment_start - 1) = "nl"
      /\ HoldsText(t)
  BY DEF Within, TextAt, Has, HoldsText
<1>4. /\ TypeOK /\ Tokenised /\ WellFormed(src) /\ spans \in Seq(Spans) /\ End \in Nat
      /\ index \in Nat /\ segment_start \in Nat /\ segment_line \in Nat
      /\ segment_line = LineOf(segment_start) /\ NoNewline(segment_start, index)
      /\ ~Has(index, "lo") /\ index <= End
  BY <1>1, EndType DEF Within, Sound, TypeOK, LinesRight, SlicesLegal, Boundary
<1>5. n \in Nat /\ n >= 1
  BY <1>1, NextTokenPlace DEF Sound
<1> QED BY <1>2, <1>3, <1>4, <1>5

\* The last line of the text is collected.
LEMMA TextEnded ==
  ASSUME NEW n, NEW t, Within(n, t), index = t.end,
         spans' = Pushed(segment_line, segment_start, index), NEW i \in Nat, index <= i
  PROVE  Set(spans') = TextBefore(n + 1) /\ Ordered(spans', i)
<1>0. /\ t.text \in Nat /\ t.end \in Nat /\ spans \in Seq(Spans) /\ n \in Nat /\ n >= 1
      /\ index \in Nat /\ segment_start \in Nat /\ segment_line \in Nat
      /\ t.text <= segment_start /\ segment_start <= index
      /\ segment_start = t.text \/ At(segment_start - 1) = "nl"
      /\ segment_line = LineOf(segment_start) /\ NoNewline(segment_start, index)
      /\ HoldsText(t)
  BY WithinFacts
<1>1. TextLines(t.text, t.end) = LinesBefore(t, segment_start) \cup LineSet(segment_start, index)
  BY <1>0, LastLine
<1>2. Set(spans') = Collected \cup LineSet(segment_start, index)
  BY <1>0, CollectPush
<1>3. TextBefore(n + 1) = TextBefore(n) \cup TextLines(t.text, t.end)
  BY <1>0, TextBeforeNext DEF Within
<1>4. Ordered(spans', i)
  BY <1>0, OrderedPush DEF Within
<1> QED BY <1>1, <1>2, <1>3, <1>4 DEF Within

LEMMA WhenEnded ==
  ASSUME NEW n, NEW t, Within(n, t), index = t.end, Ended(t.to)
  PROVE  NextSynced
<1>0. t.to \in Nat /\ index <= t.to /\ Tokenised
  BY WithinFacts
<1>1. mode' = "Code" /\ index' = t.to /\ spans' = Pushed(segment_line, segment_start, index)
  BY DEF Ended
<1>2. Set(spans') = TextBefore(n + 1) /\ Ordered(spans', t.to)
  BY <1>0, <1>1, TextEnded
<1> QED BY <1>0, <1>1, <1>2, Reached DEF Within

\* The file ends in the text.
LEMMA WhenFinished ==
  ASSUME NEW n, NEW t, Within(n, t), index = End, Next
  PROVE  NextSynced
<1>0. /\ t.end <= t.to /\ t.to <= End /\ index <= t.end /\ index \in Nat /\ t.end \in Nat
      /\ t.to \in Nat /\ Tokenised /\ TypeOK /\ n \in DOMAIN tokens /\ t = tokens[n]
      /\ mode \in Text
  BY WithinFacts DEF Within
<1>1. index = t.end /\ t.to = End
  BY <1>0
<1>2. mode' = "done" /\ index' = index /\ spans' = Pushed(segment_line, segment_start, index)
  BY <1>0, FinishStep DEF Text
<1>3. Set(spans') = TextBefore(n + 1) /\ Ordered(spans', index)
  BY <1>0, <1>1, <1>2, TextEnded
<1>4. n + 1 = Len(tokens) + 1
  <2>1. n + 1 \notin DOMAIN tokens
    <3> SUFFICES ASSUME n + 1 \in DOMAIN tokens PROVE FALSE
      OBVIOUS
    <3>1. tokens[n + 1].from = End
      BY <1>0, <1>1, TokenFacts DEF Start
    <3>2. tokens[n + 1].from < tokens[n + 1].to /\ tokens[n + 1].to <= End /\ tokens[n + 1].to \in Nat
      BY <1>0, TokenFacts
    <3> QED BY <3>1, <3>2, <1>0
  <2>2. DOMAIN tokens = 1 .. Len(tokens) /\ Len(tokens) \in Nat
    BY <1>0 DEF Tokenised
  <2> QED BY <1>0, <2>1, <2>2
<1> QED BY <1>2, <1>3, <1>4 DEF NextSynced, TokenText, Text

\* A line of the text ends.
LEMMA WhenNewline ==
  ASSUME NEW n, NEW t, Within(n, t), Has(index, "nl"), index < t.end, Next
  PROVE  NextSynced
<1>0. /\ t.from \in Nat /\ t.text \in Nat /\ t.end \in Nat /\ t.to \in Nat /\ t.end <= t.to
      /\ spans \in Seq(Spans) /\ t.from <= t.text
      /\ index \in Nat /\ segment_start \in Nat /\ segment_line \in Nat
      /\ t.text <= segment_start /\ segment_start <= index
      /\ segment_start = t.text \/ At(segment_start - 1) = "nl"
      /\ segment_line = LineOf(segment_start) /\ NoNewline(segment_start, index)
      /\ TypeOK /\ Tokenised /\ At(index) = "nl"
  BY WithinFacts DEF Has
<1>1. NewLine
  BY <1>0, TextNewlineStep DEF Within
<1>2. LinesBefore(t, index + 1) = LinesBefore(t, segment_start) \cup LineSet(segment_start, index)
  BY <1>0, LineFrom DEF LinesBefore
<1>3. Set(spans') = TextBefore(n) \cup LinesBefore(t, segment_start')
  <2>1. Set(spans') = Collected \cup LineSet(segment_start, index)
    BY <1>0, <1>1, CollectPush DEF NewLine
  <2> QED BY <1>1, <1>2, <2>1 DEF Within, NewLine
<1>4. Ordered(spans', segment_start')
  BY <1>0, <1>1, OrderedPush DEF Within, NewLine
<1>5. index \in t.from .. t.to - 1 /\ ~StartsWith(index, "/", "*") /\ ~StartsWith(index, "*", "/")
  BY <1>0 DEF StartsWith, Has
<1>6. ~Marks(t)[index] /\ Level(t, index + 1) = Level(t, index)
  <2>1. ~Marks(t)[index]
    BY <1>0, <1>5, MarksRead
  <2> QED BY <1>0, <2>1, LevelStep
<1>7. ~IsEscaped(t, index + 1)
  <2>1. index \in t.text .. t.to - 1
    BY <1>0
  <2>2. ~Escapes(t)[index]
    BY <1>0, <2>1, EscapesRead
  <2> QED BY <1>0, <2>2 DEF IsEscaped
<1>8. TextAt(t, index', segment_start', mode', depth', escaped')
  <2>1. /\ mode' = mode /\ index' = index + 1 /\ segment_start' = index + 1
        /\ depth' = depth /\ escaped' = FALSE
    BY <1>1 DEF NewLine
  <2>2. t.text <= index + 1 /\ index + 1 <= t.end /\ Has((index + 1) - 1, "nl") /\ (index + 1) - 1 = index
    BY <1>0
  <2> QED BY <2>1, <2>2, <1>6, <1>7 DEF Within, TextAt
<1> QED BY <1>1, <1>3, <1>4, <1>8 DEF NextSynced, NewLine, Within, Text

\* The text goes on.
LEMMA WhenAlong ==
  ASSUME NEW n, NEW t, Within(n, t), NEW i \in Nat, Along(i), index <= i, i <= t.end,
         \/ mode = "BlockComment" /\ depth' = Level(t, i) /\ ~Marks(t)[i - 1]
         \/ mode = "String" /\ (escaped' <=> IsEscaped(t, i))
         \/ mode = "RawString" /\ depth' = depth
  PROVE  NextSynced
<1>0. index \in Nat /\ segment_start \in Nat /\ segment_start <= index
  BY WithinFacts
<1>1. mode' = mode /\ spans' = spans /\ segment_start' = segment_start /\ index' = i
  BY DEF Along
<1>2. TextAt(t, index', segment_start', mode', depth', escaped')
  BY <1>0, <1>1 DEF Within, TextAt
<1>3. Set(spans') = TextBefore(n) \cup LinesBefore(t, segment_start')
  BY <1>1 DEF Within, Set, Collected
<1> QED BY <1>1, <1>2, <1>3 DEF NextSynced, Within, Text

LEMMA InBlock ==
  ASSUME NEW n, NEW t, Within(n, t), mode = "BlockComment", index < End, Next
  PROVE  NextSynced
<1>0. /\ t.from \in Nat /\ t.text \in Nat /\ t.end \in Nat /\ t.to \in Nat /\ t.to <= End
      /\ t.text <= index /\ index <= t.end /\ t.end <= t.to /\ index \in Nat /\ End \in Nat
      /\ TypeOK /\ Tokenised /\ WellFormed(src)
  BY WithinFacts
<1>1. t.kind = "block" /\ depth = Level(t, index) /\ ~Marks(t)[index - 1]
  BY DEF Within, TextAt
<1>2. IsBlock(t)
  BY <1>0, <1>1, TokenFacts, KindFacts DEF Within
<1>3. t.text = t.from + 2
  BY <1>2 DEF IsBlock
<1>4. \A k \in t.text .. t.to - 1 :
        Marks(t)[k] <=> (StartsWith(k, "/", "*") \/ StartsWith(k, "*", "/")) /\ ~Marks(t)[k - 1]
  <2>1. \A k \in t.text .. t.to - 1 : k \in t.from .. t.to - 1 /\ k > t.from
    BY <1>0, <1>3
  <2> QED BY <1>0, <2>1, MarksRead
<1>5. CASE index = t.end
  <2>1. t.to = t.end + 2 /\ Marks(t)[t.end] /\ At(t.end) = "*" /\ Level(t, t.end) = 1
    BY <1>0, <1>2, <1>5 DEF IsBlock
  <2>2. StartsWith(index, "*", "/")
    BY <1>0, <1>4, <1>5, <2>1 DEF StartsWith, Has
  <2>3. Ended(t.to)
    BY <1>0, <1>1, <1>5, <2>1, <2>2, InBlockStep
  <2> QED BY <1>5, <2>3, WhenEnded
<1>6. CASE index < t.end /\ At(index) = "nl"
  BY <1>6, WhenNewline DEF Has
<1>7. CASE index < t.end /\ At(index) # "nl"
  <2>0. index \in t.text .. t.to - 1
    BY <1>0, <1>7
  <2>1. CASE Marks(t)[index]
    <3>1. (StartsWith(index, "/", "*") \/ StartsWith(index, "*", "/")) /\ index + 1 < End
      BY <1>4, <2>0, <2>1 DEF StartsWith, Has
    <3>2. index + 1 < t.end
      <4>1. CASE t.end = index + 1
        <5>1. Marks(t)[index + 1] /\ index + 1 \in t.text .. t.to - 1
          BY <1>0, <1>2, <3>1, <4>1 DEF IsBlock
        <5> QED BY <1>4, <2>0, <2>1, <5>1
      <4> QED BY <1>0, <1>7, <4>1
    <3>3. ~Marks(t)[index + 1]
      <4>1. index + 1 \in t.text .. t.to - 1 /\ (index + 1) - 1 = index
        BY <1>0, <3>2
      <4> QED BY <1>4, <2>1, <4>1
    <3>4. Level(t, (index + 1) + 1) = Level(t, index + 1)
      BY <1>0, <1>3, <3>3, LevelStep
    <3>5. (index + 1) + 1 = index + 2 /\ (index + 2) - 1 = index + 1 /\ index + 2 \in Nat
      BY <1>0
    <3>6. CASE StartsWith(index, "/", "*")
      <4>1. Level(t, index + 1) = Level(t, index) + 1
        BY <1>0, <1>3, <2>1, <3>6, LevelStep DEF StartsWith, Has
      <4>2. Along(index + 2) /\ depth' = depth + 1
        BY <1>0, <1>7, <3>6, InBlockStep
      <4>3. depth' = Level(t, index + 2)
        BY <1>1, <3>4, <3>5, <4>1, <4>2
      <4> QED BY <1>0, <3>2, <3>3, <3>5, <4>2, <4>3, WhenAlong
    <3>7. CASE StartsWith(index, "*", "/")
      <4>1. Level(t, index + 1) = Level(t, index) - 1 /\ Level(t, index) \in Int
        BY <1>0, <1>3, <2>1, <3>7, LevelStep DEF StartsWith, Has
      <4>2. Level(t, index + 1) > 0
        BY <1>0, <1>2, <3>2 DEF IsBlock
      <4>3. Along(index + 2) /\ depth' = depth - 1
        BY <1>0, <1>1, <1>7, <3>7, <4>1, <4>2, InBlockStep
      <4>4. depth' = Level(t, index + 2)
        BY <1>1, <3>4, <3>5, <4>1, <4>3
      <4> QED BY <1>0, <3>2, <3>3, <3>5, <4>3, <4>4, WhenAlong
    <3> QED BY <3>1, <3>6, <3>7
  <2>2. CASE ~Marks(t)[index]
    <3> DEFINE i == index + CharLen(index)
    <3>1. ~StartsWith(index, "/", "*") /\ ~StartsWith(index, "*", "/")
      BY <1>1, <1>4, <2>0, <2>2
    <3>2. Along(i) /\ depth' = depth
      BY <1>0, <1>7, <3>1, InBlockStep
    <3>3. ~Has(t.end, "lo")
      BY <1>0, <1>2 DEF IsBlock, Has
    <3>4. i <= t.end /\ (i = index + 1 \/ (i = index + 2 /\ At(index) = "hi" /\ At(index + 1) = "lo"))
      BY <1>0, <1>7, <3>3, CharBefore
    <3>5. Level(t, index + 1) = Level(t, index)
      BY <1>0, <1>3, <2>2, LevelStep
    <3> HIDE DEF i
    <3>6. CASE i = index + 1
      <4>1. depth' = Level(t, i) /\ ~Marks(t)[i - 1]
        BY <1>0, <1>1, <2>2, <3>2, <3>5, <3>6, (index + 1) - 1 = index
      <4> QED BY <1>0, <3>2, <3>4, <3>6, <4>1, WhenAlong
    <3>7. CASE i = index + 2 /\ At(index + 1) = "lo"
      <4>1. ~Marks(t)[index + 1]
        <5>1. index + 1 \in t.text .. t.to - 1
          BY <1>0, <3>4, <3>7
        <5>2. ~StartsWith(index + 1, "/", "*") /\ ~StartsWith(index + 1, "*", "/")
          BY <3>7 DEF StartsWith, Has
        <5> QED BY <1>4, <5>1, <5>2
      <4>2. Level(t, (index + 1) + 1) = Level(t, index + 1)
        BY <1>0, <1>3, <4>1, LevelStep
      <4>3. i - 1 = index + 1 /\ i = (index + 1) + 1 /\ i \in Nat /\ index <= i
        BY <1>0, <3>7
      <4>4. depth' = Level(t, i) /\ ~Marks(t)[i - 1]
        BY <1>1, <3>2, <3>5, <4>1, <4>2, <4>3
      <4> QED BY <3>2, <3>4, <4>3, <4>4, WhenAlong
    <3> QED BY <3>4, <3>6, <3>7
  <2> QED BY <2>1, <2>2
<1> QED BY <1>0, <1>5, <1>6, <1>7

LEMMA InString ==
  ASSUME NEW n, NEW t, Within(n, t), mode = "String", index < End, Next
  PROVE  NextSynced
<1>0. /\ t.from \in Nat /\ t.text \in Nat /\ t.end \in Nat /\ t.to \in Nat /\ t.to <= End
      /\ t.text <= index /\ index <= t.end /\ t.end <= t.to /\ index \in Nat /\ End \in Nat
      /\ TypeOK /\ Tokenised /\ WellFormed(src)
  BY WithinFacts
<1>1. t.kind = "string" /\ (escaped <=> IsEscaped(t, index))
  BY DEF Within, TextAt
<1>2. IsString(t)
  BY <1>0, <1>1, TokenFacts, KindFacts DEF Within
<1>3. CASE index = t.end
  <2>1. t.to = t.end + 1 /\ Has(t.end, "dq") /\ ~IsEscaped(t, t.end)
    BY <1>0, <1>2, <1>3 DEF IsString
  <2>2. Ended(t.to)
    BY <1>0, <1>1, <1>3, <2>1, InStringStep DEF Has
  <2> QED BY <1>3, <2>2, WhenEnded
<1>4. CASE index < t.end /\ At(index) = "nl"
  BY <1>4, WhenNewline DEF Has
<1>5. CASE index < t.end /\ At(index) # "nl"
  <2> DEFINE i == index + CharLen(index)
  <2>0. index \in t.text .. t.to - 1 /\ index \in t.text .. t.end - 1
    BY <1>0, <1>5
  <2>1. ~Has(t.end, "lo")
    BY <1>0, <1>2 DEF IsString, Has
  <2>2. i <= t.end /\ (i = index + 1 \/ (i = index + 2 /\ At(index) = "hi" /\ At(index + 1) = "lo"))
    BY <1>0, <1>5, <2>1, CharBefore
  <2>3. At(index) = "bs" => i = index + 1
    BY <2>2
  <2>4. Escapes(t)[index] <=> At(index) = "bs" /\ ~IsEscaped(t, index)
    <3>1. Escapes(t)[index] = (At(index) = "bs" /\ (index > t.text => ~Escapes(t)[index - 1]))
      BY <1>0, <2>0, EscapesRead
    <3> QED BY <1>0, <3>1 DEF IsEscaped
  <2>5. IsEscaped(t, index + 1) <=> At(index) = "bs" /\ ~escaped
    <3>1. index + 1 > t.text /\ (index + 1) - 1 = index
      BY <1>0
    <3> QED BY <1>1, <2>4, <3>1 DEF IsEscaped
  <2>6. i = index + 2 => ~IsEscaped(t, i)
    <3> SUFFICES ASSUME i = index + 2 PROVE ~IsEscaped(t, i)
      OBVIOUS
    <3>1. At(index + 1) = "lo" /\ index + 1 \in t.text .. t.to - 1 /\ i - 1 = index + 1
      BY <1>0, <2>2
    <3>2. ~Escapes(t)[index + 1]
      BY <1>0, <3>1, EscapesRead
    <3> QED BY <3>1, <3>2 DEF IsEscaped
  <2>7. Along(i) /\ (escaped' <=> At(index) = "bs" /\ ~escaped)
    <3>1. escaped \in BOOLEAN
      BY <1>0 DEF TypeOK
    <3>2. CASE escaped
      BY <1>0, <1>5, <3>2, InStringStep
    <3>3. CASE ~escaped /\ At(index) = "bs"
      BY <1>0, <1>5, <2>3, <3>3, InStringStep
    <3>4. CASE ~escaped /\ At(index) # "bs"
      <4>1. At(index) # "dq"
        BY <1>1, <1>2, <2>0, <3>4 DEF IsString
      <4> QED BY <1>0, <1>5, <3>4, <4>1, InStringStep
    <3> QED BY <3>1, <3>2, <3>3, <3>4
  <2>8. i \in Nat /\ index <= i
    BY <1>0, <2>2
  <2> HIDE DEF i
  <2>9. escaped' <=> IsEscaped(t, i)
    BY <2>2, <2>5, <2>6, <2>7
  <2> QED BY <2>2, <2>7, <2>8, <2>9, WhenAlong
<1> QED BY <1>0, <1>3, <1>4, <1>5

LEMMA InRaw ==
  ASSUME NEW n, NEW t, Within(n, t), mode = "RawString", index < End, Next
  PROVE  NextSynced
<1>0. /\ t.from \in Nat /\ t.text \in Nat /\ t.end \in Nat /\ t.to \in Nat /\ t.to <= End
      /\ t.text <= index /\ index <= t.end /\ t.end <= t.to /\ index \in Nat /\ End \in Nat
      /\ TypeOK /\ Tokenised /\ WellFormed(src) /\ t.hashes \in Nat
  BY WithinFacts
<1>1. t.kind = "raw" /\ depth = t.hashes
  BY DEF Within, TextAt
<1>2. IsRaw(t)
  BY <1>0, <1>1, TokenFacts, KindFacts DEF Within
<1>3. RawCloses(index, depth) <=> QuoteAndHashes(index, t.hashes)
  <2>1. ASSUME \A k \in 1 .. depth : Has(index + k, "#"), NEW j \in index + 1 .. index + depth
        PROVE  Has(j, "#")
    <3>1. j - index \in 1 .. depth /\ index + (j - index) = j
      BY <1>0, <1>1
    <3> QED BY <2>1, <3>1
  <2>2. ASSUME \A j \in index + 1 .. index + depth : Has(j, "#"), NEW k \in 1 .. depth
        PROVE  Has(index + k, "#")
    <3>1. index + k \in index + 1 .. index + depth
      BY <1>0, <1>1
    <3> QED BY <2>2, <3>1
  <2> QED BY <1>1, <2>1, <2>2 DEF RawCloses, QuoteAndHashes
<1>4. CASE index = t.end
  <2>1. t.to = t.end + 1 + t.hashes /\ QuoteAndHashes(t.end, t.hashes)
    BY <1>0, <1>2, <1>4 DEF IsRaw
  <2>2. At(index) # "nl"
    BY <1>4, <2>1 DEF QuoteAndHashes, Has
  <2>3. Ended(t.to)
    BY <1>0, <1>1, <1>3, <1>4, <2>1, <2>2, InRawStep
  <2> QED BY <1>4, <2>3, WhenEnded
<1>5. CASE index < t.end /\ At(index) = "nl"
  BY <1>5, WhenNewline DEF Has
<1>6. CASE index < t.end /\ At(index) # "nl"
  <2> DEFINE i == index + CharLen(index)
  <2>1. ~Has(t.end, "lo")
    BY <1>0, <1>2 DEF IsRaw, QuoteAndHashes, Has
  <2>2. i <= t.end /\ (i = index + 1 \/ i = index + 2)
    BY <1>0, <1>6, <2>1, CharBefore
  <2>3. ~QuoteAndHashes(index, t.hashes)
    BY <1>0, <1>2, <1>6 DEF IsRaw
  <2>4. Along(i) /\ depth' = depth
    BY <1>0, <1>3, <1>6, <2>3, InRawStep
  <2> QED BY <1>0, <2>2, <2>4, WhenAlong
<1> QED BY <1>0, <1>4, <1>5, <1>6

LEMMA TextStep ==
  ASSUME NEW n, NEW t, Within(n, t), Next
  PROVE  NextSynced
<1>1. index <= End /\ index \in Nat /\ End \in Nat /\ mode \in Text
  BY WithinFacts DEF Within
<1>2. CASE index = End
  BY <1>2, WhenFinished
<1>3. CASE index < End
  BY <1>1, <1>3, InBlock, InString, InRaw DEF Text
<1> QED BY <1>1, <1>2, <1>3

LEMMA NextKeepsFile == [Next /\ UNCHANGED tokens]_<<vars, tokens>> => src' = src /\ tokens' = tokens
BY DEF Next, vars, segment, CodeNewline, LineComment, BlockComment, RawString, String,
   CharLiteral, OtherCode, TextNewline, Deepen, CommentEnd, CommentText, Escaped,
   Backslash, StringEnd, StringText, RawEnd, RawText, Finish, Open, Close, Skip

LEMMA DoneStays == ASSUME mode = "done", TypeOK, Next PROVE FALSE
BY DEF Next, CodeNewline, LineComment, BlockComment, RawString, String,
   CharLiteral, OtherCode, InCode, TextNewline, Deepen, CommentEnd, CommentText, Escaped,
   Backslash, StringEnd, StringText, RawEnd, RawText, Finish, Text

LEMMA SyncedStep ==
  Sound /\ TextSynced /\ [Next /\ UNCHANGED tokens]_<<vars, tokens>> => TextSynced'
<1> SUFFICES ASSUME Sound, TextSynced, [Next /\ UNCHANGED tokens]_<<vars, tokens>>, LifetimeFree
             PROVE  NextSynced
  BY NextKeepsFile, SameFile
<1>1. CASE UNCHANGED <<vars, tokens>>
  <2>1. /\ UNCHANGED <<index, mode, depth, escaped, segment_start, spans>>
    BY <1>1 DEF vars
  <2>2. Set(spans') = Collected
    BY <2>1 DEF Set, Collected
  <2> QED BY <2>1, <2>2 DEF TextSynced, NextSynced
<1>2. CASE Next
  <2>1. CASE mode = "Code"
    <3>1. PICK n \in 1 .. Len(tokens) + 1 : CodeAt(n, index, Collected)
      BY <2>1 DEF TextSynced
    <3>2. Ordered(spans, index)
      BY <2>1 DEF TextSynced, Text
    <3> QED BY <1>2, <2>1, <3>1, <3>2, CodeStep
  <2>2. CASE mode \in Text
    <3>1. PICK n \in DOMAIN tokens :
            /\ TextAt(tokens[n], index, segment_start, mode, depth, escaped)
            /\ Collected = TextBefore(n) \cup LinesBefore(tokens[n], segment_start)
      BY <2>2 DEF TextSynced
    <3>2. Ordered(spans, segment_start)
      BY <2>2 DEF TextSynced
    <3>3. Within(n, tokens[n])
      BY <2>2, <3>1, <3>2 DEF Within
    <3> QED BY <1>2, <3>3, TextStep
  <2>3. CASE mode = "done"
    BY <1>2, <2>3, DoneStays DEF Sound
  <2> QED BY <2>1, <2>2, <2>3 DEF Sound, TypeOK, Modes
<1> QED BY <1>1, <1>2

LEMMA SyncedInit == TokenInit => TextSynced
<1> SUFFICES ASSUME TokenInit PROVE TextSynced
  OBVIOUS
<1>1. mode = "Code" /\ index = 0 /\ spans = <<>> /\ Start(1) = 0 /\ Len(tokens) \in Nat
  BY DEF TokenInit, Init, Tokenised
<1>2. Collected = TextBefore(1)
  BY <1>1, TextBeforeFirst DEF Collected
<1>3. CodeAt(1, index, Collected) /\ 1 \in 1 .. Len(tokens) + 1
  BY <1>1, <1>2 DEF CodeAt
<1>4. Ordered(spans, 0)
  BY <1>1 DEF Ordered
<1> QED BY <1>1, <1>3, <1>4 DEF TextSynced, Text

LEMMA TokenisedStep ==
  Tokenised /\ [Next /\ UNCHANGED tokens]_<<vars, tokens>> => Tokenised'
<1> SUFFICES ASSUME Tokenised, src' = src, tokens' = tokens PROVE Tokenised'
  BY NextKeepsFile
<1>1. \A n : Start(n)' = Start(n)
  BY SameBytes DEF Start
<1>2. \A i : Boundary(i)' = Boundary(i)
  BY SameBytes DEF Boundary
<1>3. \A t, b : Quoted(t, b)' = Quoted(t, b)
  BY SameBytes DEF Quoted
<1>4. \A t : IsWord(t)' <=> IsWord(t)
  BY SameBytes DEF IsWord
<1>5. \A t : IsChar(t)' <=> IsChar(t)
  BY SameBytes, <1>3 DEF IsChar
<1>6. \A t : IsLifetime(t)' <=> IsLifetime(t)
  BY SameBytes DEF IsLifetime
<1>7. \A t : IsLine(t)' <=> IsLine(t)
  BY SameBytes DEF IsLine
<1>8. \A t : IsBlock(t)' <=> IsBlock(t)
  BY SameBytes DEF IsBlock
<1>9. \A t : IsString(t)' <=> IsString(t)
  BY SameBytes, <1>3 DEF IsString
<1>10. \A t : IsRaw(t)' <=> IsRaw(t)
  BY SameBytes DEF IsRaw, QuoteAndHashes
<1>11. \A t : Is(t)' <=> Is(t)
  BY <1>4, <1>5, <1>6, <1>7, <1>8, <1>9, <1>10 DEF Is
<1> QED BY <1>1, <1>2, <1>11 DEF Tokenised

\* What is collected of a file is the text of its comments and strings, each line of it once
\* and in order, for every file without lifetimes, however many tokens it has.
THEOREM TextIsCollected == TokenSpec => []SpansAreText
<1> DEFINE Step == [Next /\ UNCHANGED tokens]_<<vars, tokens>>
           Inv == Sound /\ TextSynced
<1>1. TokenInit => Inv
  BY TypeInit, SlicesInit, LinesInit, SyncedInit DEF TokenInit, Sound
<1>2. Inv /\ Step => Inv'
  <2>1. Step => [Next]_vars
    OBVIOUS
  <2> QED BY <2>1, TypeStep, SlicesStep, LinesStep, SyncedStep, TokenisedStep DEF Sound
<1>3. Inv => SpansAreText
  BY DEF TextSynced, SpansAreText, TextIsExact, Ordered
<1> QED BY <1>1, <1>2, <1>3, PTL DEF TokenSpec

-----------------------------------------------------------------------------
(* The stripper of comments.                                               *)

Reader(f, bytes, n) ==
    f = [i \in 0 .. n |-> IF i = 0 THEN Stripper!Start ELSE Stripper!Step(bytes, f[i - 1], i)]

LEMMA ReaderExists ==
  ASSUME NEW bytes
  PROVE  \A n \in Nat : \E f : Reader(f, bytes, n)
<1> DEFINE S == {n \in Nat : \E f : Reader(f, bytes, n)}
           Do(s, i) == Stripper!Step(bytes, s, i)
           Begin == Stripper!Start
<1>0. \A f, n : Reader(f, bytes, n) <=> f = [i \in 0 .. n |-> IF i = 0 THEN Begin ELSE Do(f[i - 1], i)]
  BY DEF Reader
<1> HIDE DEF Do, Begin
<1>1. 0 \in S
  <2> DEFINE f == [i \in 0 .. 0 |-> Begin]
  <2>1. \A i \in 0 .. 0 : i = 0
    OBVIOUS
  <2>2. f = [i \in 0 .. 0 |-> IF i = 0 THEN Begin ELSE Do(f[i - 1], i)]
    BY <2>1
  <2> QED BY <1>0, <2>2
<1>2. ASSUME NEW n \in Nat, n \in S PROVE n + 1 \in S
  <2>1. PICK f : Reader(f, bytes, n)
    BY <1>2
  <2> DEFINE g == [i \in 0 .. n + 1 |-> IF i = 0 THEN Begin ELSE Do(f[i - 1], i)]
  <2>2. f = [i \in 0 .. n |-> IF i = 0 THEN Begin ELSE Do(f[i - 1], i)]
    BY <1>0, <2>1
  <2>3. \A i \in 0 .. n : f[i] = IF i = 0 THEN Begin ELSE Do(f[i - 1], i)
    BY <2>2
  <2>4. \A i \in 0 .. n : g[i] = f[i]
    BY <2>3
  <2>5. \A i \in 0 .. n + 1 : i # 0 => i - 1 \in 0 .. n
    OBVIOUS
  <2>6. g = [i \in 0 .. n + 1 |-> IF i = 0 THEN Begin ELSE Do(g[i - 1], i)]
    <3> DEFINE h == [i \in 0 .. n + 1 |-> IF i = 0 THEN Begin ELSE Do(g[i - 1], i)]
    <3>1. ASSUME NEW i \in 0 .. n + 1
          PROVE  (IF i = 0 THEN Begin ELSE Do(f[i - 1], i)) = (IF i = 0 THEN Begin ELSE Do(g[i - 1], i))
      BY <2>4, <2>5
    <3>2. g = h
      BY <3>1
    <3> QED BY <3>2
  <2>7. Reader(g, bytes, n + 1)
    BY <1>0, <2>6
  <2> QED BY <2>7
<1> HIDE DEF S
<1>3. \A n \in Nat : n \in S
  BY <1>1, <1>2, Induction
<1> QED BY <1>3 DEF S

\* What the stripper is in before byte k of the file.
Read(k) == Stripper!Reading(src)[k]

LEMMA ReadingWorks ==
  ASSUME End \in Nat
  PROVE  /\ Read(0) = Stripper!Start
         /\ \A k \in 0 .. End - 1 : Read(k + 1) = Stripper!Step(src, Read(k), k + 1)
<1> DEFINE f == Stripper!Reading(src)
<1>1. \E g : Reader(g, src, End)
  BY ReaderExists
<1>2. f = CHOOSE g : Reader(g, src, End)
  BY DEF Stripper!Reading, Reader, End
<1>3. Reader(f, src, End)
  BY <1>1, <1>2, Zenon
<1> HIDE DEF f
<1> DEFINE Do(s, i) == Stripper!Step(src, s, i)
<1>4. f = [i \in 0 .. End |-> IF i = 0 THEN Stripper!Start ELSE Do(f[i - 1], i)]
  BY <1>3 DEF Reader
<1> HIDE DEF Do
<1>5. f[0] = Stripper!Start
  BY <1>4
<1>6. ASSUME NEW k \in 0 .. End - 1 PROVE f[k + 1] = Do(f[k], k + 1)
  <2>1. k + 1 \in 0 .. End /\ k + 1 # 0 /\ (k + 1) - 1 = k
    OBVIOUS
  <2> QED BY <1>4, <2>1
<1> QED BY <1>5, <1>6 DEF Do, f, Read

\* What the stripper can be in.
State == [in : {"code", "note", "block", "sq", "dq", "bt"}, escaped : BOOLEAN,
          consumed : BOOLEAN, kept : SUBSET Nat]

LEMMA StartIs == /\ Stripper!Start \in State
                 /\ Stripper!Start.in = "code" /\ ~Stripper!Start.escaped
                 /\ ~Stripper!Start.consumed /\ Stripper!Start.kept = {}
BY DEF Stripper!Start, State

\* A step of the stripper, field by field.
LEMMA StripperStep ==
  ASSUME WellFormed(src), NEW k \in Nat, k < End, NEW s \in State,
         NEW r, r = Stripper!Step(src, s, k + 1)
  PROVE  /\ r \in State
         /\ At(k) = "nl" =>
              /\ r.kept = s.kept /\ ~r.escaped /\ ~r.consumed
              /\ r.in = IF s.in = "block" THEN "block" ELSE "code"
         /\ At(k) # "nl" /\ s.consumed =>
              r.in = s.in /\ (r.escaped <=> s.escaped) /\ ~r.consumed /\ r.kept = s.kept
         /\ At(k) # "nl" /\ ~s.consumed /\ s.in = "block" =>
              /\ r.kept = s.kept /\ (r.escaped <=> s.escaped)
              /\ r.consumed <=> StartsWith(k, "*", "/")
              /\ r.in = IF StartsWith(k, "*", "/") THEN "code" ELSE "block"
         /\ At(k) # "nl" /\ ~s.consumed /\ s.in = "note" => r = s
         /\ At(k) # "nl" /\ ~s.consumed /\ s.in \in {"sq", "dq"} =>
              /\ r.kept = s.kept \cup {k + 1} /\ ~r.consumed
              /\ (r.escaped <=> ~s.escaped /\ At(k) = "bs")
              /\ r.in = IF ~s.escaped /\ At(k) = s.in THEN "code" ELSE s.in
         /\ At(k) # "nl" /\ ~s.consumed /\ s.in = "code" =>
              /\ (r.escaped <=> s.escaped)
              /\ StartsWith(k, "/", "/") => r.in = "note" /\ ~r.consumed /\ r.kept = s.kept
              /\ StartsWith(k, "/", "*") => r.in = "block" /\ r.consumed /\ r.kept = s.kept
              /\ ~StartsWith(k, "/", "/") /\ ~StartsWith(k, "/", "*") =>
                   /\ r.kept = s.kept \cup {k + 1} /\ ~r.consumed
                   /\ r.in = IF At(k) \in {"sq", "dq"} THEN At(k) ELSE "code"
<1> DEFINE b == src[k + 1]
           peek == IF k + 1 = Len(src) THEN "nl" ELSE src[(k + 1) + 1]
<1>1. /\ At(k) = b /\ b \in Byte
      /\ \A x : StartsWith(k, x, "/") <=> b = x /\ peek = "/"
      /\ \A x : StartsWith(k, x, "*") <=> b = x /\ peek = "*"
  <2>1. src \in Seq(Byte) /\ k + 1 \in 1 .. Len(src)
    BY DEF WellFormed, End
  <2>2. Len(src) \in Nat
    BY <2>1
  <2>3. At(k) = b /\ b \in Byte
    BY <2>1 DEF At
  <2>4. ASSUME NEW x, NEW c, c # "nl" PROVE StartsWith(k, x, c) <=> b = x /\ peek = c
    BY <2>1, <2>2, <2>4 DEF StartsWith, Has, At, End
  <2> QED BY <2>3, <2>4
<1>2. r = CASE b = "nl" -> Stripper!AtLineEnd(s)
            [] b # "nl" /\ s.consumed -> [s EXCEPT !.consumed = FALSE]
            [] OTHER -> CASE s.in = "block" -> Stripper!InBlock(s, b, peek)
                          [] s.in = "note" -> s
                          [] s.in \in Stripper!Quotes -> Stripper!InQuote(s, k + 1, b)
                          [] OTHER -> Stripper!InCode(s, k + 1, b, peek)
  BY DEF Stripper!Step
<1>3. b # "bt"
  BY <1>1 DEF Byte
<1> HIDE DEF b, peek
<1>4. CASE b = "nl"
  <2>1. r = [s EXCEPT !.in = IF s.in = "block" THEN "block" ELSE "code",
                      !.escaped = FALSE, !.consumed = FALSE]
    BY <1>2, <1>4 DEF Stripper!AtLineEnd
  <2> QED BY <1>1, <1>4, <2>1 DEF State
<1>5. CASE b # "nl" /\ s.consumed
  <2>1. r = [s EXCEPT !.consumed = FALSE]
    BY <1>2, <1>5
  <2> QED BY <1>1, <1>5, <2>1 DEF State
<1>6. CASE b # "nl" /\ ~s.consumed /\ s.in = "block"
  <2>1. r = IF b = "*" /\ peek = "/" THEN [s EXCEPT !.in = "code", !.consumed = TRUE] ELSE s
    BY <1>2, <1>6 DEF Stripper!InBlock, Stripper!Quotes
  <2>2. /\ r \in State /\ r.kept = s.kept /\ (r.escaped <=> s.escaped)
        /\ r.consumed <=> (b = "*" /\ peek = "/")
        /\ r.in = IF b = "*" /\ peek = "/" THEN "code" ELSE "block"
    BY <1>6, <2>1 DEF State
  <2> QED BY <1>1, <1>6, <2>2
<1>7. CASE b # "nl" /\ ~s.consumed /\ s.in = "note"
  <2>1. r = s
    BY <1>2, <1>7 DEF Stripper!Quotes
  <2> QED BY <1>1, <1>7, <2>1
<1>8. CASE b # "nl" /\ ~s.consumed /\ s.in \in {"sq", "dq", "bt"}
  <2>1. r = [s EXCEPT !.kept = s.kept \cup {k + 1},
                      !.escaped = ~s.escaped /\ b = "bs",
                      !.in = IF ~s.escaped /\ b = s.in THEN "code" ELSE s.in]
    BY <1>2, <1>8 DEF Stripper!InQuote, Stripper!Quotes
  <2>2. s.kept \cup {k + 1} \in SUBSET Nat
    BY DEF State
  <2>3. /\ r \in State /\ r.kept = s.kept \cup {k + 1} /\ ~r.consumed
        /\ (r.escaped <=> ~s.escaped /\ b = "bs")
        /\ r.in = IF ~s.escaped /\ b = s.in THEN "code" ELSE s.in
    BY <1>8, <2>1, <2>2 DEF State
  <2> QED BY <1>1, <1>8, <2>3
<1>9. CASE b # "nl" /\ ~s.consumed /\ s.in = "code"
  <2>1. r = Stripper!InCode(s, k + 1, b, peek)
    BY <1>2, <1>9 DEF Stripper!Quotes
  <2>2. CASE b = "/" /\ peek = "/"
    <3>1. r = [s EXCEPT !.in = "note"]
      BY <2>1, <2>2 DEF Stripper!InCode, Stripper!Quotes
    <3> QED BY <1>1, <1>9, <2>2, <3>1 DEF State
  <2>3. CASE b = "/" /\ peek = "*"
    <3>1. r = [s EXCEPT !.in = "block", !.consumed = TRUE]
      BY <2>1, <2>3 DEF Stripper!InCode, Stripper!Quotes
    <3> QED BY <1>1, <1>9, <2>3, <3>1 DEF State
  <2>4. CASE ~(b = "/" /\ peek = "/") /\ ~(b = "/" /\ peek = "*") /\ b \in {"sq", "dq"}
    <3>1. r = [s EXCEPT !.in = b, !.kept = s.kept \cup {k + 1}]
      BY <2>1, <2>4 DEF Stripper!InCode, Stripper!Quotes
    <3>2. r \in State /\ r.in = b /\ r.kept = s.kept \cup {k + 1}
          /\ (r.escaped <=> s.escaped) /\ r.consumed = s.consumed
      <4>1. s.kept \cup {k + 1} \in SUBSET Nat
        BY DEF State
      <4>2. b \in {"code", "note", "block", "sq", "dq", "bt"}
        BY <2>4
      <4> QED BY <3>1, <4>1, <4>2 DEF State
    <3> QED BY <1>1, <1>9, <2>4, <3>2
  <2>5. CASE ~(b = "/" /\ peek = "/") /\ ~(b = "/" /\ peek = "*") /\ b \notin {"sq", "dq"}
    <3>1. r = [s EXCEPT !.kept = s.kept \cup {k + 1}]
      BY <1>3, <2>1, <2>5 DEF Stripper!InCode, Stripper!Quotes
    <3> QED BY <1>1, <1>9, <2>5, <3>1 DEF State
  <2> QED BY <2>2, <2>3, <2>4, <2>5
<1> QED BY <1>1, <1>4, <1>5, <1>6, <1>7, <1>8, <1>9 DEF State

LEMMA StripperNewline ==
  ASSUME WellFormed(src), NEW k \in Nat, k < End, NEW s \in State, At(k) = "nl",
         NEW r, r = Stripper!Step(src, s, k + 1)
  PROVE  /\ r.kept = s.kept /\ ~r.escaped /\ ~r.consumed
         /\ r.in = IF s.in = "block" THEN "block" ELSE "code"
<1>1. src[k + 1] = "nl"
  BY DEF At
<1>2. r = Stripper!AtLineEnd(s)
  BY <1>1 DEF Stripper!Step
<1> QED BY <1>2 DEF Stripper!AtLineEnd, State

LEMMA StripperConsumed ==
  ASSUME WellFormed(src), NEW k \in Nat, k < End, NEW s \in State, At(k) # "nl", s.consumed,
         NEW r, r = Stripper!Step(src, s, k + 1)
  PROVE  r.in = s.in /\ (r.escaped <=> s.escaped) /\ ~r.consumed /\ r.kept = s.kept
<1>1. src[k + 1] # "nl"
  BY DEF At
<1>2. r = [s EXCEPT !.consumed = FALSE]
  BY <1>1 DEF Stripper!Step
<1> QED BY <1>2 DEF State

LEMMA StripperOpens ==
  ASSUME WellFormed(src), NEW k \in Nat, k < End, NEW s \in State, s.in = "code", ~s.consumed,
         NEW b \in {"/", "*"}, StartsWith(k, "/", b),
         NEW r, r = Stripper!Step(src, s, k + 1)
  PROVE  /\ r.kept = s.kept /\ (r.escaped <=> s.escaped)
         /\ b = "/" => r.in = "note" /\ ~r.consumed
         /\ b = "*" => r.in = "block" /\ r.consumed
<1>1. src[k + 1] = "/" /\ src[(k + 1) + 1] = b /\ k + 1 # Len(src)
  BY EndType DEF StartsWith, Has, At, End
<1>2. r = Stripper!InCode(s, k + 1, "/", b)
  BY <1>1 DEF Stripper!Step, Stripper!Quotes
<1>3. CASE b = "/"
  <2>1. r = [s EXCEPT !.in = "note"]
    BY <1>2, <1>3 DEF Stripper!InCode, Stripper!Quotes
  <2> QED BY <1>3, <2>1 DEF State
<1>4. CASE b = "*"
  <2>1. r = [s EXCEPT !.in = "block", !.consumed = TRUE]
    BY <1>2, <1>4 DEF Stripper!InCode, Stripper!Quotes
  <2> QED BY <1>4, <2>1 DEF State
<1> QED BY <1>3, <1>4

-----------------------------------------------------------------------------
(* The tokens and the bytes.                                               *)

\* Byte k is one of token n's.
Holds(n, k) == n \in DOMAIN tokens /\ tokens[n].from <= k /\ k < tokens[n].to

LEMMA DomainFacts ==
  ASSUME Tokenised
  PROVE  Len(tokens) \in Nat /\ DOMAIN tokens = 1 .. Len(tokens)
<1>1. tokens \in Seq(Token)
  BY DEF Tokenised
<1> QED BY <1>1

\* Every byte is in a token.
LEMMA Covered ==
  ASSUME Tokenised, End \in Nat, NEW j \in Nat, j < End
  PROVE  \E n \in DOMAIN tokens : Holds(n, j)
<1> DEFINE S == {k \in Nat : k < End => \E n \in DOMAIN tokens : Holds(n, k)}
<1>1. 0 \in S
  <2> SUFFICES ASSUME 0 < End PROVE \E n \in DOMAIN tokens : Holds(n, 0)
    OBVIOUS
  <2>1. Start(1) = 0
    BY DEF Tokenised
  <2>2. 1 \in DOMAIN tokens
    BY <2>1 DEF Start
  <2>3. Holds(1, 0)
    BY <2>1, <2>2, TokenFacts DEF Holds
  <2> QED BY <2>2, <2>3
<1>2. ASSUME NEW k \in Nat, k \in S PROVE k + 1 \in S
  <2> SUFFICES ASSUME k + 1 < End PROVE \E n \in DOMAIN tokens : Holds(n, k + 1)
    OBVIOUS
  <2>1. PICK n \in DOMAIN tokens : Holds(n, k)
    BY <1>2
  <2>2. tokens[n].from \in Nat /\ tokens[n].to \in Nat /\ tokens[n].to = Start(n + 1)
    BY TokenFacts
  <2>3. CASE k + 1 < tokens[n].to
    BY <2>1, <2>2, <2>3 DEF Holds
  <2>4. CASE ~(k + 1 < tokens[n].to)
    <3>1. Start(n + 1) = k + 1
      BY <2>1, <2>2, <2>4 DEF Holds
    <3>2. n + 1 \in DOMAIN tokens
      BY <3>1 DEF Start
    <3>3. Holds(n + 1, k + 1)
      BY <3>1, <3>2, TokenFacts DEF Holds
    <3> QED BY <3>2, <3>3
  <2> QED BY <2>3, <2>4
<1> HIDE DEF S
<1>3. \A k \in Nat : k \in S
  BY <1>1, <1>2, Induction
<1> QED BY <1>3 DEF S

\* A token ends before the later ones begin.
LEMMA Apart ==
  ASSUME Tokenised, NEW n \in DOMAIN tokens, NEW m \in DOMAIN tokens, n < m
  PROVE  tokens[n].to <= tokens[m].from
<1> DEFINE S == {d \in Nat : \A i \in DOMAIN tokens : i + 1 + d \in DOMAIN tokens =>
                                tokens[i].to <= tokens[i + 1 + d].from}
<1>0. Len(tokens) \in Nat /\ DOMAIN tokens = 1 .. Len(tokens)
  BY DomainFacts
<1>1. 0 \in S
  <2> SUFFICES ASSUME NEW i \in DOMAIN tokens, i + 1 + 0 \in DOMAIN tokens
               PROVE  tokens[i].to <= tokens[i + 1 + 0].from
    OBVIOUS
  <2>1. i + 1 + 0 = i + 1
    BY <1>0
  <2>2. tokens[i].to = Start(i + 1) /\ tokens[i].to \in Nat
    BY TokenFacts
  <2>3. tokens[i + 1].from = Start(i + 1)
    BY <2>1 DEF Start
  <2> QED BY <2>1, <2>2, <2>3
<1>2. ASSUME NEW d \in Nat, d \in S PROVE d + 1 \in S
  <2> SUFFICES ASSUME NEW i \in DOMAIN tokens, i + 1 + (d + 1) \in DOMAIN tokens
               PROVE  tokens[i].to <= tokens[i + 1 + (d + 1)].from
    OBVIOUS
  <2> DEFINE e == i + 1 + d
  <2>1. e \in DOMAIN tokens /\ i + 1 + (d + 1) = e + 1
    BY <1>0
  <2> HIDE DEF e
  <2>2. tokens[i].to <= tokens[e].from
    BY <1>2, <2>1 DEF e
  <2>3. tokens[e].to = Start(e + 1) /\ tokens[e].from < tokens[e].to
        /\ tokens[e].from \in Nat /\ tokens[e].to \in Nat
    BY <2>1, TokenFacts
  <2>4. Start(e + 1) = tokens[e + 1].from
    BY <2>1 DEF Start
  <2>5. tokens[i].to \in Nat
    BY TokenFacts
  <2> QED BY <2>1, <2>2, <2>3, <2>4, <2>5
<1> HIDE DEF S
<1>3. \A d \in Nat : d \in S
  BY <1>1, <1>2, Induction
<1>4. m - (n + 1) \in Nat /\ n + 1 + (m - (n + 1)) = m
  BY <1>0
<1>5. \A i \in DOMAIN tokens : i + 1 + (m - (n + 1)) \in DOMAIN tokens =>
        tokens[i].to <= tokens[i + 1 + (m - (n + 1))].from
  BY <1>3, <1>4 DEF S
<1> QED BY <1>4, <1>5

LEMMA OnlyOne ==
  ASSUME Tokenised, NEW k \in Nat, NEW n, NEW m, Holds(n, k), Holds(m, k)
  PROVE  n = m
<1>1. n \in DOMAIN tokens /\ m \in DOMAIN tokens
  BY DEF Holds
<1>2. n \in Nat /\ m \in Nat
  BY <1>1, DomainFacts
<1>3. /\ tokens[n].from \in Nat /\ tokens[n].to \in Nat
      /\ tokens[m].from \in Nat /\ tokens[m].to \in Nat
  BY <1>1, TokenFacts
<1>4. ~(n < m) /\ ~(m < n)
  BY <1>1, <1>3, Apart DEF Holds
<1> QED BY <1>2, <1>4

\* What a byte is in is said by its token alone.
LEMMA InComment ==
  ASSUME Tokenised, NEW k \in Nat, NEW n, Holds(n, k)
  PROVE  /\ k \in In(Comments) <=> tokens[n].kind \in {"line", "block"}
         /\ tokens[n] \in Unfamiliar => k \in In(Unfamiliar)
<1>1. n \in DOMAIN tokens
  BY DEF Holds
<1>2. k \in tokens[n].from .. tokens[n].to - 1
  BY <1>1, TokenFacts DEF Holds
<1>3. ASSUME tokens[n].kind \in {"line", "block"} PROVE k \in In(Comments)
  <2>1. tokens[n] \in Comments
    BY <1>1, <1>3 DEF Comments, All
  <2> QED BY <1>2, <2>1 DEF In
<1>4. ASSUME k \in In(Comments) PROVE tokens[n].kind \in {"line", "block"}
  <2>1. PICK t \in Comments : k \in t.from .. t.to - 1
    BY <1>4 DEF In
  <2>2. PICK m \in DOMAIN tokens : t = tokens[m]
    BY <2>1 DEF Comments, All
  <2>3. Holds(m, k)
    BY <2>1, <2>2, TokenFacts DEF Holds
  <2>4. n = m
    BY <2>3, OnlyOne
  <2> QED BY <2>2, <2>4, t.kind \in {"line", "block"} DEF Comments
<1>5. ASSUME tokens[n] \in Unfamiliar PROVE k \in In(Unfamiliar)
  BY <1>2, <1>5 DEF In
<1> QED BY <1>3, <1>4, <1>5

LEMMA LineOn ==
  ASSUME WellFormed(src), NEW k \in Nat, k < End
  PROVE  LineOf(k + 1) = IF At(k) = "nl" THEN LineOf(k) + 1 ELSE LineOf(k)
<1>1. CASE At(k) = "nl"
  BY <1>1, NextLine DEF Has
<1>2. CASE At(k) # "nl"
  <2>1. NoNewline(k, k + 1)
    BY <1>2 DEF NoNewline
  <2>2. k + 1 \in Nat /\ k <= k + 1 /\ k + 1 <= End
    BY EndType
  <2>3. LineOf(k + 1) = LineOf(k)
    BY <2>1, <2>2, SameLine
  <2> QED BY <1>2, <2>3
<1> QED BY <1>1, <1>2

-----------------------------------------------------------------------------
(* The stripper and the tokens.                                            *)

PlainCode(s) == s.in = "code" /\ ~s.escaped /\ ~s.consumed
InQuotes(s, q, e) == s.in = q /\ ~s.consumed /\ (s.escaped <=> e)

\* What the stripper is in at byte k of a familiar token.
InStep(t, k, s) ==
    /\ t.kind = "word" => PlainCode(s)
    /\ t.kind \in {"char", "string"} /\ k < t.text => PlainCode(s)
    /\ t.kind = "char" /\ k >= t.text => InQuotes(s, "sq", k = t.text + 1 /\ At(t.text) = "bs")
    /\ t.kind = "string" /\ k >= t.text => InQuotes(s, "dq", IsEscaped(t, k))
    /\ t.kind \in {"line", "block"} /\ k = t.from => PlainCode(s)
    /\ t.kind = "line" /\ k > t.from => s.in = "note" /\ ~s.consumed
    /\ t.kind = "block" => ~s.escaped
    /\ t.kind = "block" /\ k = t.from + 1 => s.in = "block" /\ s.consumed
    /\ t.kind = "block" /\ k >= t.text /\ k <= t.end => s.in = "block" /\ ~s.consumed
    /\ t.kind = "block" /\ k > t.end => s.in = "code" /\ s.consumed

\* The bytes of active code before k.
Kept(k) == {i + 1 : i \in {j \in 0 .. k - 1 : At(j) # "nl"} \ In(Comments)}

\* On a line that an unfamiliar literal touches the stripper may be in quotes, but in no comment.
Anywhere(s) == s.in \in {"code", "sq", "dq"} /\ ~s.consumed

StripperAt(k, s) ==
    /\ s \in State
    /\ s.kept = Kept(k)
    /\ k < End /\ LineOf(k) \in Touched => Anywhere(s)
    /\ k < End /\ LineOf(k) \notin Touched => \A n : Holds(n, k) => InStep(tokens[n], k, s)

LEMMA KeptNext ==
  ASSUME NEW k \in Nat
  PROVE  Kept(k + 1) = Kept(k) \cup IF At(k) # "nl" /\ k \notin In(Comments) THEN {k + 1} ELSE {}
<1> DEFINE J(i) == {j \in 0 .. i - 1 : At(j) # "nl"} \ In(Comments)
<1>1. 0 .. (k + 1) - 1 = (0 .. k - 1) \cup {k}
  OBVIOUS
<1>2. J(k + 1) = J(k) \cup IF At(k) # "nl" /\ k \notin In(Comments) THEN {k} ELSE {}
  BY <1>1
<1>3. \A i : Kept(i) = {j + 1 : j \in J(i)}
  BY DEF Kept
<1> HIDE DEF J
<1> QED BY <1>2, <1>3

\* A token begins in code.
LEMMA Begun ==
  ASSUME Tokenised, NEW n \in DOMAIN tokens, NEW t, t = tokens[n], NEW s, PlainCode(s)
  PROVE  InStep(t, t.from, s)
<1>1. /\ t.from \in Nat /\ t.text \in Nat /\ t.end \in Nat /\ t.from <= t.text /\ t.text <= t.end
      /\ t.kind \in Kinds /\ Is(t)
  BY TokenFacts
<1>2. t.kind = "char" => t.from < t.text
  <2>1. t.kind = "char" => Quoted(t, "sq")
    BY <1>1, KindFacts DEF IsChar
  <2> QED BY <1>1, <2>1 DEF Quoted
<1>3. t.kind = "string" => t.from < t.text
  <2>1. t.kind = "string" => Quoted(t, "dq")
    BY <1>1, KindFacts DEF IsString
  <2> QED BY <1>1, <2>1 DEF Quoted
<1>4. t.kind = "block" => t.text = t.from + 2
  BY <1>1, KindFacts DEF IsBlock
<1> QED BY <1>1, <1>2, <1>3, <1>4 DEF InStep, PlainCode

\* A comment that opens no other ends at the first mark that could end it.
LEMMA OneMark ==
  ASSUME NEW t, t.from \in Nat, t.text \in Nat, t.end \in Nat, t.to \in Nat,
         t.text <= t.end, t.end <= t.to, IsBlock(t),
         \A k \in t.text .. t.to - 2 : ~StartsWith(k, "/", "*"),
         NEW k \in Nat, t.text <= k, k < t.end
  PROVE  ~StartsWith(k, "*", "/")
<1> SUFFICES ASSUME StartsWith(k, "*", "/") PROVE FALSE
  OBVIOUS
<1>1. StartsWith(t.from, "/", "*") /\ t.text = t.from + 2 /\ Level(t, k + 1) > 0
  <2>1. k + 1 \in t.text .. t.end
    OBVIOUS
  <2> QED BY <2>1 DEF IsBlock
<1>2. At(k) = "*" /\ At(t.from + 1) = "*"
  BY <1>1 DEF StartsWith, Has
<1>3. ASSUME NEW j \in t.from .. k, At(j) = "/", Marks(t)[j] PROVE j = t.from
  <2>1. j \in t.from .. t.to - 1
    OBVIOUS
  <2>2. StartsWith(j, "/", "*") \/ StartsWith(j, "*", "/")
    BY <1>3, <2>1, MarksRead
  <2>3. StartsWith(j, "/", "*")
    BY <1>3, <2>2 DEF StartsWith, Has
  <2>4. j # k
    BY <1>2, <1>3
  <2>5. ~(j \in t.text .. t.to - 2)
    BY <2>3
  <2>6. j # t.from + 1
    BY <1>2, <1>3
  <2> QED BY <1>1, <2>4, <2>5, <2>6
<1>4. Marks(t)[k]
  <2>1. k \in t.from .. t.to - 1 /\ k > t.from /\ k - 1 \in t.from .. k /\ k - 1 \in t.from .. t.to - 1
    BY <1>1
  <2>2. ASSUME Marks(t)[k - 1] PROVE FALSE
    <3>1. StartsWith(k - 1, "/", "*") \/ StartsWith(k - 1, "*", "/")
      BY <2>1, <2>2, MarksRead
    <3>2. (k - 1) + 1 = k
      OBVIOUS
    <3>3. StartsWith(k - 1, "/", "*")
      BY <1>2, <3>1, <3>2 DEF StartsWith, Has
    <3>4. At(k - 1) = "/"
      BY <3>3 DEF StartsWith, Has
    <3>5. k - 1 = t.from
      BY <1>3, <2>1, <2>2, <3>4
    <3> QED BY <1>1, <3>5
  <2> QED BY <2>1, <2>2, MarksRead
<1>5. Opened(t, k + 1) \subseteq {t.from}
  <2>1. (k + 1) - 1 = k
    OBVIOUS
  <2> QED BY <1>3, <2>1 DEF Opened
<1>6. Cardinality(Opened(t, k + 1)) <= 1 /\ Cardinality(Opened(t, k + 1)) \in Nat
  <2>1. IsFiniteSet({t.from}) /\ Cardinality({t.from}) = 1
    BY FS_Singleton
  <2> QED BY <1>5, <2>1, FS_Subset, FS_CardinalityType
<1>7. k \in Closed(t, k + 1)
  BY <1>1, <1>2, <1>4 DEF Closed
<1>8. IsFiniteSet(Closed(t, k + 1))
  <2>1. IsFiniteSet(t.from .. k)
    <3>1. t.from \in Int /\ k \in Int
      OBVIOUS
    <3> QED BY <3>1, FS_Interval
  <2>2. Closed(t, k + 1) \subseteq t.from .. k
    BY DEF Closed
  <2> QED BY <2>1, <2>2, FS_Subset
<1>9. Cardinality(Closed(t, k + 1)) >= 1 /\ Cardinality(Closed(t, k + 1)) \in Nat
  BY <1>7, <1>8, FS_EmptySet, FS_CardinalityType
<1> QED BY <1>1, <1>6, <1>9 DEF Level

\* After byte k of t.
After(t, k, r) == /\ k + 1 < t.to => InStep(t, k + 1, r)
                  /\ k + 1 = t.to /\ k + 1 < End => PlainCode(r)

Sizes(t) == /\ t.from \in Nat /\ t.text \in Nat /\ t.end \in Nat /\ t.to \in Nat /\ t.hashes \in Nat
            /\ t.from < t.to /\ t.from <= t.text /\ t.text <= t.end /\ t.end <= t.to /\ t.to <= End

LEMMA WordRead ==
  ASSUME WellFormed(src), NEW t, Sizes(t), t.kind = "word", IsWord(t),
         NEW k \in Nat, t.from <= k, k < t.to, NEW s \in State, InStep(t, k, s),
         NEW r, r = Stripper!Step(src, s, k + 1)
  PROVE  /\ After(t, k, r)
         /\ At(k) = "nl" => r.kept = s.kept /\ Anywhere(r)
         /\ At(k) # "nl" => r.kept = s.kept \cup {k + 1}
<1>1. k < End /\ End \in Nat
  BY EndType DEF Sizes
<1>2. PlainCode(s)
  BY DEF InStep
<1>3. At(k) \notin {"dq", "sq"} /\ ~StartsWith(k, "/", "/") /\ ~StartsWith(k, "/", "*")
  BY DEF IsWord, Sizes
<1>4. CASE At(k) = "nl"
  <2>1. r.kept = s.kept /\ ~r.escaped /\ ~r.consumed
        /\ r.in = IF s.in = "block" THEN "block" ELSE "code"
    BY <1>1, <1>4, StripperNewline
  <2>2. PlainCode(r)
    BY <1>2, <2>1 DEF PlainCode
  <2> QED BY <1>4, <2>1, <2>2 DEF After, InStep, PlainCode, Anywhere
<1>5. CASE At(k) # "nl"
  <2>1. /\ (r.escaped <=> s.escaped)
        /\ r.kept = s.kept \cup {k + 1} /\ ~r.consumed
        /\ r.in = IF At(k) \in {"sq", "dq"} THEN At(k) ELSE "code"
    BY <1>1, <1>2, <1>3, <1>5, StripperStep DEF PlainCode
  <2>2. PlainCode(r)
    BY <1>2, <1>3, <2>1 DEF PlainCode
  <2> QED BY <1>5, <2>1, <2>2 DEF After, InStep
<1> QED BY <1>4, <1>5

LEMMA QuoteRead ==
  ASSUME WellFormed(src), NEW t, Sizes(t), NEW q \in {"sq", "dq"}, Quoted(t, q), t.text <= t.end,
         NEW k \in Nat, t.from <= k, k < t.text, NEW s \in State, PlainCode(s), k < End,
         NEW r, r = Stripper!Step(src, s, k + 1)
  PROVE  /\ At(k) # "nl" /\ r.kept = s.kept \cup {k + 1} /\ ~r.escaped /\ ~r.consumed
         /\ r.in = IF k + 1 = t.text THEN q ELSE "code"
<1>1. \/ k + 1 = t.text /\ At(k) = q
      \/ k + 1 # t.text /\ At(k) = "b"
  BY DEF Quoted, Has, Sizes
<1>2. At(k) # "nl" /\ ~StartsWith(k, "/", "/") /\ ~StartsWith(k, "/", "*")
  BY <1>1 DEF StartsWith, Has
<1>3. /\ (r.escaped <=> s.escaped)
      /\ r.kept = s.kept \cup {k + 1} /\ ~r.consumed
      /\ r.in = IF At(k) \in {"sq", "dq"} THEN At(k) ELSE "code"
  BY <1>2, StripperStep DEF PlainCode
<1> QED BY <1>1, <1>2, <1>3 DEF PlainCode

LEMMA CharRead ==
  ASSUME WellFormed(src), NEW t, Sizes(t), t.kind = "char", IsChar(t),
         NEW k \in Nat, t.from <= k, k < t.to, NEW s \in State, InStep(t, k, s),
         NEW r, r = Stripper!Step(src, s, k + 1)
  PROVE  After(t, k, r) /\ At(k) # "nl" /\ r.kept = s.kept \cup {k + 1}
<1>1. k < End /\ End \in Nat
  BY EndType DEF Sizes
<1>2. Quoted(t, "sq") /\ t.to = t.end + 1 /\ Has(t.end, "sq") /\ t.text < t.end
  BY DEF IsChar
<1>3. CASE k < t.text
  <2>1. PlainCode(s)
    BY <1>3 DEF InStep
  <2>2. /\ At(k) # "nl" /\ r.kept = s.kept \cup {k + 1} /\ ~r.escaped /\ ~r.consumed
        /\ r.in = IF k + 1 = t.text THEN "sq" ELSE "code"
    BY <1>1, <1>2, <1>3, <2>1, QuoteRead DEF Sizes
  <2>3. k + 1 < t.to /\ k + 1 <= t.text /\ k + 1 # t.text + 1
    BY <1>2, <1>3 DEF Sizes
  <2> QED BY <2>2, <2>3 DEF After, InStep, InQuotes, PlainCode, Sizes
<1>4. CASE k >= t.text
  <2>1. s.in = "sq" /\ ~s.consumed /\ (s.escaped <=> k = t.text + 1 /\ At(t.text) = "bs")
    BY <1>4 DEF InStep, InQuotes
  <2>2. At(t.text) = "bs" => t.text + 1 < t.end
    BY DEF IsChar
  <2>3. At(k) # "nl"
    BY <1>2, <1>4 DEF IsChar, Sizes, Has
  <2>4. /\ r.kept = s.kept \cup {k + 1} /\ ~r.consumed
        /\ (r.escaped <=> ~s.escaped /\ At(k) = "bs")
        /\ r.in = IF ~s.escaped /\ At(k) = s.in THEN "code" ELSE s.in
    BY <1>1, <2>1, <2>3, StripperStep
  <2>5. CASE k = t.end
    <3>1. At(k) = "sq" /\ ~s.escaped
      BY <1>2, <2>1, <2>2, <2>5 DEF Has, Sizes
    <3>2. PlainCode(r)
      BY <2>1, <2>4, <3>1 DEF PlainCode
    <3> QED BY <1>2, <2>3, <2>4, <2>5, <3>2 DEF After, Sizes
  <2>6. CASE k # t.end
    <3>1. k \in t.text .. t.end - 1
      BY <1>2, <1>4, <2>6 DEF Sizes
    <3>2. /\ At(k) = "bs" => k = t.text \/ (k = t.text + 1 /\ At(t.text) = "bs")
          /\ At(k) = "sq" => k = t.text + 1 /\ At(t.text) = "bs"
      BY <3>1 DEF IsChar
    <3>5. r.in = "sq"
      BY <2>1, <2>4, <3>2
    <3>6. k + 1 = t.text + 1 <=> k = t.text
      BY DEF Sizes
    <3>7. k = t.text => k # t.text + 1
      BY DEF Sizes
    <3>8. r.escaped <=> k = t.text /\ At(t.text) = "bs"
      BY <2>1, <2>4, <3>2, <3>7
    <3>3. r.in = "sq" /\ (r.escaped <=> k + 1 = t.text + 1 /\ At(t.text) = "bs")
      BY <3>5, <3>6, <3>8
    <3>4. k + 1 < t.to /\ ~(k + 1 < t.text)
      BY <1>2, <3>1 DEF Sizes
    <3> QED BY <2>3, <2>4, <3>3, <3>4 DEF After, InStep, InQuotes, Sizes
  <2> QED BY <2>5, <2>6
<1> QED BY <1>3, <1>4 DEF Sizes

LEMMA StringRead ==
  ASSUME WellFormed(src), NEW t, Sizes(t), t.kind = "string", IsString(t), NoNewline(t.from, t.to),
         NEW k \in Nat, t.from <= k, k < t.to, NEW s \in State, InStep(t, k, s),
         NEW r, r = Stripper!Step(src, s, k + 1)
  PROVE  After(t, k, r) /\ At(k) # "nl" /\ r.kept = s.kept \cup {k + 1}
<1>1. k < End /\ End \in Nat /\ At(k) # "nl"
  BY EndType DEF Sizes, NoNewline
<1>2. Quoted(t, "dq")
  BY DEF IsString
<1>3. CASE k < t.text
  <2>1. PlainCode(s)
    BY <1>3 DEF InStep
  <2>2. /\ At(k) # "nl" /\ r.kept = s.kept \cup {k + 1} /\ ~r.escaped /\ ~r.consumed
        /\ r.in = IF k + 1 = t.text THEN "dq" ELSE "code"
    BY <1>1, <1>2, <1>3, <2>1, QuoteRead DEF Sizes
  <2>3. k + 1 <= t.text /\ ~IsEscaped(t, t.text)
    BY <1>3 DEF Sizes, IsEscaped
  <2>4. k + 1 < t.to => InStep(t, k + 1, r)
    BY <2>2, <2>3 DEF InStep, InQuotes, PlainCode, Sizes
  <2>5. k + 1 = t.to => k + 1 = t.text /\ t.end = t.to
    BY <2>3 DEF Sizes
  <2>6. ~(k + 1 = t.to /\ k + 1 < End)
    BY <2>5 DEF IsString, Sizes
  <2> QED BY <2>2, <2>4, <2>6 DEF After
<1>4. CASE k >= t.text
  <2>1. s.in = "dq" /\ ~s.consumed /\ (s.escaped <=> IsEscaped(t, k))
    BY <1>4 DEF InStep, InQuotes
  <2>2. /\ r.kept = s.kept \cup {k + 1} /\ ~r.consumed
        /\ (r.escaped <=> ~s.escaped /\ At(k) = "bs")
        /\ r.in = IF ~s.escaped /\ At(k) = s.in THEN "code" ELSE s.in
    BY <1>1, <2>1, StripperStep
  <2>3. Escapes(t)[k] = (At(k) = "bs" /\ (k > t.text => ~Escapes(t)[k - 1]))
    BY <1>4, EscapesRead DEF Sizes
  <2>4. Escapes(t)[k] <=> (At(k) = "bs" /\ ~IsEscaped(t, k))
    BY <2>3 DEF IsEscaped
  <2>5. (k + 1) - 1 = k /\ k + 1 > t.text
    BY <1>4 DEF Sizes
  <2>6. IsEscaped(t, k + 1) <=> Escapes(t)[k]
    BY <2>5 DEF IsEscaped
  <2>7. r.escaped <=> IsEscaped(t, k + 1)
    BY <2>1, <2>2, <2>4, <2>6
  <2>8. CASE k = t.end
    <3>1. t.to = t.end + 1 /\ Has(t.end, "dq") /\ ~IsEscaped(t, t.end)
      BY <2>8 DEF IsString, Sizes
    <3>2. At(k) = "dq" /\ ~s.escaped
      BY <2>1, <2>8, <3>1 DEF Has
    <3>3. PlainCode(r)
      BY <2>1, <2>2, <3>2 DEF PlainCode
    <3> QED BY <1>1, <2>2, <2>8, <3>1, <3>3 DEF After, Sizes
  <2>9. CASE k # t.end
    <3>1. k \in t.text .. t.end - 1
      BY <1>4, <2>9 DEF IsString, Sizes
    <3>2. At(k) = "dq" => IsEscaped(t, k)
      BY <3>1 DEF IsString
    <3>3. r.in = "dq"
      BY <2>1, <2>2, <3>2
    <3>4. ~(k + 1 < t.text)
      BY <1>4 DEF Sizes
    <3>5. ~(k + 1 = t.to /\ k + 1 < End)
      BY <3>1 DEF IsString, Sizes
    <3>6. InStep(t, k + 1, r)
      BY <2>2, <2>7, <3>3, <3>4 DEF InStep, InQuotes
    <3> QED BY <1>1, <2>2, <3>5, <3>6 DEF After
  <2> QED BY <2>8, <2>9
<1> QED BY <1>3, <1>4 DEF Sizes

LEMMA LineRead ==
  ASSUME WellFormed(src), NEW t, Sizes(t), t.kind = "line", IsLine(t),
         NEW k \in Nat, t.from <= k, k < t.to, NEW s \in State, InStep(t, k, s),
         NEW r, r = Stripper!Step(src, s, k + 1)
  PROVE  /\ After(t, k, r) /\ r.kept = s.kept
         /\ At(k) = "nl" => Anywhere(r)
<1>1. k < End /\ End \in Nat
  BY EndType DEF Sizes
<1>2. /\ StartsWith(t.from, "/", "/") /\ t.text = t.from + 2
      /\ At(t.from) = "/" /\ At(t.from + 1) = "/"
  BY DEF IsLine, StartsWith, Has
<1>3. CASE k = t.from
  <2>1. PlainCode(s)
    BY <1>3 DEF InStep
  <2>2. r.in = "note" /\ ~r.consumed /\ r.kept = s.kept
    <3>1. StartsWith(k, "/", "/") /\ s.in = "code" /\ ~s.consumed
      BY <1>2, <1>3, <2>1 DEF PlainCode
    <3> QED BY <1>1, <3>1, StripperOpens
  <2>3. k + 1 < t.to /\ k + 1 # t.from /\ k + 1 > t.from
    BY <1>2, <1>3 DEF Sizes
  <2> QED BY <1>2, <1>3, <2>2, <2>3 DEF After, InStep, Sizes
<1>4. CASE k # t.from
  <2>1. s.in = "note" /\ ~s.consumed /\ k > t.from
    BY <1>4 DEF InStep, Sizes
  <2>2. CASE At(k) = "nl"
    <3>1. /\ r.kept = s.kept /\ ~r.escaped /\ ~r.consumed
          /\ r.in = IF s.in = "block" THEN "block" ELSE "code"
      BY <1>1, <2>2, StripperNewline
    <3>2. PlainCode(r)
      BY <2>1, <3>1 DEF PlainCode
    <3>3. k >= t.text
      BY <1>2, <2>1, <2>2 DEF Sizes
    <3>4. k >= t.end
      BY <2>2, <3>3 DEF IsLine, Sizes
    <3>5. k + 1 = t.to
      BY <3>4 DEF IsLine, Sizes
    <3> QED BY <3>1, <3>2, <3>5 DEF After, Anywhere, PlainCode, Sizes
  <2>3. CASE At(k) # "nl"
    <3>1. r = s
      BY <1>1, <2>1, <2>3, StripperStep
    <3>2. k + 1 # t.from /\ k + 1 > t.from
      BY <2>1 DEF Sizes
    <3>3. InStep(t, k + 1, r)
      BY <2>1, <3>1, <3>2 DEF InStep
    <3>4. ~(k + 1 = t.to /\ k + 1 < End)
      BY <1>1, <2>3 DEF IsLine, Sizes, Has
    <3> QED BY <2>3, <3>1, <3>3, <3>4 DEF After
  <2> QED BY <2>2, <2>3
<1> QED BY <1>3, <1>4

LEMMA BlockRead ==
  ASSUME WellFormed(src), NEW t, Sizes(t), t.kind = "block", IsBlock(t),
         \A i \in t.text .. t.to - 2 : ~StartsWith(i, "/", "*"),
         NEW k \in Nat, t.from <= k, k < t.to, NEW s \in State, InStep(t, k, s),
         NEW r, r = Stripper!Step(src, s, k + 1)
  PROVE  /\ After(t, k, r) /\ r.kept = s.kept
         /\ At(k) = "nl" /\ k + 1 < End => k + 1 < t.to
<1>1. k < End /\ End \in Nat
  BY EndType DEF Sizes
<1>2. /\ StartsWith(t.from, "/", "*") /\ t.text = t.from + 2
      /\ At(t.from) = "/" /\ At(t.from + 1) = "*"
  BY DEF IsBlock, StartsWith, Has
<1>3. ~s.escaped
  BY DEF InStep
<1>4. t.end < t.to => t.to = t.end + 2 /\ StartsWith(t.end, "*", "/")
  <2> SUFFICES ASSUME t.end < t.to PROVE t.to = t.end + 2 /\ StartsWith(t.end, "*", "/")
    OBVIOUS
  <2>1. t.to = t.end + 2 /\ Marks(t)[t.end] /\ At(t.end) = "*"
    BY DEF IsBlock, Sizes
  <2>2. StartsWith(t.end, "/", "*") \/ StartsWith(t.end, "*", "/")
    <3>1. t.end \in t.from .. t.to - 1
      BY <2>1 DEF Sizes
    <3>2. Marks(t)[t.end] = ((StartsWith(t.end, "/", "*") \/ StartsWith(t.end, "*", "/"))
                              /\ (t.end > t.from => ~Marks(t)[t.end - 1]))
      BY <3>1, MarksRead DEF Sizes
    <3> QED BY <2>1, <3>2
  <2> QED BY <2>1, <2>2 DEF StartsWith, Has
<1>5. CASE k = t.from
  <2>1. PlainCode(s)
    BY <1>5 DEF InStep
  <2>2. (r.escaped <=> s.escaped) /\ r.in = "block" /\ r.consumed /\ r.kept = s.kept
    <3>1. StartsWith(k, "/", "*") /\ s.in = "code" /\ ~s.consumed
      BY <1>2, <1>5, <2>1 DEF PlainCode
    <3> QED BY <1>1, <3>1, StripperOpens
  <2>3. /\ k + 1 < t.to /\ k + 1 # t.from /\ ~(k + 1 >= t.text) /\ ~(k + 1 > t.end)
    BY <1>2, <1>5 DEF Sizes
  <2> QED BY <1>2, <1>3, <1>5, <2>2, <2>3 DEF After, InStep, Sizes
<1>6. CASE k = t.from + 1
  <2>1. s.in = "block" /\ s.consumed
    BY <1>6 DEF InStep
  <2>2. r.in = s.in /\ (r.escaped <=> s.escaped) /\ ~r.consumed /\ r.kept = s.kept
    <3>1. At(k) # "nl"
      BY <1>2, <1>6
    <3> QED BY <1>1, <2>1, <3>1, StripperConsumed
  <2>3. k + 1 = t.text /\ k + 1 # t.from /\ k + 1 # t.from + 1 /\ ~(k + 1 > t.end)
    BY <1>2, <1>6 DEF Sizes
  <2>4. InStep(t, k + 1, r)
    BY <1>3, <2>1, <2>2, <2>3 DEF InStep
  <2>5. ~(k + 1 = t.to /\ k + 1 < End)
    BY <1>4, <2>3 DEF IsBlock, Sizes
  <2> QED BY <1>2, <1>6, <2>2, <2>4, <2>5 DEF After
<1>7. CASE k >= t.text /\ k < t.end
  <2>1. s.in = "block" /\ ~s.consumed
    BY <1>7 DEF InStep, Sizes
  <2>2. ~StartsWith(k, "*", "/")
    BY <1>7, OneMark DEF Sizes
  <2>3. r.kept = s.kept /\ ~r.escaped /\ ~r.consumed /\ r.in = "block"
    <3>1. CASE At(k) = "nl"
      BY <1>1, <2>1, <3>1, StripperNewline
    <3>2. CASE At(k) # "nl"
      <4>1. /\ r.kept = s.kept /\ (r.escaped <=> s.escaped)
            /\ r.consumed <=> StartsWith(k, "*", "/")
            /\ r.in = IF StartsWith(k, "*", "/") THEN "code" ELSE "block"
        BY <1>1, <2>1, <3>2, StripperStep
      <4> QED BY <1>3, <2>2, <4>1
    <3> QED BY <3>1, <3>2
  <2>4. /\ k + 1 # t.from /\ k + 1 # t.from + 1 /\ k + 1 >= t.text /\ k + 1 <= t.end
        /\ ~(k + 1 > t.end)
    BY <1>2, <1>7 DEF Sizes
  <2>5. InStep(t, k + 1, r)
    BY <2>3, <2>4 DEF InStep
  <2>6. k + 1 < End => k + 1 < t.to
    BY <1>1, <1>4, <2>4 DEF IsBlock, Sizes
  <2>7. ~(k + 1 = t.to /\ k + 1 < End)
    BY <2>6 DEF Sizes
  <2> QED BY <2>3, <2>5, <2>6, <2>7 DEF After
<1>8. CASE k = t.end
  <2>1. s.in = "block" /\ ~s.consumed
    BY <1>8 DEF InStep, Sizes
  <2>2. StartsWith(k, "*", "/") /\ t.to = k + 2
    BY <1>4, <1>8 DEF Sizes
  <2>3. At(k) # "nl"
    BY <2>2 DEF StartsWith, Has
  <2>4. /\ r.kept = s.kept /\ (r.escaped <=> s.escaped)
        /\ r.consumed <=> StartsWith(k, "*", "/")
        /\ r.in = IF StartsWith(k, "*", "/") THEN "code" ELSE "block"
    BY <1>1, <2>1, <2>3, StripperStep
  <2>5. /\ k + 1 # t.from /\ k + 1 # t.from + 1 /\ ~(k + 1 <= t.end) /\ k + 1 < t.to
    BY <1>2, <1>8, <2>2 DEF Sizes
  <2>6. InStep(t, k + 1, r)
    BY <1>3, <2>2, <2>4, <2>5 DEF InStep
  <2> QED BY <2>3, <2>4, <2>5, <2>6 DEF After, Sizes
<1>9. CASE k > t.end
  <2>1. s.in = "code" /\ s.consumed
    BY <1>9 DEF InStep
  <2>2. k = t.end + 1 /\ k + 1 = t.to /\ At(k) = "/"
    BY <1>4, <1>9 DEF StartsWith, Has, Sizes
  <2>3. r.in = s.in /\ (r.escaped <=> s.escaped) /\ ~r.consumed /\ r.kept = s.kept
    BY <1>1, <2>1, <2>2, StripperConsumed
  <2>4. PlainCode(r)
    BY <1>3, <2>1, <2>3 DEF PlainCode
  <2> QED BY <2>2, <2>3, <2>4 DEF After, Sizes
<1> QED BY <1>2, <1>5, <1>6, <1>7, <1>8, <1>9 DEF Sizes

\* The files the property is about.
Quiet == /\ WellFormed(src) /\ Tokenised
         /\ NestedComments = {} /\ Touched \cap Slashed = {}

LEMMA Sized ==
  ASSUME Tokenised, NEW n, NEW k \in Nat, Holds(n, k)
  PROVE  /\ n \in DOMAIN tokens /\ Sizes(tokens[n]) /\ tokens[n].kind \in Kinds /\ Is(tokens[n])
         /\ tokens[n].from <= k /\ k < tokens[n].to /\ tokens[n].to = Start(n + 1)
BY TokenFacts DEF Holds, Sizes

\* A line that an unfamiliar literal touches has no comment.
LEMMA NoComment ==
  ASSUME Quiet, NEW k \in Nat, k < End, LineOf(k) \in Touched
  PROVE  k \notin In(Comments) /\ ~StartsWith(k, "/", "/") /\ ~StartsWith(k, "/", "*")
<1>1. End \in Nat
  BY EndType DEF Quiet
<1>2. LineOf(k) \notin Slashed
  BY DEF Quiet
<1>3. k \in 0 .. End - 1
  BY <1>1
<1>4. k \notin In(Comments)
  BY <1>2 DEF Slashed
<1>5. ~(StartsWith(k, "/", "/") \/ StartsWith(k, "/", "*"))
  BY <1>2, <1>3 DEF Slashed
<1> QED BY <1>4, <1>5

\* ... and the tokens of the other lines are familiar.
LEMMA IsFamiliar ==
  ASSUME Quiet, NEW k \in Nat, NEW n, Holds(n, k), LineOf(k) \notin Touched
  PROVE  LET t == tokens[n] IN
         /\ t.kind \in {"word", "char", "line", "block", "string"}
         /\ t.kind = "string" => NoNewline(t.from, t.to)
<1>1. n \in DOMAIN tokens /\ tokens[n].kind \in Kinds
  BY Sized DEF Quiet
<1>2. tokens[n] \notin Unfamiliar
  BY InComment DEF Touched, Quiet
<1> QED BY <1>1, <1>2 DEF Unfamiliar, All, Kinds

LEMMA NotNested ==
  ASSUME Quiet, NEW n \in DOMAIN tokens, tokens[n].kind = "block"
  PROVE  \A i \in tokens[n].text .. tokens[n].to - 2 : ~StartsWith(i, "/", "*")
BY DEF Quiet, NestedComments, All

\* The stripper is where it should be before byte k + 1 if its step over byte k of token n is
\* a good one.
LEMMA Carried ==
  ASSUME Quiet, NEW k \in Nat, k < End, NEW n, Holds(n, k), NEW r \in State,
         r.kept = Kept(k + 1),
         k + 1 < End /\ LineOf(k + 1) \in Touched => Anywhere(r),
         k + 1 < End /\ LineOf(k + 1) \notin Touched => After(tokens[n], k, r)
  PROVE  StripperAt(k + 1, r)
<1> SUFFICES ASSUME k + 1 < End, LineOf(k + 1) \notin Touched, NEW m, Holds(m, k + 1)
             PROVE  InStep(tokens[m], k + 1, r)
  BY DEF StripperAt
<1>1. After(tokens[n], k, r) /\ k + 1 \in Nat /\ Tokenised
  BY DEF Quiet
<1>2. Sizes(tokens[n]) /\ tokens[n].from <= k /\ k < tokens[n].to
  BY <1>1, Sized
<1>3. m \in DOMAIN tokens /\ Sizes(tokens[m]) /\ tokens[m].from <= k + 1 /\ k + 1 < tokens[m].to
  BY <1>1, Sized
<1>4. CASE k + 1 < tokens[n].to
  <2>1. Holds(n, k + 1)
    BY <1>2, <1>4 DEF Holds, Sizes
  <2>2. m = n
    BY <1>1, <2>1, OnlyOne
  <2> QED BY <1>1, <1>4, <2>2 DEF After
<1>5. CASE ~(k + 1 < tokens[n].to)
  <2>1. k + 1 = tokens[n].to
    BY <1>2, <1>5 DEF Sizes
  <2>2. PlainCode(r)
    BY <1>1, <2>1 DEF After
  <2>3. CASE tokens[m].from = k + 1
    BY <1>1, <1>3, <2>2, <2>3, Begun
  <2>4. CASE tokens[m].from # k + 1
    <3>1. Holds(m, k)
      BY <1>3, <2>4 DEF Holds, Sizes
    <3>2. m = n
      BY <1>1, <3>1, OnlyOne
    <3> QED BY <1>3, <2>1, <3>2
  <2> QED BY <2>3, <2>4
<1> QED BY <1>4, <1>5

\* On a line that an unfamiliar literal touches.
LEMMA TouchedStep ==
  ASSUME Quiet, NEW k \in Nat, k < End, NEW s, StripperAt(k, s), LineOf(k) \in Touched,
         NEW r, r = Stripper!Step(src, s, k + 1)
  PROVE  StripperAt(k + 1, r)
<1>0. WellFormed(src) /\ Tokenised /\ End \in Nat /\ s \in State /\ s.kept = Kept(k) /\ Anywhere(s)
  BY EndType DEF Quiet, StripperAt
<1>1. PICK n \in DOMAIN tokens : Holds(n, k)
  BY <1>0, Covered
<1>2. k \notin In(Comments) /\ ~StartsWith(k, "/", "/") /\ ~StartsWith(k, "/", "*")
  BY NoComment
<1>3. r \in State
  BY <1>0, StripperStep
<1>4. CASE At(k) # "nl"
  <2>1. LineOf(k + 1) = LineOf(k)
    BY <1>0, <1>4, LineOn
  <2>2. Kept(k + 1) = Kept(k) \cup {k + 1}
    BY <1>2, <1>4, KeptNext
  <2>3. r.kept = s.kept \cup {k + 1} /\ Anywhere(r)
    <3>1. CASE s.in = "code"
      <4>1. /\ r.kept = s.kept \cup {k + 1} /\ ~r.consumed
            /\ r.in = IF At(k) \in {"sq", "dq"} THEN At(k) ELSE "code"
        BY <1>0, <1>2, <1>4, <3>1, StripperStep DEF Anywhere
      <4> QED BY <4>1 DEF Anywhere
    <3>2. CASE s.in \in {"sq", "dq"}
      <4>1. /\ r.kept = s.kept \cup {k + 1} /\ ~r.consumed
            /\ r.in = IF ~s.escaped /\ At(k) = s.in THEN "code" ELSE s.in
        BY <1>0, <1>4, <3>2, StripperStep DEF Anywhere
      <4> QED BY <3>2, <4>1 DEF Anywhere
    <3> QED BY <1>0, <3>1, <3>2 DEF Anywhere
  <2> QED BY <1>0, <1>1, <1>3, <2>1, <2>2, <2>3, Carried
<1>5. CASE At(k) = "nl"
  <2>1. Kept(k + 1) = Kept(k)
    BY <1>5, KeptNext
  <2>2. r.kept = s.kept /\ PlainCode(r)
    <3>1. /\ r.kept = s.kept /\ ~r.escaped /\ ~r.consumed
          /\ r.in = IF s.in = "block" THEN "block" ELSE "code"
      BY <1>0, <1>5, StripperNewline
    <3> QED BY <1>0, <3>1 DEF PlainCode, Anywhere
  <2>3. Anywhere(r)
    BY <2>2 DEF PlainCode, Anywhere
  <2>4. ASSUME k + 1 < End, LineOf(k + 1) \notin Touched PROVE After(tokens[n], k, r)
    <3> DEFINE t == tokens[n]
    <3>1. Sizes(t) /\ t.kind \in Kinds /\ Is(t) /\ t.from <= k /\ k < t.to
      BY <1>0, <1>1, Sized
    <3>2. ASSUME k + 1 < t.to PROVE InStep(t, k + 1, r)
      <4>1. Holds(n, k + 1)
        BY <1>1, <3>1, <3>2 DEF Holds, Sizes
      <4>2. /\ t.kind \in {"word", "char", "line", "block", "string"}
            /\ t.kind = "string" => NoNewline(t.from, t.to)
        BY <2>4, <4>1, IsFamiliar
      <4>3. t.kind \notin {"line", "block"}
        BY <1>0, <1>1, <1>2, InComment
      <4>4. t.kind # "string"
        BY <1>5, <3>1, <4>2 DEF NoNewline, Sizes
      <4>5. t.kind # "char"
        <5> SUFFICES ASSUME t.kind = "char" PROVE FALSE
          OBVIOUS
        <5>1. IsChar(t)
          BY <3>1, KindFacts
        <5> HIDE DEF t
        <5>2. k < t.text
          BY <1>5, <3>1, <3>2, <5>1 DEF IsChar, Sizes
        <5>3. (t.text - 1 = t.from \/ (t.text - 1 = t.from + 1 /\ Has(t.from, "b"))) /\ Has(t.text - 1, "sq")
          BY <5>1 DEF IsChar, Quoted
        <5>4. k = t.text - 1 \/ (k = t.from /\ Has(t.from, "b"))
          BY <3>1, <5>2, <5>3 DEF Sizes
        <5> QED BY <1>5, <5>3, <5>4 DEF Has
      <4>6. t.kind = "word"
        BY <4>2, <4>3, <4>4, <4>5
      <4> QED BY <2>2, <4>6 DEF InStep
    <3> QED BY <2>2, <3>2 DEF After
  <2> QED BY <1>0, <1>1, <1>3, <2>1, <2>2, <2>3, <2>4, Carried
<1> QED BY <1>4, <1>5

\* On the other lines.
LEMMA FamiliarStep ==
  ASSUME Quiet, NEW k \in Nat, k < End, NEW s, StripperAt(k, s), LineOf(k) \notin Touched,
         NEW r, r = Stripper!Step(src, s, k + 1)
  PROVE  StripperAt(k + 1, r)
<1>0. WellFormed(src) /\ Tokenised /\ End \in Nat /\ s \in State /\ s.kept = Kept(k)
  BY EndType DEF Quiet, StripperAt
<1>1. PICK n \in DOMAIN tokens : Holds(n, k)
  BY <1>0, Covered
<1> DEFINE t == tokens[n]
<1>2. Sizes(t) /\ t.kind \in Kinds /\ Is(t) /\ t.from <= k /\ k < t.to
  BY <1>0, <1>1, Sized
<1>3. InStep(t, k, s)
  BY <1>1 DEF StripperAt
<1>4. /\ t.kind \in {"word", "char", "line", "block", "string"}
      /\ t.kind = "string" => NoNewline(t.from, t.to)
  BY <1>1, IsFamiliar
<1>5. r \in State
  BY <1>0, StripperStep
<1>6. k \in In(Comments) <=> t.kind \in {"line", "block"}
  BY <1>0, <1>1, InComment
<1>7. t.kind = "block" => \A i \in t.text .. t.to - 2 : ~StartsWith(i, "/", "*")
  BY NotNested
<1>8. LineOf(k + 1) = IF At(k) = "nl" THEN LineOf(k) + 1 ELSE LineOf(k)
  BY <1>0, LineOn
<1>9. After(t, k, r) /\ r.kept = Kept(k + 1) => StripperAt(k + 1, r) \/ (At(k) = "nl" /\ ~Anywhere(r))
  <2> SUFFICES ASSUME After(t, k, r), r.kept = Kept(k + 1), ~(At(k) = "nl" /\ ~Anywhere(r))
               PROVE  StripperAt(k + 1, r)
    OBVIOUS
  <2>1. LineOf(k + 1) \in Touched => Anywhere(r)
    BY <1>8
  <2> QED BY <1>1, <1>5, <2>1, Carried
<1> HIDE DEF t
<1>10. CASE t.kind = "word"
  <2>1. /\ After(t, k, r)
        /\ At(k) = "nl" => r.kept = s.kept /\ Anywhere(r)
        /\ At(k) # "nl" => r.kept = s.kept \cup {k + 1}
    BY <1>0, <1>2, <1>3, <1>10, KindFacts, WordRead
  <2>2. r.kept = Kept(k + 1)
    BY <1>0, <1>6, <1>10, <2>1, KeptNext
  <2> QED BY <1>9, <2>1, <2>2
<1>11. CASE t.kind = "char"
  <2>1. After(t, k, r) /\ At(k) # "nl" /\ r.kept = s.kept \cup {k + 1}
    BY <1>0, <1>2, <1>3, <1>11, KindFacts, CharRead
  <2>2. r.kept = Kept(k + 1)
    BY <1>0, <1>6, <1>11, <2>1, KeptNext
  <2> QED BY <1>9, <2>1, <2>2
<1>12. CASE t.kind = "string"
  <2>1. After(t, k, r) /\ At(k) # "nl" /\ r.kept = s.kept \cup {k + 1}
    BY <1>0, <1>2, <1>3, <1>4, <1>12, KindFacts, StringRead
  <2>2. r.kept = Kept(k + 1)
    BY <1>0, <1>6, <1>12, <2>1, KeptNext
  <2> QED BY <1>9, <2>1, <2>2
<1>13. CASE t.kind = "line"
  <2>1. After(t, k, r) /\ r.kept = s.kept /\ (At(k) = "nl" => Anywhere(r))
    BY <1>0, <1>2, <1>3, <1>13, KindFacts, LineRead
  <2>2. r.kept = Kept(k + 1)
    BY <1>0, <1>6, <1>13, <2>1, KeptNext
  <2> QED BY <1>9, <2>1, <2>2
<1>14. CASE t.kind = "block"
  <2>1. /\ After(t, k, r) /\ r.kept = s.kept
        /\ At(k) = "nl" /\ k + 1 < End => k + 1 < t.to
    BY <1>0, <1>2, <1>3, <1>7, <1>14, KindFacts, BlockRead
  <2>2. r.kept = Kept(k + 1)
    BY <1>0, <1>6, <1>14, <2>1, KeptNext
  <2>3. ASSUME At(k) = "nl", k + 1 < End PROVE LineOf(k + 1) \notin Touched
    <3>1. Holds(n, k + 1)
      BY <1>1, <1>2, <2>1, <2>3 DEF Holds, Sizes, t
    <3>2. k + 1 \in In(Comments)
      BY <1>0, <1>14, <3>1, InComment DEF t
    <3> QED BY <2>3, <3>2, NoComment
  <2>4. k + 1 < End /\ LineOf(k + 1) \in Touched => Anywhere(r)
    BY <1>8, <2>3
  <2> QED BY <1>1, <1>5, <2>1, <2>2, <2>4, Carried DEF t
<1> QED BY <1>4, <1>10, <1>11, <1>12, <1>13, <1>14

LEMMA StripperReads ==
  ASSUME Quiet
  PROVE  \A k \in 0 .. End : StripperAt(k, Read(k))
<1>0. WellFormed(src) /\ Tokenised /\ End \in Nat
  BY EndType DEF Quiet
<1> DEFINE S == {k \in Nat : k <= End => StripperAt(k, Read(k))}
<1>1. 0 \in S
  <2> DEFINE s == Read(0)
  <2>1. s = Stripper!Start
    BY <1>0, ReadingWorks
  <2>2. s \in State /\ PlainCode(s) /\ s.kept = {}
    BY <2>1, StartIs DEF PlainCode
  <2> HIDE DEF s
  <2>3. Kept(0) = {}
    <3>1. 0 .. 0 - 1 = {}
      OBVIOUS
    <3> QED BY <3>1 DEF Kept
  <2>4. Anywhere(s)
    BY <2>2 DEF Anywhere, PlainCode
  <2>5. ASSUME NEW n, Holds(n, 0) PROVE InStep(tokens[n], 0, s)
    <3>1. n \in DOMAIN tokens /\ tokens[n].from = 0
      BY <1>0, <2>5, Sized DEF Sizes
    <3> QED BY <1>0, <2>2, <3>1, Begun
  <2> QED BY <2>2, <2>3, <2>4, <2>5 DEF StripperAt, s
<1>2. ASSUME NEW k \in Nat, k \in S PROVE k + 1 \in S
  <2> SUFFICES ASSUME k + 1 <= End PROVE StripperAt(k + 1, Read(k + 1))
    OBVIOUS
  <2>1. k < End /\ k \in 0 .. End - 1 /\ StripperAt(k, Read(k))
    BY <1>0, <1>2
  <2>2. Read(k + 1) = Stripper!Step(src, Read(k), k + 1)
    BY <1>0, <2>1, ReadingWorks
  <2> QED BY <2>1, <2>2, TouchedStep, FamiliarStep
<1> HIDE DEF S
<1>3. \A k \in Nat : k \in S
  BY <1>1, <1>2, Induction
<1> QED BY <1>0, <1>3 DEF S

LEMMA Stripped == WellFormed(src) /\ Tokenised => StripperKeepsCode
<1> SUFFICES ASSUME WellFormed(src), Tokenised, NestedComments = {}, Touched \cap Slashed = {}
             PROVE  Stripper!ActiveCode(src)
                      = {k + 1 : k \in {i \in 0 .. End - 1 : At(i) # "nl"} \ In(Comments)}
  BY DEF StripperKeepsCode
<1>1. Quiet /\ End \in Nat
  BY EndType DEF Quiet
<1>2. StripperAt(End, Read(End))
  BY <1>1, StripperReads
<1>3. Stripper!ActiveCode(src) = Read(End).kept
  BY DEF Stripper!ActiveCode, Read, End
<1> QED BY <1>2, <1>3 DEF StripperAt, Kept

\* What the stripper keeps of a file with no comment in a comment, and none on a line that a
\* literal unknown to it touches, is all of the code and none of the comments.
THEOREM CodeIsKept == TokenSpec => []StripperKeepsCode
<1> DEFINE Change == [Next /\ UNCHANGED tokens]_<<vars, tokens>>
           Inv == TypeOK /\ Tokenised
<1>1. TokenInit => Inv
  BY TypeInit DEF TokenInit
<1>2. Inv /\ Change => Inv'
  <2>1. Change => [Next]_vars
    OBVIOUS
  <2> QED BY <2>1, TypeStep, TokenisedStep
<1>3. Inv => StripperKeepsCode
  BY Stripped DEF TypeOK
<1> QED BY <1>1, <1>2, <1>3, PTL DEF TokenSpec
=============================================================================
