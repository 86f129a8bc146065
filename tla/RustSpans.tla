----------------------------- MODULE RustSpans ------------------------------
(***************************************************************************)
(* rust_comment_and_string_spans of audit/scan.rs: one pass over the bytes *)
(* of a Rust file that collects, line by line, the text of its comments    *)
(* and string literals, where the dead-language rule looks for words.      *)
(*                                                                         *)
(* A step is one turn of the lexer's loop.  Byte i of the file is          *)
(* src[i + 1]; positions are counted from 0 as in the code.  Bytes are     *)
(* told apart as far as the lexer does: "b" is b or c, "hi" and "lo" are   *)
(* the first and the second byte of a character that is not ASCII, and "x" *)
(* is any byte the lexer does not look for.  A span is the line the code   *)
(* gives it and the bytes it covers.                                       *)
(*                                                                         *)
(* Operators named after what they get wrong (NestedForgotten, ...) are    *)
(* faults that a run of the check puts in the place of the next operator.  *)
(***************************************************************************)
EXTENDS Integers, Sequences, FiniteSets

Byte == {"nl", "sp", "/", "*", "dq", "sq", "bs", "#", "r", "b", "x", "hi", "lo"}

\* A Rust source is UTF-8.
WellFormed(s) == /\ s \in Seq(Byte)
                 /\ \A i \in 1 .. Len(s) :
                      /\ s[i] = "hi" => i < Len(s) /\ s[i + 1] = "lo"
                      /\ s[i] = "lo" => i > 1 /\ s[i - 1] = "hi"

VARIABLES
    src,            \* the file
    index,          \* the next byte to look at
    mode,           \* RustLexState
    depth,          \* ... of BlockComment, or the hashes of RawString
    escaped,        \* ... of String
    line_no,        \* the line index is on
    segment_start,  \* where the text being read begins
    segment_line,   \* ... and its line
    spans           \* what has been collected

vars == <<src, index, mode, depth, escaped, line_no, segment_start, segment_line, spans>>
segment == <<segment_start, segment_line>>

Text == {"BlockComment", "String", "RawString"}
Modes == Text \cup {"Code", "done"}

-----------------------------------------------------------------------------
(* Reading the file.                                                       *)

At(i) == src[i + 1]
End == Len(src)
Has(i, b) == i < End /\ At(i) = b
StartsWith(i, b, c) == Has(i, b) /\ Has(i + 1, c)

\* next_char_len
CharLenByte(i) == 1
CharLen(i) == IF At(i) = "hi" THEN 2 ELSE 1

\* The line a comment that starts at i ends at: its newline, or the end of the file.
LineEndPast(i, e) == /\ e = End \/ Has(e - 1, "nl")
                     /\ \A k \in i .. e - 2 : At(k) # "nl"
LineEnd(i, e) == /\ e = End \/ Has(e, "nl")
                 /\ \A k \in i .. e - 1 : At(k) # "nl"

\* raw_string_start: r, br or cr, h hashes and a quote.
RawPrefix(i) == IF Has(i, "r") THEN 1 ELSE IF StartsWith(i, "b", "r") THEN 2 ELSE 0
RawOpens(i, h) == LET p == RawPrefix(i) IN
    /\ p > 0
    /\ \A k \in 0 .. h - 1 : Has(i + p + k, "#")
    /\ Has(i + p + h, "dq")

\* raw_string_ends_at
RawClosesShort(i, h) == Has(i, "dq")
RawCloses(i, h) == Has(i, "dq") /\ \A k \in 1 .. h : Has(i + k, "#")

\* rust_char_literal_end: the first quote that no backslash escapes, not after a
\* newline and at most CharWindow bytes after the quote at i.
CharWindow == 12
EscapedFrom(i) == LET esc[k \in 1 .. CharWindow + 1] ==
                        k > 1 /\ Has(i + k - 1, "bs") /\ ~esc[k - 1]
                  IN esc
CharEnds(i, k) == LET esc == EscapedFrom(i) IN
    /\ Has(i + k, "sq") /\ ~esc[k]
    /\ \A j \in 1 .. k - 1 : At(i + j) # "nl" /\ (At(i + j) = "sq" => esc[j])

\* push_rust_text_span: text that is not blank becomes a span.
Blank(from, to) == \A k \in from .. to - 1 : At(k) \in {"sp", "nl"}
Pushed(line, from, to) ==
    IF Blank(from, to) THEN spans
    ELSE Append(spans, [line |-> line, from |-> from, to |-> to])
PushSegment == spans' = Pushed(segment_line, segment_start, index)

Init == /\ WellFormed(src)
        /\ index = 0
        /\ mode = "Code"
        /\ depth = 0
        /\ escaped = FALSE
        /\ line_no = 1
        /\ segment_start = 0
        /\ segment_line = 1
        /\ spans = <<>>

Goto(i) == index < End /\ index' = i

\* A segment of text begins at i, on this line.
Open(m, d, i) == /\ Goto(i)
                 /\ mode' = m
                 /\ depth' = d
                 /\ segment_start' = i
                 /\ segment_line' = line_no
                 /\ escaped' = FALSE
                 /\ UNCHANGED <<src, line_no, spans>>

\* The segment ends here, and code goes on at i.
Close(i) == /\ Goto(i)
            /\ PushSegment
            /\ mode' = "Code"
            /\ UNCHANGED <<src, depth, escaped, line_no, segment>>

\* Nothing but the position changes.
Skip(i) == Goto(i) /\ UNCHANGED <<src, mode, depth, escaped, line_no, segment, spans>>

-----------------------------------------------------------------------------
(* Code.                                                                   *)

InCode == mode = "Code" /\ index < End

CodeNewline == /\ InCode
               /\ Has(index, "nl")
               /\ Goto(index + 1)
               /\ line_no' = line_no + 1
               /\ UNCHANGED <<src, mode, depth, escaped, segment, spans>>

LineComment == /\ InCode
               /\ StartsWith(index, "/", "/")
               /\ \E e \in index + 2 .. End :
                    /\ LineEnd(index + 2, e)
                    /\ spans' = Pushed(line_no, index + 2, e)
                    /\ Goto(e)
               /\ UNCHANGED <<src, mode, depth, escaped, line_no, segment>>

BlockComment == /\ InCode
                /\ StartsWith(index, "/", "*")
                /\ Open("BlockComment", 1, index + 2)

RawString == /\ InCode
             /\ \E h \in 0 .. End :
                  /\ RawOpens(index, h)
                  /\ Open("RawString", h, index + RawPrefix(index) + h + 1)

String == /\ InCode
          /\ Has(index, "dq")
          /\ Open("String", depth, index + 1)

CharLiteral == /\ InCode
               /\ Has(index, "sq")
               /\ \/ \E k \in 1 .. CharWindow :
                       CharEnds(index, k) /\ Skip(index + k + 1)
                  \/ /\ \A k \in 1 .. CharWindow : ~CharEnds(index, k)
                     /\ Skip(index + 1)

OtherCode == /\ InCode
             /\ At(index) \notin {"nl", "dq", "sq"}
             /\ ~StartsWith(index, "/", "/") /\ ~StartsWith(index, "/", "*")
             /\ \A h \in 0 .. End : ~RawOpens(index, h)
             /\ Skip(index + CharLen(index))

-----------------------------------------------------------------------------
(* Text.                                                                   *)

\* In every kind of text a newline ends the segment and begins the next one.
TextNewline == /\ mode \in Text
               /\ Has(index, "nl")
               /\ Goto(index + 1)
               /\ PushSegment
               /\ line_no' = line_no + 1
               /\ segment_start' = index + 1
               /\ segment_line' = line_no + 1
               /\ escaped' = FALSE
               /\ UNCHANGED <<src, mode, depth>>

Deepen == /\ mode = "BlockComment"
          /\ StartsWith(index, "/", "*")
          /\ Goto(index + 2)
          /\ depth' = depth + 1
          /\ UNCHANGED <<src, mode, escaped, line_no, segment, spans>>

NestedForgotten(d) == FALSE
NestedAlways(d) == TRUE
Nested(d) == d # 1

CommentEnd == /\ mode = "BlockComment"
              /\ StartsWith(index, "*", "/")
              /\ IF Nested(depth)
                 THEN /\ Goto(index + 2)
                      /\ depth' = depth - 1
                      /\ UNCHANGED <<src, mode, escaped, line_no, segment, spans>>
                 ELSE Close(index + 2)

CommentText == /\ mode = "BlockComment"
               /\ index < End
               /\ At(index) # "nl"
               /\ ~StartsWith(index, "/", "*") /\ ~StartsWith(index, "*", "/")
               /\ Skip(index + CharLen(index))

Escaped == /\ mode = "String"
           /\ escaped
           /\ index < End
           /\ At(index) # "nl"
           /\ Goto(index + CharLen(index))
           /\ escaped' = FALSE
           /\ UNCHANGED <<src, mode, depth, line_no, segment, spans>>

Backslash == /\ mode = "String"
             /\ ~escaped
             /\ Has(index, "bs")
             /\ Goto(index + 1)
             /\ escaped' = TRUE
             /\ UNCHANGED <<src, mode, depth, line_no, segment, spans>>

StringEnd == /\ mode = "String"
             /\ ~escaped
             /\ Has(index, "dq")
             /\ Close(index + 1)

StringText == /\ mode = "String"
              /\ ~escaped
              /\ index < End
              /\ At(index) \notin {"nl", "bs", "dq"}
              /\ Skip(index + CharLen(index))

RawEnd == /\ mode = "RawString"
          /\ RawCloses(index, depth)
          /\ Close(index + 1 + depth)

RawText == /\ mode = "RawString"
           /\ index < End
           /\ At(index) # "nl"
           /\ ~RawCloses(index, depth)
           /\ Skip(index + CharLen(index))

\* Text that the file does not close is kept.
Finish == /\ mode # "done"
          /\ index = End
          /\ spans' = IF mode = "Code" THEN spans
                      ELSE Pushed(segment_line, segment_start, End)
          /\ mode' = "done"
          /\ UNCHANGED <<src, index, depth, escaped, line_no, segment>>

Next == \/ CodeNewline \/ LineComment \/ BlockComment \/ RawString \/ String
        \/ CharLiteral \/ OtherCode
        \/ TextNewline \/ Deepen \/ CommentEnd \/ CommentText
        \/ Escaped \/ Backslash \/ StringEnd \/ StringText
        \/ RawEnd \/ RawText
        \/ Finish

Spec == Init /\ [][Next]_vars /\ WF_vars(Next)

-----------------------------------------------------------------------------
Spans == [line : Nat, from : Nat, to : Nat]

\* Every variable keeps its type, and the lexer never counts itself out of a comment
\* it is still in.
TypeOK == /\ WellFormed(src)
          /\ index \in Nat
          /\ mode \in Modes
          /\ depth \in Nat
         /\ ~(mode = "BlockComment" /\ depth = 0)
          /\ escaped \in BOOLEAN
          /\ line_no \in Nat
          /\ segment_start \in Nat
          /\ segment_line \in Nat
          /\ spans \in Seq(Spans)

\* Rust panics when a str is sliced inside a character or past its end.
Boundary(i) == i \in 0 .. End /\ ~Has(i, "lo")
Slice(from, to) == Boundary(from) /\ Boundary(to) /\ from <= to

\* Every slice the lexer takes is legal, so no file makes it panic: it stands at
\* the start of a character, and the text it will slice off began no later.
SlicesLegal == /\ Boundary(index)
               /\ mode \in Text => Slice(segment_start, index)
               /\ \A i \in 1 .. Len(spans) : Slice(spans[i].from, spans[i].to)

\* The line of position i, counted from 1.
LineOf(i) == 1 + Cardinality({k \in 1 .. i : src[k] = "nl"})
NoNewline(from, to) == \A k \in from .. to - 1 : At(k) # "nl"

\* A span is reported at the line its text is on, and holds text of one line.
LinesRight == /\ line_no = LineOf(index)
              /\ mode \in Text =>
                   /\ segment_line = LineOf(segment_start)
                   /\ NoNewline(segment_start, index)
              /\ \A i \in 1 .. Len(spans) :
                   /\ spans[i].line = LineOf(spans[i].from)
                   /\ NoNewline(spans[i].from, spans[i].to)

\* The lexer gets to the end of every file.
Terminates == <>(mode = "done")
=============================================================================
