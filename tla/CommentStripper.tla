-------------------------- MODULE CommentStripper ---------------------------
(***************************************************************************)
(* strip_comments of audit/source_context.rs for files with C-like         *)
(* comments: of each line, what is left as active code.  The lines are     *)
(* read one after another; only the block comment is carried from a line   *)
(* to the next.  A file is a sequence of bytes as in RustSpans.  The       *)
(* stripper knows no nesting of comments, no raw strings, no strings over  *)
(* several lines and no lifetimes.                                         *)
(***************************************************************************)
EXTENDS Integers, Sequences

\* What the stripper is in: code, a quote, a comment to the end of the line, or a block
\* comment; a byte may be consumed with the one before it.
Quotes == {"sq", "dq", "bt"}
Start == [in |-> "code", escaped |-> FALSE, consumed |-> FALSE, kept |-> {}]

AtLineEndStuck(s) == [s EXCEPT !.escaped = FALSE, !.consumed = FALSE]
AtLineEnd(s) == [s EXCEPT !.in = IF s.in = "block" THEN "block" ELSE "code",
                          !.escaped = FALSE, !.consumed = FALSE]

InQuote(s, i, b) ==
    [s EXCEPT !.kept = @ \cup {i},
              !.escaped = ~s.escaped /\ b = "bs",
              !.in = IF ~s.escaped /\ b = s.in THEN "code" ELSE @]

InBlock(s, b, peek) ==
    IF b = "*" /\ peek = "/" THEN [s EXCEPT !.in = "code", !.consumed = TRUE] ELSE s

InCode(s, i, b, peek) ==
    CASE b = "/" /\ peek = "/" -> [s EXCEPT !.in = "note"]
      [] b = "/" /\ peek = "*" -> [s EXCEPT !.in = "block", !.consumed = TRUE]
      [] b \in Quotes -> [s EXCEPT !.in = b, !.kept = @ \cup {i}]
      [] OTHER -> [s EXCEPT !.kept = @ \cup {i}]

Step(bytes, s, i) ==
    LET b == bytes[i]
        peek == IF i = Len(bytes) THEN "nl" ELSE bytes[i + 1]
    IN  CASE b = "nl" -> AtLineEnd(s)
          [] b # "nl" /\ s.consumed -> [s EXCEPT !.consumed = FALSE]
          [] OTHER -> CASE s.in = "block" -> InBlock(s, b, peek)
                        [] s.in = "note" -> s
                        [] s.in \in Quotes -> InQuote(s, i, b)
                        [] OTHER -> InCode(s, i, b, peek)

\* What the stripper is in after each of the bytes.
Reading(bytes) == LET read[i \in 0 .. Len(bytes)] ==
                        IF i = 0 THEN Start ELSE Step(bytes, read[i - 1], i)
                  IN  read

\* The positions of the bytes of active code.
ActiveCode(bytes) == Reading(bytes)[Len(bytes)].kept
=============================================================================
