----------------------------- MODULE RustTokens -----------------------------
(***************************************************************************)
(* RustSpans on a file whose tokens are known: what Rust calls a comment,  *)
(* a string and a character literal, said of the bytes of the file without *)
(* reading them one after another as the lexer does, and the spans the     *)
(* comments and strings call for.  CommentStripper reads the same files.   *)
(*                                                                         *)
(* A token has the bytes from .. to - 1 of the file; those from .text to   *)
(* .end - 1 are what it says: the text of a comment or a string, the       *)
(* character of a character literal.  A comment or a string the file does  *)
(* not close ends at the end of the file.                                  *)
(***************************************************************************)
EXTENDS RustSpans

VARIABLE tokens     \* the tokens of src, in order

Kinds == {"word", "char", "lifetime", "line", "block", "string", "raw"}
Token == [kind : Kinds, from : Nat, text : Nat, end : Nat, to : Nat, hashes : Nat]

\* Of the places where a mark of two bytes could be read, those where one is, from the left
\* and with no byte in two marks.
Taken(mark) == LET taken[k \in DOMAIN mark] ==
                     mark[k] /\ (k - 1 \in DOMAIN mark => ~taken[k - 1])
               IN  taken

-----------------------------------------------------------------------------
(* Code.                                                                   *)

\* A stretch of code with no quote in it; no comment begins in it, and it does not end in what
\* would be the beginning of the literal that comes next.
IsWord(t) ==
    /\ \A k \in t.from .. t.to - 1 :
         /\ At(k) \notin {"dq", "sq"}
         /\ ~StartsWith(k, "/", "/") /\ ~StartsWith(k, "/", "*")
    /\ (t.to < End /\ At(t.to) \in {"dq", "r", "#"}) => At(t.to - 1) \notin {"r", "b", "#"}

\* A quote, perhaps after a b or a c, and what the literal says after it.
Quoted(t, quote) == LET q == t.text - 1 IN
    /\ q = t.from \/ (q = t.from + 1 /\ Has(t.from, "b"))
    /\ Has(q, quote)

\* A character, or an escape: a backslash, the byte it escapes, and perhaps digits.  Escapes
\* that fill the window with underscores between their digits are left out.
IsChar(t) ==
    /\ Quoted(t, "sq")
    /\ t.text < t.end /\ t.end - t.text < CharWindow
    /\ t.to = t.end + 1 /\ Has(t.end, "sq")
    /\ \A k \in t.text .. t.end - 1 :
         /\ At(k) # "nl"
         /\ At(k) = "bs" => k = t.text \/ (k = t.text + 1 /\ At(t.text) = "bs")
         /\ At(k) = "sq" => k = t.text + 1 /\ At(t.text) = "bs"
    /\ At(t.text) = "bs" => t.text + 1 < t.end

\* A quote that nothing closes, and a name.
IsLifetime(t) ==
    /\ Has(t.from, "sq") /\ t.from + 1 < t.to
    /\ \A k \in t.from + 1 .. t.to - 1 : At(k) \notin {"sq", "dq", "bs", "/", "nl"}

-----------------------------------------------------------------------------
(* Comments and strings.                                                   *)

\* With its newline, if it has one.
IsLine(t) ==
    /\ StartsWith(t.from, "/", "/") /\ t.text = t.from + 2
    /\ \A k \in t.text .. t.end - 1 : At(k) # "nl"
    /\ \/ t.to = t.end + 1 /\ Has(t.end, "nl")
       \/ t.to = t.end /\ t.end = End

\* Where the marks that open and close a block comment are read, and how many comments are
\* open before a byte.
Marks(t) == Taken([k \in t.from .. t.to - 1 |->
                     StartsWith(k, "/", "*") \/ StartsWith(k, "*", "/")])
Opened(t, k) == {j \in t.from .. k - 1 : Marks(t)[j] /\ At(j) = "/"}
Closed(t, k) == {j \in t.from .. k - 1 : Marks(t)[j] /\ At(j) = "*"}
Level(t, k) == Cardinality(Opened(t, k)) - Cardinality(Closed(t, k))

\* A block comment ends where everything that was opened in it is closed.
IsBlock(t) ==
    /\ StartsWith(t.from, "/", "*") /\ t.text = t.from + 2
    /\ \A k \in t.text .. t.end : Level(t, k) > 0
    /\ \/ /\ t.to = t.end + 2
          /\ Marks(t)[t.end] /\ At(t.end) = "*" /\ Level(t, t.end) = 1
       \/ t.to = t.end /\ t.end = End

\* A backslash that no backslash escapes, and the byte it escapes.
Escapes(t) == Taken([k \in t.text .. t.to - 1 |-> At(k) = "bs"])
IsEscaped(t, k) == k > t.text /\ Escapes(t)[k - 1]

IsString(t) ==
    /\ Quoted(t, "dq")
    /\ \A k \in t.text .. t.end - 1 : At(k) = "dq" => IsEscaped(t, k)
    /\ \/ t.to = t.end + 1 /\ Has(t.end, "dq") /\ ~IsEscaped(t, t.end)
       \/ t.to = t.end /\ t.end = End

\* A quote and h hashes.
QuoteAndHashes(k, h) == Has(k, "dq") /\ \A j \in k + 1 .. k + h : Has(j, "#")

IsRaw(t) ==
    /\ \E p \in {1, 2} :
         /\ p = 1 => Has(t.from, "r")
         /\ p = 2 => StartsWith(t.from, "b", "r")
         /\ t.text = t.from + p + t.hashes + 1
         /\ \A k \in t.from + p .. t.from + p + t.hashes - 1 : At(k) = "#"
         /\ Has(t.text - 1, "dq")
    /\ \A k \in t.text .. t.end - 1 : ~QuoteAndHashes(k, t.hashes)
    /\ \/ t.to = t.end + 1 + t.hashes /\ QuoteAndHashes(t.end, t.hashes)
       \/ t.to = t.end /\ t.end = End

Is(t) == CASE t.kind = "word" -> IsWord(t)
           [] t.kind = "char" -> IsChar(t)
           [] t.kind = "lifetime" -> IsLifetime(t)
           [] t.kind = "line" -> IsLine(t)
           [] t.kind = "block" -> IsBlock(t)
           [] t.kind = "string" -> IsString(t)
           [] t.kind = "raw" -> IsRaw(t)

\* Where token n begins, and the end of the file after the last one.
Start(n) == IF n \in DOMAIN tokens THEN tokens[n].from ELSE End

\* The tokens are tokens of Rust, of whole characters, and the file is made up of them.
Tokenised ==
    /\ tokens \in Seq(Token)
    /\ Start(1) = 0
    /\ \A n \in DOMAIN tokens : LET t == tokens[n] IN
         /\ t.from < t.to /\ t.from <= t.text /\ t.text <= t.end /\ t.end <= t.to
         /\ t.to = Start(n + 1)
         /\ Boundary(t.to)
         /\ Is(t)

TokenInit == Init /\ Tokenised
TokenSpec == TokenInit /\ [][Next /\ UNCHANGED tokens]_<<vars, tokens>>
                       /\ WF_<<vars, tokens>>(Next /\ UNCHANGED tokens)

-----------------------------------------------------------------------------
HoldsText(t) == t.kind \in {"line", "block", "string", "raw"}

\* The lines of the text from one position to another, blank ones left out.
TextLines(from, to) ==
    {[line |-> LineOf(p[1]), from |-> p[1], to |-> p[2]] :
        p \in {q \in (from .. to) \X (from .. to) :
                 /\ q[1] <= q[2]
                 /\ q[1] = from \/ At(q[1] - 1) = "nl"
                 /\ q[2] = to \/ At(q[2]) = "nl"
                 /\ NoNewline(q[1], q[2])
                 /\ ~Blank(q[1], q[2])}}

\* The text of the comments and strings before token n, and of the file.
TextBefore(n) == UNION {TextLines(t.text, t.end) : t \in
                          {tokens[m] : m \in {k \in 1 .. n - 1 : HoldsText(tokens[k])}}}
TokenText == TextBefore(Len(tokens) + 1)

Collected == {spans[i] : i \in DOMAIN spans}

\* scan.rs:2084: "Extract only human-language-bearing Rust lexical contexts.
\* Identifiers and other code tokens are deliberately absent".  What is collected
\* is the text of the tokens, each line of it once and in order.
TextIsExact == mode = "done" =>
    /\ Collected = TokenText
    /\ \A i, j \in DOMAIN spans : i < j => spans[i].to <= spans[j].from

\* ... which is so of a file without lifetimes.
LifetimeFree == \A n \in DOMAIN tokens : tokens[n].kind # "lifetime"
SpansAreText == LifetimeFree => TextIsExact

-----------------------------------------------------------------------------
(* The stripper of comments, on the same files.                            *)

Stripper == INSTANCE CommentStripper

\* The positions in some of the tokens.
In(ts) == UNION {t.from .. t.to - 1 : t \in ts}

All == {tokens[n] : n \in DOMAIN tokens}
Comments == {t \in All : t.kind \in {"line", "block"}}
NestedComments == {t \in All : t.kind = "block" /\ \E k \in t.text .. t.to - 2 : StartsWith(k, "/", "*")}
Unfamiliar == {t \in All : \/ t.kind \in {"raw", "lifetime"}
                           \/ t.kind = "string" /\ ~NoNewline(t.from, t.to)}

Touched == {LineOf(k) : k \in In(Unfamiliar)}
Slashed == {LineOf(k) : k \in In(Comments)} \cup
           {LineOf(k) : k \in {i \in 0 .. End - 1 : StartsWith(i, "/", "/") \/ StartsWith(i, "/", "*")}}

\* A line that an unfamiliar literal touches may be taken for a literal to its end; while no
\* comment begins or goes on there, that costs no code and keeps no comment, there or on any
\* other line: what is kept is exactly what is in no comment (strip_comments, one block
\* comment deep).  Whatever quotes, escapes and comments a line has, the reading of the next
\* one starts afresh but for the block comment.
StripperKeepsCode ==
    (index = 0 /\ mode = "Code" /\ NestedComments = {} /\ Touched \cap Slashed = {}) =>
        Stripper!ActiveCode(src) = {k + 1 : k \in {i \in 0 .. End - 1 : At(i) # "nl"} \ In(Comments)}
=============================================================================
