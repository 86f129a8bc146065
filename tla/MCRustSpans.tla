---------------------------- MODULE MCRustSpans -----------------------------
(***************************************************************************)
(* RustTokens on files put together from these tokens.                     *)
(***************************************************************************)
EXTENDS RustTokens, SequencesExt

CONSTANT MaxTokens      \* how many tokens a file has

\* A token before it has a place: how many of its bytes come before what it says, and how many
\* close it.
Tok(kind, bytes, opens, closes) ==
    [kind |-> kind, bytes |-> bytes, opens |-> opens, closes |-> closes, hashes |-> 0]
Code(bytes) == Tok("word", bytes, 0, Len(bytes))
RawTok(bytes, hashes, opens, closes) == [Tok("raw", bytes, opens, closes) EXCEPT !.hashes = hashes]

Tokens == {
    Code(<<"x", "sp">>),                                    \* an identifier
    Code(<<"r", "#", "x">>),                                \* a raw identifier
    Code(<<"nl">>),
    Code(<<"/", "sp">>),                                    \* the division operator
    Tok("char", <<"sq", "dq", "sq">>, 1, 1),                \* '"'
    Tok("char", <<"sq", "bs", "sq", "sq">>, 1, 1),          \* '\''
    Tok("char", <<"sq", "hi", "lo", "sq">>, 1, 1),          \* a char beyond ASCII
    Tok("char", <<"b", "sq", "bs", "bs", "sq">>, 2, 1),     \* b'\\'
    Tok("lifetime", <<"sq", "x", "sp">>, 0, 0),             \* 'x
    Tok("line", <<"/", "/", "dq", "sp", "nl">>, 2, 1),      \* // "
    Tok("block", <<"/", "*", "x", "sq", "*", "/">>, 2, 2),  \* /*x'*/
    Tok("block", <<"/", "*", "/", "*", "*", "/", "nl", "hi", "lo", "*", "/">>, 2, 2),
    Tok("string", <<"dq", "x", "sq", "dq">>, 1, 1),         \* "x'"
    Tok("string", <<"dq", "bs", "dq", "hi", "lo", "dq">>, 1, 1),
    Tok("string", <<"b", "dq", "/", "/", "nl", "sp", "bs", "bs", "dq">>, 2, 1),
    Tok("string", <<"dq", "x", "nl", "sq", "dq">>, 1, 1),
    RawTok(<<"r", "dq", "bs", "dq">>, 0, 2, 1),             \* r"\"
    RawTok(<<"b", "r", "#", "dq", "x", "dq", "nl", "dq", "#">>, 1, 4, 2)
}

\* Tokens that end the reading of a file: comments and strings that are not closed.
Unclosed == {
    Tok("line", <<"/", "/", "x">>, 2, 0),
    Tok("block", <<"/", "*", "x", "nl", "dq">>, 2, 0),
    Tok("string", <<"dq", "x", "bs">>, 1, 0),
    RawTok(<<"r", "#", "dq", "x", "dq">>, 1, 3, 0)
}

Files == UNION {[1 .. n -> Tokens] : n \in 0 .. MaxTokens}
         \cup {Append(f, t) : f \in [1 .. MaxTokens - 1 -> Tokens], t \in Unclosed}

BytesOf(f) == FlattenSeq([i \in DOMAIN f |-> f[i].bytes])

\* The tokens of a file where they are.
Placed(f) == [n \in DOMAIN f |->
    LET from == Len(BytesOf(SubSeq(f, 1, n - 1)))
        to == from + Len(f[n].bytes)
    IN  [kind |-> f[n].kind, from |-> from, text |-> from + f[n].opens,
         end |-> to - f[n].closes, to |-> to, hashes |-> f[n].hashes]]

MCInit == \E f \in Files : /\ src = BytesOf(f)
                           /\ tokens = Placed(f)
                           /\ TokenInit
MCSpec == MCInit /\ [][Next /\ UNCHANGED tokens]_<<vars, tokens>>
                 /\ WF_<<vars, tokens>>(Next /\ UNCHANGED tokens)
=============================================================================
