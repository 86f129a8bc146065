---------------------------- MODULE CommentRules ----------------------------
(***************************************************************************)
(* The rules on what comments confess (language_rules/comments.rs).        *)
(*                                                                         *)
(* Here the note of a line is the sequence of the phrases it says, each    *)
(* with whether a negation stands right before it.  Of every group of      *)
(* phrases one or two stand for all; none of them is within another.       *)
(***************************************************************************)
EXTENDS LineRules

Silent == [Blank EXCEPT !.note = <<>>]
Phrase(p, negated) == [phrase |-> p, negated |-> negated]

TIER1_SECURITY_BYPASS == {"skip auth", "disable tls"}
TIER1_PRODUCTION_CONFESSIONS == {"do not ship"}
TIER1_HARDCODED_SECRETS == {"hardcoded password"}
TIER1_AI_RESIDUE == {"ai placeholder"}
TIER1_FAKE_IMPLEMENTATION == {"placeholder logic"}
TIER1_ERROR_SUPPRESSION == {"swallow error"}
TIER1_ALL == TIER1_SECURITY_BYPASS \cup TIER1_PRODUCTION_CONFESSIONS \cup TIER1_HARDCODED_SECRETS
    \cup TIER1_AI_RESIDUE \cup TIER1_FAKE_IMPLEMENTATION \cup TIER1_ERROR_SUPPRESSION
TIER2_MARKERS == {"todo", "hack"}
TIER2_CONTEXT_NOUNS == {"token", "rollback"}

\* extract_comment, by the comment signs of the suffix.  A sign in a literal is told by the
\* quotes before it, and then nothing of the line is a comment.
Slashes == {"rs", "ts", "go"}
Hashes == {"py", "sh", "lua"}
HasComment(line, at) ==
    \/ at \cap Slashes # {} /\ line.sign \in {"//", "///", "/*"}
    \/ at \cap Hashes # {} /\ line.sign = "#"
    \/ "sql" \in at /\ line.sign \in {"--", "/*"}

\* is_comment_scannable_file, and the zones of scannable_files.
CommentSurface(at) ==
    /\ at \cap (Slashes \cup Hashes \cup {"sql"}) # {}
    /\ at \cap {"docs", "test", "dev", "own crate", "zone"} = {}

\* find_word_bounded finds the first time a phrase is said, and is_negated looks before it;
\* a phrase that is negated there is passed over, and the next phrase is asked.
Occurrences(note, p) == {i \in DOMAIN note : note[i].phrase = p}
ConfessedFirst(note, p) == note # <<>> /\ note[1] = Phrase(p, FALSE)
Confessed(note, p) == Occurrences(note, p) # {} /\ ~note[Min(Occurrences(note, p))].negated

Tier1(note) == \E p \in TIER1_ALL : Confessed(note, p)
Tier2(note) == /\ \E p \in TIER2_MARKERS : Occurrences(note, p) # {}
               /\ \E p \in TIER2_CONTEXT_NOUNS : Occurrences(note, p) # {}

CommentHits(at, lines) ==
    {Hit(n, "comment-hygiene.hard") : n \in {k \in DOMAIN lines :
        HasComment(lines[k], at) /\ Tier1(lines[k].note) /\ ~Allowed(lines, k, "comment-hygiene")}}
CommentAdvice(at, lines) ==
    {Hit(n, "comment-hygiene.advisory") : n \in {k \in DOMAIN lines :
        HasComment(lines[k], at) /\ Tier2(lines[k].note) /\ ~Allowed(lines, k, "comment-hygiene")}}
=============================================================================
