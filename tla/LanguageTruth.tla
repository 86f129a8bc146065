---------------------------- MODULE LanguageTruth ----------------------------
(***************************************************************************)
(* The language rules next to readers of Python and SQL that know nothing  *)
(* of lines: they go through the file token by token, as Python and the    *)
(* server do, and say what is code and what is a statement.                *)
(*                                                                         *)
(* A reader notes in "tame" whether the file has, up to there, only what   *)
(* the line by line reading of the rules is made for.                      *)
(***************************************************************************)
EXTENDS LanguageRules

\* A line of a sequenced kind is a sequence of tokens.
ASSUME TokensAssumption == \A k \in Kinds \cap Sequenced : Vocabulary[k] \subseteq Seq(STRING)

-----------------------------------------------------------------------------
(* Python: what is code.                                                   *)

\* The mode is code, note or the quote of an open string; "tame" is lost where a quote stands
\* in a comment, or a line opens a second string.
PythonToken(seen, t) ==
    CASE seen.mode \in Triples -> IF t = seen.mode THEN [seen EXCEPT !.mode = "code"] ELSE seen
      [] seen.mode = "note" -> [seen EXCEPT !.tame = @ /\ t \notin Triples]
      [] seen.mode = "code" /\ t = "#" -> [seen EXCEPT !.mode = "note"]
      [] seen.mode = "code" /\ t \in Triples ->
            [seen EXCEPT !.mode = t, !.opened = @ + 1, !.tame = @ /\ seen.opened = 0]
      [] OTHER -> [seen EXCEPT !.code = @ \cup {t}]

\* A comment ends with its line.
NoteEnded(mode) == IF mode = "note" THEN "code" ELSE mode

PythonLine(before, line) ==
    LET read[i \in 0 .. Len(line)] ==
            IF i = 0 THEN [mode |-> NoteEnded(before.mode), opened |-> 0,
                           tame |-> before.tame, code |-> {}]
            ELSE PythonToken(read[i - 1], line[i])
    IN  read[Len(line)]

PythonTruth(ls) ==
    LET truth[n \in 0 .. Len(ls)] ==
            IF n = 0 THEN [mode |-> "code", opened |-> 0, tame |-> TRUE, code |-> {}]
            ELSE PythonLine(truth[n - 1], ls[n])
    IN  truth

\* In a Python file with at most one long string begun on a line, and none in a comment, the
\* lines the rules are asked about are the lines of code: no docstring is taken for code and
\* no code for a docstring (python_code_lines).
PythonLinesAreCode == kind = "python" =>
    LET truth == PythonTruth(lines)
    IN  truth[Len(lines)].tame => \A n \in DOMAIN lines : ToMarks(PythonCode(lines, n)) = truth[n].code

-----------------------------------------------------------------------------
(* SQL: what is a statement.                                               *)

\* The open statement with one more token.
Longer(seen, t) ==
    [line |-> IF seen.open.text = <<>> THEN seen.line ELSE seen.open.line,
     text |-> Append(seen.open.text, t)]

\* "tame" is lost where a line goes on behind a closing dollar quote or behind a semicolon,
\* where a dollar quote ends on the line it was opened on ("fresh"), and where a dollar quote or
\* a comment is opened in a comment.
SqlToken(seen, t) ==
    LET tame(ok) == [seen EXCEPT !.tame = @ /\ ok]
    IN  CASE seen.mode = "dollar" ->
                IF t = "$$" THEN [seen EXCEPT !.mode = "code", !.ended = TRUE, !.tame = @ /\ ~seen.fresh]
                ELSE seen
          [] seen.mode = "block" -> IF t = "*/" THEN [seen EXCEPT !.mode = "code"]
                                    ELSE tame(t \notin {"$$", "/*"})
          [] seen.mode = "note" -> tame(t \notin {"$$", "/*", "*/"})
          [] seen.mode = "code" /\ seen.ended -> tame(FALSE)
          [] OTHER ->
              CASE t = "$$" -> [seen EXCEPT !.mode = "dollar", !.fresh = TRUE]
                [] t = "/*" -> [seen EXCEPT !.mode = "block"]
                [] t = "--" -> [seen EXCEPT !.mode = "note"]
                [] t = ";" -> [seen EXCEPT !.done = Append(@, Longer(seen, t)), !.ended = TRUE,
                                           !.open = [line |-> 0, text |-> <<>>],
                                           !.tame = @ /\ seen.open.text # <<>>]
                [] OTHER -> [seen EXCEPT !.open = Longer(seen, t)]

SqlTokens(before, n, line) ==
    LET read[i \in 0 .. Len(line)] ==
            IF i = 0 THEN [before EXCEPT !.mode = NoteEnded(before.mode), !.line = n,
                                         !.ended = FALSE, !.fresh = FALSE]
            ELSE SqlToken(read[i - 1], line[i])
    IN  read[Len(line)]

SqlTruth(ls) ==
    LET truth[n \in 0 .. Len(ls)] ==
            IF n = 0 THEN [mode |-> "code", line |-> 0, ended |-> FALSE, fresh |-> FALSE,
                           tame |-> TRUE, done |-> <<>>, open |-> [line |-> 0, text |-> <<>>]]
            ELSE SqlTokens(truth[n - 1], n, ls[n])
    IN  truth[Len(ls)]

\* In a migration without comments in comments, with a statement ending only where its line
\* does, no dollar quote that ends on its line and nothing behind one, the statements the
\* rules are asked about are the ones the server would run, at their lines: nothing in a comment
\* or in the body of a function is taken for a statement, and no statement is swallowed
\* (executable_lines, statements).
StatementsAreExecuted == (kind = "migration" /\ SqlTruth(lines).tame) =>
    Statements(lines) = Ended(SqlTruth(lines))

\* A write to a whole table is reported by two detectors, line by line in a query file and by
\* statement in a migration.  On plain code, where writes stand at the beginning of their line,
\* an UPDATE has its SET there and neither the write nor its SET or WHERE ends the line, they
\* agree: what a migration reports a query file does, at the same line; and what a query file
\* reports where a statement starts a migration does, if the end of the statement is in sight
\* (hard_hit_for_line and statement_lacks_where against findings of migrations).
PlainSql == \A n \in DOMAIN lines : Words(lines[n]) \cap {"--", "/*", "*/", "$$"} = {}
WritesInPlace == \A n \in DOMAIN lines :
    /\ Words(lines[n]) \cap {"update", "delete from"} # {} =>
           /\ StartsWith(lines[n], {"update", "delete from"}) /\ Followed(lines[n], 1)
           /\ "where" \in Words(lines[n]) => Inside(lines[n], "where")
    /\ "update" \in Words(lines[n]) => Inside(lines[n], "set")
EndInSight(n) ==
    \/ Len(lines) <= n + LOOKAHEAD
    \/ \E k \in (n .. n + LOOKAHEAD) \cap DOMAIN lines : ";" \in Words(lines[k])
WriteRulesAgree == (kind = "sql" /\ PlainSql /\ WritesInPlace) =>
    LET writes(hits, id) == {h.line : h \in {g \in hits : g.id = id}}
        query == writes(SqlHits({"sql"}, lines, {}, FALSE), "sql.query.full-table-write")
        migration == writes(SqlHits({"sql", "db"}, lines, {}, FALSE), "sql.migration.full-table-write")
        starts == {s.line : s \in Range(Statements(lines))}
    IN  /\ migration \subseteq query
        /\ {n \in query \cap starts : EndInSight(n)} \subseteq migration
=============================================================================
