------------------------------ MODULE SqlRules ------------------------------
(***************************************************************************)
(* The rules on SQL (language_rules/sql.rs, sql_migration.rs): the lexer   *)
(* of migrations and the statements it gives, the rules on statements with *)
(* the metadata files that may answer them, and the rules on single lines. *)
(*                                                                         *)
(* A line is a sequence of tokens: dollar quotes, comment signs, semicolons*)
(* and, for the words between them, the needles of the rules.  Blanks stand*)
(* between the tokens, but semicolons in a row stand together.  A metadata *)
(* file is the set of needles in its text.                                 *)
(***************************************************************************)
EXTENDS LineRules, SequencesExt

SqlSurface(at) == at \cap {"sql", "pg_hba.conf"} # {} /\ at \cap {"docs", "test", "generated", "zone"} = {}

\* is_migration_file_path: db/ and migrations/ at the root, db/migrations/ and
\* db/constraints/ anywhere, and the migrations of a package or an app.
Migration(at) == at \cap {"db", "migrations"} # {}

-----------------------------------------------------------------------------
(* executable_lines: dollar quotes are counted first, line by line, then   *)
(* block comments are taken out of what is left, then line comments.  A    *)
(* line that ends a dollar quote is passed over to its end.                *)

Odd(line) == Cardinality(At(line, {"$$"})) % 2 = 1
Undollared(line) == IF Odd(line) THEN CutAt(line, {"$$"}) ELSE line

\* A token, while block comments are taken out.
Uncomment(seen, t) ==
    IF seen.block THEN [seen EXCEPT !.block = t # "*/"]
    ELSE IF t = "/*" THEN [seen EXCEPT !.block = TRUE]
    ELSE [seen EXCEPT !.text = Append(@, t)]
Uncommented(block, line) ==
    LET seen[i \in 0 .. Len(line)] ==
            IF i = 0 THEN [block |-> block, text |-> <<>>] ELSE Uncomment(seen[i - 1], line[i])
    IN  seen[Len(line)]

LexLineAnew(before, line) ==
    IF before.dollar THEN [dollar |-> ~Odd(line), block |-> before.block, text |-> <<>>]
    ELSE LET seen == Uncommented(FALSE, Undollared(line))
         IN  [dollar |-> Odd(line), block |-> seen.block, text |-> CutAt(seen.text, {"--"})]
LexLine(before, line) ==
    IF before.dollar THEN [dollar |-> ~Odd(line), block |-> before.block, text |-> <<>>]
    ELSE LET seen == Uncommented(before.block, Undollared(line))
         IN  [dollar |-> Odd(line), block |-> seen.block, text |-> CutAt(seen.text, {"--"})]

\* What is executable of the first n lines, and the state of the lexer behind them.
ExecutableLines(lines) ==
    LET lex[n \in 0 .. Len(lines)] ==
            IF n = 0 THEN [dollar |-> FALSE, block |-> FALSE, text |-> <<>>]
            ELSE LexLine(lex[n - 1], lines[n])
    IN  lex

\* statements: a line with a semicolon, wherever it stands, ends one.
AddLine(sofar, n, text) ==
    LET open == [line |-> IF sofar.open.text = <<>> THEN n ELSE sofar.open.line,
                 text |-> sofar.open.text \o text]
        none == [line |-> 0, text |-> <<>>]
    IN  IF text = <<>> THEN sofar
        ELSE IF At(text, {";"}) # {} THEN [done |-> Append(sofar.done, open), open |-> none]
        ELSE [sofar EXCEPT !.open = open]
\* ... and the end of the file, what is open.
Ended(all) == IF all.open.text = <<>> THEN all.done ELSE Append(all.done, all.open)
Statements(lines) ==
    LET lex == ExecutableLines(lines)
        upto[n \in 0 .. Len(lines)] ==
            IF n = 0 THEN [done |-> <<>>, open |-> [line |-> 0, text |-> <<>>]]
            ELSE AddLine(upto[n - 1], n, lex[n].text)
    IN  Ended(upto[Len(lines)])

Words(text) == {text[i] : i \in DOMAIN text}
StartsWith(text, words) == text # <<>> /\ text[1] \in words

\* Texts and lines are trimmed of blanks and of the semicolons that end them, so that a needle
\* with a blank behind it is not in one that ends with its word, nor one with a blank before it
\* in one that starts with its word.
Followed(text, i) == \E j \in DOMAIN text : i < j /\ text[j] # ";"
Before(text, w) == \E i \in DOMAIN text : text[i] = w /\ Followed(text, i)
After(text, w) == \E i \in DOMAIN text : i > 1 /\ text[i] = w
Inside(text, w) == \E i \in DOMAIN text : i > 1 /\ text[i] = w /\ Followed(text, i)
BeginsWith(text, w) == StartsWith(text, {w}) /\ Followed(text, 1)
FullText(lines) == UNION {Words(s.text) : s \in Range(Statements(lines))}

-----------------------------------------------------------------------------
(* The metadata files of a migration.                                      *)

\* has_lock_timeout_posture: a lock and a timeout, which one word may name.
LockPosture(m) == "lock_timeout" \in m \/ ("lock" \in m /\ m \cap {"statement_timeout", "timeout"} # {})

\* destructive_safety_evidence_present: one file has it all.  The verify file beside the
\* migration stands for the word in the metadata.
SafetyEvidenceTogether(meta, verify) ==
    LET m == UNION meta
    IN  /\ {"owner", "approved", "rollback"} \subseteq m /\ LockPosture(m)
        /\ m \cap {"backup", "irreversible"} # {}
        /\ "verify" \in m \/ verify
SafetyEvidence(meta, verify) ==
    \E m \in meta : /\ {"owner", "approved", "rollback"} \subseteq m /\ LockPosture(m)
                    /\ m \cap {"backup", "irreversible"} # {}
                    /\ "verify" \in m \/ verify
DependencyInventory(meta) ==
    \E m \in meta : "dependencies" \in m /\ m \cap {"owner", "approved"} # {}
MetadataHas(meta, needle) == \E m \in meta : needle \in m

-----------------------------------------------------------------------------
(* The rules on statements.                                                *)

DropWords == {"drop table", "drop column", "drop index"}
Destructive(text) == Words(text) \cap (DropWords \cup {"truncate table"}) # {}
Cascade(text) == After(text, "cascade") /\ Destructive(text)
RiskyDdl(text) ==
    /\ "alter table" \in Words(text)
    /\ \E i \in DOMAIN text : i > 1 /\ text[i] \in DropWords \cup {"add column"}
FullTableWrite(text) ==
    /\ "where" \notin Words(text)
    /\ \/ BeginsWith(text, "delete from")
       \/ BeginsWith(text, "update") /\ "set" \in Words(text)
BlockingMaintenance(text) ==
    \/ StartsWith(text, {"vacuum full"})
    \/ BeginsWith(text, "reindex") /\ ~After(text, "concurrently")
UnsafePragma(text, full) ==
    \/ "pragma journal_mode=off" \in Words(text)
    \/ /\ "pragma foreign_keys=off" \in Words(text)
       /\ ~{"pragma foreign_keys = on", "foreign_key_check"} \subseteq full
SqliteRebuild(full) ==
    /\ {"create table new_", "insert into", "select", "drop table", "rename to"} \subseteq full
    /\ ~{"foreign_key_check", "integrity_check"} \subseteq full

\* What one statement gives: a full-table write and blocking maintenance end the questions.
StatementHits(text, full, meta, verify) ==
    LET guarded == SafetyEvidence(meta, verify)
        write == FullTableWrite(text) /\ ~guarded
        blocking == BlockingMaintenance(text) /\ ~MetadataHas(meta, "maintenance_window")
        untimed(t) == RiskyDdl(text) /\ t \notin full /\ ~MetadataHas(meta, t)
    IN  (IF Destructive(text) /\ ~guarded THEN {"sql.migration.destructive-no-proof"} ELSE {})
        \cup (IF Cascade(text) /\ ~DependencyInventory(meta)
              THEN {"sql.migration.cascade-convenience"} ELSE {})
        \cup (IF untimed("lock_timeout") THEN {"sql.migration.missing-lock-timeout"} ELSE {})
        \cup (IF untimed("statement_timeout") THEN {"sql.migration.missing-statement-timeout"} ELSE {})
        \cup (IF write THEN {"sql.migration.full-table-write"} ELSE {})
        \cup (IF ~write /\ blocking THEN {"sql.migration.blocking-maintenance-op"} ELSE {})
        \cup (IF ~write /\ ~blocking /\ UnsafePragma(text, full)
              THEN {"sql.migration.sqlite-unsafe-pragma"} ELSE {})

\* transaction_findings: on executable lines, not statements; a line that begins or ends a
\* transaction holds nothing else.
Begins(text) == StartsWith(text, {"begin"}) /\ ~Followed(text, 1)
Ends(text) == StartsWith(text, {"commit"}) /\ ~Followed(text, 1)
InTransaction(lines, n) ==
    LET lex == ExecutableLines(lines)
    IN  \E b \in 1 .. n - 1 : Begins(lex[b].text) /\ \A e \in b + 1 .. n - 1 : ~Ends(lex[e].text)
TransactionHits(lines) ==
    {Hit(n, "sql.migration.concurrent-in-txn") :
        n \in {k \in DOMAIN lines : /\ "create index concurrently" \in Words(ExecutableLines(lines)[k].text)
                                    /\ InTransaction(lines, k)}}

MigrationHits(lines, meta, verify) ==
    LET all == Statements(lines)
        full == FullText(lines)
    IN  TransactionHits(lines)
        \cup (IF SqliteRebuild(full)
              THEN {Hit(all[1].line, "sql.migration.sqlite-rebuild-no-check")} ELSE {})
        \cup UNION {HitsOn(all[k].line, StatementHits(all[k].text, full, meta, verify)) : k \in DOMAIN all}

WeakStatement(text, full) ==
    (IF StartsWith(text, {"create index"}) /\ ~After(text, "concurrently")
     THEN {"sql.migration.non-concurrent-index"} ELSE {})
    \cup (IF After(text, "not valid") /\ "validate constraint" \notin full
          THEN {"sql.migration.not-valid-unvalidated"} ELSE {})

MigrationAdvice(lines) ==
    LET all == Statements(lines)
    IN  UNION {HitsOn(all[k].line, WeakStatement(all[k].text, FullText(lines))) : k \in DOMAIN all}

-----------------------------------------------------------------------------
(* The rules on single lines.  A line that starts with a comment sign is   *)
(* passed over; what follows "--" is cut; nothing here knows that a block  *)
(* comment or a dollar quote is open.                                      *)

SqlLine(line) == IF StartsWith(line, {"--", "/*", "*/"}) THEN <<>> ELSE CutAt(line, {"--"})

WriteOnLine(text) ==
    /\ ~Inside(text, "where")
    /\ "delete from" \in Words(text) \/ (Before(text, "update") /\ Inside(text, "set"))

\* statement_lacks_where looks at whole lines, comments included, 40 ahead.
LOOKAHEAD == 40
LacksWhereHere(lines, n) == TRUE
LacksWhere(lines, n) ==
    \/ ";" \in Words(lines[n])
    \/ LET stops == {k \in (n + 1 .. n + LOOKAHEAD) \cap DOMAIN lines :
                        Words(lines[k]) \cap {"where", ";"} # {}}
       IN  stops = {} \/ "where" \notin Words(lines[Min(stops)])

DynamicSql(text) ==
    /\ {"execute", "||"} \subseteq Words(text) /\ Before(text, "select")
    /\ ~Inside(text, "using") /\ "quote_ident" \notin Words(text)

SqlLineHits(at, lines) ==
    LET ids(n) == IF ~Migration(at) /\ WriteOnLine(SqlLine(lines[n])) /\ LacksWhere(lines, n)
                  THEN {"sql.query.full-table-write"}
                  ELSE IF DynamicSql(SqlLine(lines[n])) THEN {"sql.dynamic-sql"} ELSE {}
    IN  UNION {HitsOn(n, ids(n)) : n \in DOMAIN lines}

SqlHits(at, lines, meta, verify) ==
    SqlLineHits(at, lines) \cup (IF Migration(at) THEN MigrationHits(lines, meta, verify) ELSE {})

SqlAdvice(at, lines) ==
    {Hit(n, "sql.review.select-star") :
        n \in {k \in DOMAIN lines : "select *" \in Words(SqlLine(lines[k]))}}
    \cup (IF Migration(at) THEN MigrationAdvice(lines) ELSE {})
=============================================================================
