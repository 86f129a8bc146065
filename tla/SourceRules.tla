---------------------------- MODULE SourceRules -----------------------------
(***************************************************************************)
(* The rules on source code: Rust, TypeScript and Python                   *)
(* (language_rules/rust.rs, typescript.rs, python.rs), with the scans      *)
(* around a line that Rust asks of scan.rs and the docstrings that         *)
(* common.rs takes out of Python.                                          *)
(*                                                                         *)
(* Rust and TypeScript are read as they stand, comments included.          *)
(***************************************************************************)
EXTENDS LineRules

\* Paths that no source rule looks at: docs and generated code, tests and examples, the
\* auditor's own crates, and the zones a manifest declares generated.
RustSurface(at) == "rs" \in at /\ at \cap {"docs", "test", "own crate", "zone"} = {}
TypeScriptSurface(at) ==
    at \cap {"ts", "tsconfig"} # {} /\ at \cap {"docs", "test", "fixtures", "zone"} = {}
PythonSurface(at) == "py" \in at /\ at \cap {"docs", "test", "generated", "exempt"} = {}

-----------------------------------------------------------------------------
(* What Rust looks for around a line.                                      *)

Doc(line) == line.sign = "///" /\ line.code = {}
Item(line) == "item" \in line.code

\* line_has_nearby_safety_comment: three lines above to one below.
SafetyComment(lines, n) ==
    \E k \in (n - 3 .. n + 1) \cap DOMAIN lines : "safety:" \in Whole(lines[k])

\* public_unsafe_has_safety_docs: upwards past anything that is neither a doc comment nor an
\* item, then through one block of doc comments.  An item is a line that starts with pub, fn
\* or impl and a space, so "pub(crate) fn" and "async fn" are passed by.
PassedByAny(line) == ~Doc(line)
PassedBy(line) == ~Doc(line) /\ ~Item(line)
DocsOf(lines, n) ==
    {k \in (n - 12 .. n - 1) \cap DOMAIN lines :
        \E m \in k + 1 .. n : /\ \A j \in k .. m - 1 : Doc(lines[j])
                              /\ \A j \in m .. n - 1 : PassedBy(lines[j])}
SafetyDocs(lines, n) == \E k \in DocsOf(lines, n) : "# safety" \in lines[k].note

\* function_context_contains_async: 32 lines up, whatever function they are of.
AsyncAbove(lines, n) ==
    \E k \in (n - 32 .. n - 1) \cap DOMAIN lines : "async" \in Whole(lines[k])

\* is_fixed_safe_command_invocation, and the rule that asks it.
FixedProgram(marks) == "command::new(git" \in marks /\ ".arg(-c" \notin marks
Dynamic(marks) == {"command::new(sh", ".arg(-c", "command_text"} \subseteq marks

RustMarks(lines, n) ==
    LET marks == Whole(lines[n])
    IN  marks \cup (IF SafetyComment(lines, n) THEN {"safety comment"} ELSE {})
              \cup (IF SafetyDocs(lines, n) THEN {"safety docs"} ELSE {})
              \cup (IF AsyncAbove(lines, n) THEN {"async above"} ELSE {})
              \cup (IF Dynamic(marks) /\ ~FixedProgram(marks) THEN {"dynamic shell"} ELSE {})

\* hard_hit_for_line, in its order; a line gives one finding.
UnsafeChain == <<
    Rule("rust.unsafe.public-fn-missing-safety-doc", {{"pub unsafe fn"}}, {"safety docs"}),
    Rule("rust.unsafe.impl-send-sync", {{"unsafe impl send"}}, {}),
    Rule("rust.unsafe.undocumented-block", {{"unsafe {"}}, {"safety comment", "safety docs"}),
    Rule("rust.unsafe.transmute", {{"transmute("}}, {}),
    Rule("rust.unsafe.assume-init", {{"assume_init("}}, {}),
    Rule("rust.unsafe.zeroed", {{"mem::zeroed("}}, {}),
    Rule("rust.unsafe.get-unchecked", {{"get_unchecked("}}, {}) >>
UncheckedChain == <<
    Rule("rust.unsafe.unwrap-unchecked", {{"unwrap_unchecked("}}, {}),
    Rule("rust.unsafe.unreachable-unchecked", {{"unreachable_unchecked("}}, {}),
    Rule("rust.unsafe.from-utf8-unchecked", {{"from_utf8_unchecked("}}, {}),
    Rule("rust.unsafe.raw-parts", {{"box::from_raw(", "from_raw_parts("}}, {}),
    Rule("rust.unsafe.static-mut", {{"static mut"}}, {}),
    Rule("rust.unsafe.repr-packed", {{"repr(packed)"}}, {}) >>
RuntimeChain == <<
    Rule("rust.security.shell-c-dynamic", {{"dynamic shell"}}, {}),
    Rule("rust.async.unbounded-channel", {{"unbounded("}}, {}),
    Rule("rust.async.block_on-in-async", {{"block_on("}, {"async above"}}, {}) >>
RustChain == UnsafeChain \o UncheckedChain \o RuntimeChain

\* lint_suppression_hits, on the text of the first file of the repository that has a mark.  Its
\* line is the one that spells the needle with a dash (allow-warnings), as code does not: it has
\* no line, which is line 0.
LintMarks == {"allow(warnings)", "allow(clippy::all)", "allow(clippy::correctness)",
              "rustflags -a warnings"}
LintHit(lines) ==
    IF Text(lines) \cap LintMarks # {} THEN {Hit(0, "rust.supply.lint-suppression")} ELSE {}

RustHits(lines) ==
    LintHit(lines) \cup UNION {HitsOn(n, First(RustChain, RustMarks(lines, n))) : n \in DOMAIN lines}

\* advisory_hit_for_line.
RustAdviceChain == <<
    Rule("rust.review.clone-overuse", {{"clone("}}, {}),
    Rule("rust.review.arc-mutex-default", {{"arc<mutex<"}}, {}),
    Rule("rust.review.rc-refcell-default", {{"rc<refcell<"}}, {}),
    Rule("rust.review.as-cast", {{" as "}}, {}),
    Rule("rust.review.repr-c", {{"repr(c)"}}, {}),
    Rule("rust.review.pin", {{"pin<"}}, {}),
    Rule("rust.review.atomics", {{"atomic"}}, {}),
    Rule("rust.review.generic-unwrap", {{"unwrap("}}, {}) >>
RustAdvice(lines) ==
    UNION {HitsOn(n, First(RustAdviceChain, Whole(lines[n]))) : n \in DOMAIN lines}

-----------------------------------------------------------------------------
(* TypeScript.  All rules are asked of a line; findings near an allow that *)
(* names their detector are dropped.                                       *)

AnyBoundaryMisspelt == Rule("typescript.types.any_boundary", {{" as "}, {"req.body"}}, {})
AnyBoundary == Rule("typescript.types.any-boundary", {{" as "}, {"req.body"}}, {})
DangerousHtml == {
    Rule("typescript.runtime.dangerous-eval-dom", {{"innerhtml ="}}, {"sanitize"}),
    Rule("typescript.runtime.dangerous-eval-dom", {{"eval("}}, {"innerhtml ="}) }
RawCommandSql == Rule("typescript.security.raw-command-sql",
    {{"exec(", ".query("}, {"req.body", "command"}, {"${"}}, {})
TypeScriptRules == {
    Rule("typescript.suppress.ts-nocheck", {{"@ts-nocheck"}}, {}), AnyBoundary, RawCommandSql }
    \cup DangerousHtml

TypeScriptHits(lines) ==
    {h \in UNION {HitsOn(n, Every(TypeScriptRules, Whole(lines[n]))) : n \in DOMAIN lines} :
        ~Allowed(lines, h.line, h.id)}

\* A compiler configuration: an option is turned off by a line that spells it with a blank
\* behind the colon ("canonical") or without.  One that cannot be parsed as JSON, for a
\* comment say, is read line by line; in one that can, an option has one finding, at the first
\* line that has it in the canonical spelling, if there is one.
Options == {"strict", "strictNullChecks", "noEmitOnError"}
Canonical == [strict |-> "strict: false", strictNullChecks |-> "strictNullChecks: false",
              noEmitOnError |-> "noEmitOnError: false"]
Tight == [strict |-> "strict:false", strictNullChecks |-> "strictNullChecks:false",
          noEmitOnError |-> "noEmitOnError:false"]
KeyLines(lines, option) == {n \in DOMAIN lines : Canonical[option] \in Whole(lines[n])}
TurnedOff(lines, option) == {Canonical[option], Tight[option]} \cap Text(lines) # {}

ParsedLastKey(lines, option) ==
    IF TurnedOff(lines, option) /\ KeyLines(lines, option) # {}
    THEN {Max(KeyLines(lines, option))} ELSE {}
ParsedKeyHits(lines, option) ==
    IF TurnedOff(lines, option) /\ KeyLines(lines, option) # {}
    THEN {Min(KeyLines(lines, option))} ELSE {}

TsConfigHits(at, lines) ==
    LET found == IF "broken" \in at THEN UNION {KeyLines(lines, o) : o \in Options}
                 ELSE UNION {ParsedKeyHits(lines, o) : o \in Options}
    IN  HitsOnLines(found, "typescript.config.strict-disabled")

TypeScriptAdviceRules == {
    Rule("typescript.review.non-null-assertion", {{"name!"}}, {}),
    Rule("typescript.review.partial-patch", {{"partial<"}}, {}) }
TypeScriptAdvice(lines) ==
    UNION {HitsOn(n, Every(TypeScriptAdviceRules, Whole(lines[n]))) : n \in DOMAIN lines}
TsConfigAdvice(at, lines) ==
    LET known == {n \in DOMAIN lines : "skipLibCheck: true" \in Whole(lines[n])}
    IN  IF "broken" \in at \/ known = {} THEN {}
        ELSE {Hit(Min(known), "typescript.review.skip-lib-check")}

-----------------------------------------------------------------------------
(* Python.  A line is a sequence of tokens: the two triple quotes, the     *)
(* comment sign and, for the code between them, the needles it holds.      *)

TripleDouble == "\"\"\""
TripleSingle == "'''"
Triples == {TripleDouble, TripleSingle}

\* A line once the docstring it starts in has ended, and the docstring it ends in.
Resumed(line, doc) ==
    IF doc = "none" THEN line
    ELSE IF At(line, {doc}) = {} THEN <<>> ELSE Right(line, Min(At(line, {doc})))
Unclosed(line, doc) == doc # "none" /\ At(line, {doc}) = {}

OpenedAlways(code) ==
    LET start == Min(At(code, Triples))
    IN  IF At(code, Triples) = {} THEN [code |-> code, doc |-> "none"]
        ELSE [code |-> Left(code, start), doc |-> code[start]]

Opened(code) ==
    LET start == Min(At(code, Triples))
        close == At(Right(code, start), {code[start]})
    IN  IF At(code, Triples) = {} THEN [code |-> code, doc |-> "none"]
        ELSE IF close = {} THEN [code |-> Left(code, start), doc |-> code[start]]
        ELSE [code |-> Left(code, start) \o Right(Right(code, start), Min(close)), doc |-> "none"]

\* python_code_lines: the docstring open after n lines, and the code of a line.
PythonDoc(lines) ==
    LET doc[n \in 0 .. Len(lines)] ==
            IF n = 0 THEN "none"
            ELSE IF lines[n] = <<>> THEN doc[n - 1]
            ELSE IF Unclosed(lines[n], doc[n - 1]) THEN doc[n - 1]
            ELSE Opened(Resumed(lines[n], doc[n - 1])).doc
    IN  doc
PythonCode(lines, n) ==
    LET before == PythonDoc(lines)[n - 1]
    IN  IF Unclosed(lines[n], before) THEN <<>>
        ELSE CutAt(Opened(Resumed(lines[n], before)).code, {"#"})

PythonChain == <<
    Rule("python.exec.dynamic-code", {{"eval("}}, {"def "}),
    Rule("python.exec.dynamic-code", {{"exec(open("}}, {}),
    Rule("python.deser.unsafe-object", {{"yaml.load("}}, {"safe_load"}),
    Rule("python.deser.unsafe-object", {{"pickle.load"}}, {"yaml.load("}),
    Rule("python.shell.dynamic", {{"shell=true", "os.system("}}, {}),
    Rule("python.sql.string-built", {{"execute("}, {"select "}, {"f\""}}, {}),
    Rule("python.net.tls-debug", {{"verify=false"}}, {}) >>

\* normalize_python_line passes over what is left if it starts with another string.
ToMarks(code) == IF code = <<>> \/ code[1] \in Triples THEN {} ELSE {code[i] : i \in DOMAIN code}
PythonHits(lines) ==
    UNION {HitsOn(n, First(PythonChain, ToMarks(PythonCode(lines, n)))) : n \in DOMAIN lines}
PythonAdvice(lines) ==
    {Hit(n, "python.review.broad-except") :
        n \in {k \in DOMAIN lines : "except exception" \in ToMarks(PythonCode(lines, k))}}
=============================================================================
