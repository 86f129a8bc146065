# The jankurai audit kernel in TLA+

TLA+ modules that model the audit kernel (`src/crates/jankurai-audit-kernel`), TLC
configurations that check them on small instances, and theorems about them that TLAPS
proves for every value of the constants. `K/` below is
`src/crates/jankurai-audit-kernel/src/`.

- [The system](#the-system): components, state, operations, interactions, hazards
- [The modules](#the-modules): what models what, run by run and theorem by theorem
- [Bounds and fairness](#bounds-and-fairness)
- [What is not modelled, and where the code departs](#what-is-not-modelled)
- [Plan](#plan)

To check a run: `tlc -config <cfg> <module>`; a proof: `tlapm <module>Proofs.tla`.
`PROJECT.json` lists the runs, the mutants that show each property can fail, the source
lines of every definition, the hazards and the theorems.

## The system

The kernel is a library: a static auditor that takes the inventory of a repository, runs
detectors over it, and builds a report of findings with hard ones and score caps. The
command line that calls it lives in another repository, so what calls the kernel, git,
the file system, the clock and the developer are *external* in the models: they are
written from how the kernel uses them.

    smart_scan ──Full/Fast/Skip──▶ caller ──▶ fs: inventory ──▶ scan, language_rules, helpers
        ▲                                       │ overlay            │ source_context, span lexer
        │ save_state                            ▼                    ▼
        └────────────── report ◀── finding_builder (owner routes, rules) ◀── hits
                          │
                          ▼ validation (embedded schemas), render

### Components

| component | state | operations | what is hard | what makes it correct |
|---|---|---|---|---|
| **Smart scan** `K/audit/smart_scan.rs` | the record `target/jankurai/audit-state.json`, shared by all processes | `decide`, `save_state`, `git_status_changed_files` | five reads of things that change between them; no lock; a write that is truncate-then-write; crashes, failed saves, upgrades, a clock that is set back; staleness | an audit is narrowed only for what a full audit found clean; narrowed audits miss no hard finding; a hidden finding comes back |
| **Inventory** `K/audit/fs.rs`, `fs_policy.rs`, `file_kinds.rs` | `paths`, seeds, `Vec<FileInfo>` | walk (full, or from named paths), seed, read, `apply_overlay` | files that change or vanish between the passes; pruning of directories; two walks with different rules; sequences of overlays | no file is lost because of another; one entry per file; an overlay is what a walk would give; fast sees what full sees |
| **Rust span lexer** `K/audit/scan.rs` 2068–2264 | a lexer state, byte offset, line number, spans | one pass | quotes, lifetimes, nesting, raw strings, UTF-8 offsets, files that stop in a literal | spans are the text of comments and strings; no panic; right lines; it ends |
| **Source context** `K/audit/source_context.rs` | flags and brace depths; comment state | `source_lines`, `strip_comments`, `mark_rust_test_scaffolding` | state carried over the whole file: one wrong line mis-classifies the rest | production lines are not taken for tests, nor tests for production |
| **Schema validation** `K/validation.rs`, `build.rs` | the schema cache | strict parse, `validate_value`, version checks | recursion through `$ref` between files; error handling inside `anyOf`/`oneOf`; numbers | accepted artifacts satisfy their schema; satisfying ones are accepted; nothing is overridden |
| **Language rules** `K/audit/language_rules/*` | none; the files under `agent/` are read again | one chain of detectors per line and language; rules over statements and whole files; evidence, allows, the catalogue | lexers that carry a state from line to line; what excuses what; overlapping rules; caps; two lists of names | the lines judged are the lines that run; an excuse covers what it names; overlapping rules agree |
| **Other detectors** `K/audit/scan.rs`, `helpers.rs`, `rule_analyzer.rs` | none, except `git status` for generated zones | one function per rule | caps at 20 hits; order; safety docs above an item | what is hidden from the rules is guarded against edits; docs speak for their own item |
| **Findings** `K/audit/finding_builder.rs`, `rules.rs`, `catalog.rs` | the list of findings | `add`, `add_with_rule`, `add_draft` | zones are read again by each module and the owner map for each finding, while somebody may edit them | every finding was true and so owned at some moment, once; nothing due throughout is lost |
| **Routing catalog** `K/commands/context_data.rs` | maps loaded once | owner and test routes, proof lanes | three readers of one map, each with a notion of prefix of its own | they agree on plainly written maps |
| **Boundaries** `K/boundaries/*` | the manifest | reclassification lookups | none (pure) | |
| **Model, rendering, local paths** `model.rs`, `render.rs`, `report/`, `local_state.rs` | none | layout | none (data, text) | |
| **CI** `src/.github/workflows/ci.yml`, `src/scripts/ci-aggregate.mjs`, `src/ops/ci/*` | GitHub runs, jobs, checks, tags | `quality`, `required` (always), `publish-ci-tag` | cancellation, re-runs, two runs of a commit, an API that fails, a baseline that moves | a tag is only on a commit whose required checks passed; publishers do not race; what qualifies is tagged |

The hazards of each, line by line, are under `hazards` in `PROJECT.json`, with the
properties that cover them; a hazard without one says why.

## The modules

### Smart scan: `ScanLedger`, `SmartScan`, `SmartScanHistory`

`SmartScan` has one action per step of `decide` and `save_state`, and a step ends at each
read or write of something another process can change:

| code | action |
|---|---|
| `decide`, the `enabled`/`--full` check | `Start` |
| `load_state` | `LoadState` (absent, torn or unreadable file: a full audit) |
| `current_commit` and the checks of commit, version, hard findings, caps | `CurrentCommit`, `StillValid` |
| timer and roulette | `CheckClock`, `Overdue`, `Roulette` |
| `git_status_changed_files`, Skip or Fast | `GitStatus`, `Narrow` |
| `save_state`, record built from the report | `Report` |
| `std::fs::write` | `OpenState` (truncates), `WriteState` (writes) |

Around them stand the external actions: the caller's audits (`FastScan`, `FullInventory`
and `FullHead` in either order), `Edit`, `Commit`, `Checkout`, `Upgrade`, `Tick`,
`SetBack`, `Crash`. The constant `Env` says which of these surroundings may misbehave. A
file's content is a model value; `Hard[v]` and `Capped[v]` are the contents version `v`
of the auditor has a hard finding, or a cap, for. The record's time stamp is kept as its
age. Two history variables, `certified` and `narrowed`, are the state of `ScanLedger`,
the abstract promise: *an audit is narrowed only for a commit and version that an earlier
full audit found clean*.

| run | shows |
|---|---|
| `smart_disciplined` | Two auditors that race, crash, fail to save and are upgraded, over two commits, with a clock that is set back: `RecordCertified`, and `LedgerSpec` (SmartScan implements ScanLedger with the identity mapping). Git answers, full audits run on clean trees and nobody works while an auditor runs, so that also `CertifiedTrees` and `NarrowCoversHard` (Skip and Fast leave out no file with a hard finding) hold. |
| `smart_history` | One auditor whose saves succeed, everything else loose: `TypeOK`, `NoNarrowAfterDirtyFull`, and the liveness property `Backstop`: a hard finding that stays is reported again and again, because the timer ages the record that hides it. What a failed save does to the first of these is `smart_failed_save`'s. |
| `smart_dirty` (violation) | `SkipHasNothingToDo`: a full audit of an uncommitted fix certifies the commit that lacks it; the fix is dropped and the next audit is skipped. |
| `smart_failed_save` (violation) | `NoNarrowAfterDirtyFull`: a save that fails before the truncation costs more than "an unnecessary full scan". |

The last two are findings of `PROJECT.json`. Two auditors that race while a developer works
and git fails are in no run; `TypeCorrect`, `RecordsAreCertified` and
`ImplementsLedger` below cover them.

*Proved* (`SmartScanProofs`), for all sets of processes, files, commits, versions, and
all values of the interval and rate:

- `TypeCorrect`: `TypeOK`.
- `RecordsAreCertified`: `RecordCertified`, assuming `"undecided" \notin Env` (each saved
  report has a decision; without it the code records 0 hard findings). `RecordCertified`
  is inductive as it stands because its conjuncts follow the record through its life: on
  disk (`DiskVouched`), in a process's hands (`HeldVouched`), past the checks
  (`ChecksPassed`).
- `ImplementsLedger`: `Spec => LedgerSpec` under the same assumption. A step of `Report`
  is `Certify` or a stutter, a step of `GitStatus` is `Narrow` or a stutter, others
  stutter; that `Narrow`'s guard holds is `ChecksPassed` and `HeldVouched`.
- `CertifiedTreesAreClean`, `NarrowedAuditsAreSound`: `CertifiedTrees` and
  `NarrowCoversHard`, assuming `Disciplined`. `CertifiedTrees` is the inductive
  invariant: a certified tree has no hard finding (`CertifiedClean`), and what a process
  has collected so far still is the repository's state (`InventoryCurrent`,
  `HeadCurrent`). A narrowed audit then differs from a certified tree in changed files
  only, and these it reads.

- `NarrowedOnlyWhenClean`: `NoNarrowAfterDirtyFull`, an action property of
  `SmartScanHistory`, assuming one auditor that is not killed, whose saves succeed and whose
  reports have a decision (`Undisturbed`; without the second the violation run fails, and
  without the first two auditors save in either order). The invariant `NoneStale` says that
  neither the record on disk nor the one in the auditor's hands is clean for a commit and
  version whose last full audit was not; between `OpenState` and `WriteState` the disk has
  no record at all. `RecordCertified` supplies that an audit is narrowed only past the checks.

*Only model-checked*: `Backstop` (liveness).

### Rust span lexer: `RustSpans`, `RustTokens`, `CommentStripper`

`RustSpans` has one action per branch of the loop in `rust_comment_and_string_spans`; a byte
of the file is one of thirteen classes the lexer tells apart, two of them the bytes of a
character beyond ASCII. `RustTokens` says what the tokens of Rust are (words, literals of all
kinds, comments, nested ones, raw strings, strings that the file does not close, lifetimes)
of the bytes of the file, without reading them one after another as the lexer does, and
from that which text the lexer should collect (`TokenText`). `CommentStripper` is
`strip_comments` of `K/audit/source_context.rs` for files with C-like comments, the other
reader of comments: a recursive function over the bytes (`Reading`), in which only the block
comment goes from a line to the next. `MCRustSpans` builds the files: every one of up to three
tokens of its vocabulary, each checked to be `Tokenised`.

| run | shows |
|---|---|
| `rust_spans` | On every file of up to three tokens: `SpansAreText` (without lifetimes, exactly the text of comments and strings, each line once and in order), `LinesRight`, `SlicesLegal`, `TypeOK`, `Terminates`. And `StripperKeepsCode`: what the stripper keeps is exactly what is in no comment, unless comments nest or a raw string, a string over lines or a lifetime shares a line with a comment. |
| `rust_lifetimes` (violation) | `TextIsExact`, which is `SpansAreText` with lifetimes among the tokens: `'a` followed by a quote within twelve bytes is taken for a character literal, and the lexer is out of step for the rest of the file. |

*Proved* (`RustSpansProofs`). For every well-formed file: `TypeCorrect`, `SlicesAreLegal` (no
file makes the lexer panic on a slice: it always stands at a character boundary, and the
segment it will slice began at one) and `LinesAreRight` (the invariant needs the type
invariant, the boundaries, and that a segment has no newline). For every file made up of
tokens, of any number and length:

- `TextIsCollected`: `SpansAreText`. The invariant, `TextSynced`, says where the lexer stands:
  in token `n`, in the mode that kind of token calls for, at a byte of it; and that what it has
  collected is the text before token `n` and that of the lines of the token it has passed.
  One lemma per kind of token shows that the lexer leaves it just behind its last byte. Block
  comments need the depth of nesting at each byte (`Level`), strings the parity of
  backslashes (`Escapes`), raw strings that no earlier quote has enough hashes.
- `CodeIsKept`: `StripperKeepsCode`. The stripper is one function of the bytes, so this is an
  induction over them: before byte `k`, what is kept is the code before `k` (`Kept`), and the
  stripper is in what the token at `k` calls for (`InStep`), or, on a line that a raw string, a string over
  lines or a lifetime touches, in quotes or out of them (`Anywhere`), from which the end of the
  line brings it back.

*Only model-checked*: `Terminates`.

### Inventory: `Inventory`

The walk is a set of paths still to visit, expanded in any order (`Enter`, `Collect`),
then the seed pass and the read pass in any order (`Seed`, `Read`: the code runs them on a
thread pool and joins between them), while `Edit` changes the disk. `Skip` is
`should_skip`, with protected paths first. `Overlay` is `apply_overlay`, with and without
bytes; `landed` is the disk had the changes been written, for comparison, and `blind` the
files that a rename without bytes has moved there and that no overlay has given bytes since.

| run | shows |
|---|---|
| `inventory` | Two scenes. *Walk*: full and fast walks of a tree in which each rule has a file it leaves out and a neighbour it does not. *Overlay*: files edited during a walk, then sequences of overlays of every kind. `UntouchedListed` (edits and deletions around a file cost nobody else its entry), `FastOutsideFull` (where a fast audit sees more than a full one, and nowhere else), `OneEntryPerFile`, `OverlayIsWalk`, `TypeOK`. |

*Proved* (`InventoryProofs`), for every set of files, rules and edits: `TypeCorrect`;
`OneEntry`; `UntouchedAreListed` (the invariant `Traced` says where an untouched file is at
every moment: under a directory still to visit, collected, seeded, or listed);
`OverlaysAreWalks`, assuming no rule leaves out the candidates (the code does not ask): the
inventory is that of a walk after the writes, less the files in `blind`.
Its invariant, `Faithful`, is the converse of `Traced`: whatever is on the way is wanted.
`FastIsInsideFull`: `FastOutsideFull`. Its invariant, `FromNamed`, says that all a fast walk
has in hand, at every stage, was reached from a path it was asked for through no hidden
directory below that path; what a full walk leaves out of that lies under a hidden path
at or above the one asked for (`ReachedOrHidden`).

### Test scaffolding: `TestScaffold`

`mark_rust_test_scaffolding` decides which lines are test code. The model runs the scanner
beside a source that is written line by line: the source's own variables (`depth`, `base`,
`place`) say what rustc makes of it, the scanner's (`flags`, `cfg_depth`, `fn_depth`) are
the code's. `odd` collects unusual layouts met so far, so that a property can say for
which layouts it holds. One action of `Scan` per branch of the code's loop.

| run | shows |
|---|---|
| `test_scaffold` | `ExactMarks`: in the usual layout, at any nesting, the marked lines are exactly the test code. `TestsMarked`: with `#[cfg(test)]` on any item, test code is still never taken for production code; signatures over several lines, which the code does not recognise, are not among the items. `TypeOK`. |

*Proved* (`TestScaffoldProofs`) without bounds on nesting or on the braces of a line:
`TypeCorrect`, `MarksAreExact`, `TestsAreMarked`. The inductive invariants tie the scanner's depth
to the source's: inside a test `cfg_depth` or `fn_depth` is `depth - base` (`ExactInv`); with
odd items it is never less, so the scanner leaves a region no earlier than the source
(`MarkedInv`).

### Schema validation: `SchemaValidation`

The strict parse (`Parses`, `Value`), the keyword check at load time (`Supported`) and the
interpreter (`Validate` and one operator per group of keywords), next to `Standard`, a
reading of the same keywords as JSON Schema has them, where numbers are equal that are the same
number (`Equal`). Where the two are known to differ is named (`Agrees`): type names that are
none of the seven, which the validator accepts; `oneOf` with a file it refuses, and keywords in
the list form of `items`, which it does not look through (`Understood`); numbers equal but
written differently, 1 and 1.0 (`OneSpelling`). The recursion is over data, so the
module uses `RECURSIVE` operators and no theorem is stated in it.

| run | shows |
|---|---|
| `schema_validation` | Over 340 000 pairs of embedded schema files and documents: `Sound` (what is accepted is judged by all that is written in it, so that no duplicate key hides a value, and where `Agrees` holds it satisfies its schema, also with unknown keywords in a file reached through `$ref`), `Complete` (with supported keywords, and where `Agrees` holds, refused implies not satisfied). |

### Language rules: `LineRules`, `PolicyRules`, `SourceRules`, `SqlRules`, `CommentRules`, `LanguageRules`, `LanguageTruth`

A line is the set of needles it holds, in its code and in its comment, with the sign the
comment begins with and the detectors an allow in it names; where order matters (SQL,
Python, comments) it is the sequence of them. A detector is a rule (the needles that
together make it fire, and those that excuse it) or an operator of its own.

| module | code |
|---|---|
| `LineRules` | `common.rs`: comments, windows of lines, allows, proofs; the shape of a rule |
| `PolicyRules` | `docker.rs`, `ci.rs`, `git.rs`, `gittools.rs`, `release.rs` |
| `SourceRules` | `rust.rs` with the predicates of `scan.rs` it asks, `typescript.rs` with tsconfig, `python.rs` with `python_code_lines` |
| `SqlRules` | `sql_migration.rs` (executable lines, statements, evidence in metadata files, transactions) and `sql.rs` |
| `CommentRules` | `comments.rs` |
| `LanguageRules` | `mod.rs` and the tables of detectors; a file written line by line (`Write`), then a comment (`Remark`) or an allow (`Vouch`) added |
| `LanguageTruth` | no code: readers of Python and SQL that take a file token by token, as the languages do, and the properties that compare the code's line by line readers with them |

`MCLanguageRules` has thirteen kinds of files with their vocabularies. The readers of
`LanguageTruth` also say where the code's are known to be wrong (`tame`): a string begun in a
comment, two on a line, a comment sign in a comment. The properties are about the rest.

| run | shows |
|---|---|
| `language_rules` | The lines judged are the ones that run: `PythonLinesAreCode`, `StatementsAreExecuted`, `RemarksAreNotCode`. Excuses cover what they name: `SafetyDocsOwn`, `EvidenceIsWhole`, `NegationIsLocal`, `AllowNamesOne`. Overlapping readers agree: `ConfigsAgree`, `WriteRulesAgree`, `Catalogued`. |

*Proved* (`LanguageRulesProofs`), for all vocabularies, notes and lengths of files:

- `LinesAreWritten`: every line is one of the vocabulary, or one of them with a remark or
  an allow. This is the type invariant, `Typed`, of the theorems on lines.
- `EveryDetectorIsCatalogued`: `Catalogued`, table by table and operator by operator, with
  no assumption at all on the lines. The twelve exceptions are those of the code.
- `AnAllowIsForItsDetector`: `AllowNamesOne`. A file and the same file with an allow are
  `Alike` (every line has the same code and the same text of comments), so every rule makes
  the same hits on both (`AlikeHits`); the allow only decides which of them are kept. The
  rules of comments, which ask for another name, have a proof of their own (`CommentVouched`).
- `CodeIsNotRemarks`: `RemarksAreNotCode`. A remark changes the marks of a line and of what
  is near it by what rules may *gain* or *lose* only (`RemarkAnnotates`), and each table is
  gone through for the rules that ask for one of those (`DockerAsks`, `CiAsks`,
  `ReleaseAsks`); these are the detectors named `Aggravated` and `Excused`. What else it does
  not speak of is below.
- `SafetyDocsSpeakForTheNext`: `SafetyDocsOwn`. `MetadataAnswersAlone`: `EvidenceIsWhole`.
  `ReadersOfConfigsAgree`: `ConfigsAgree`. `NegationsAreLocal`: `NegationIsLocal`.
- `CodeIsNoDocstring`: `PythonLinesAreCode`. Both readers are recursive functions; their
  unfolding is proved once (`Induction`, `FollowsExists` and the lemmas on the readers). Along
  a line the language's reader and what `python_code_lines` does with the whole line are in
  one of four relations (`Row`: the string of an earlier line still open, a stretch of code, a
  string opened on the line, past a string that ended on it); every token keeps or changes the
  relation, its end gives the agreement of the line and the state for the next.
- `StatementsAreTheServers`: `StatementsAreExecuted`. Along a line the server's statements are
  those of the code for the part of the line read so far, once dollar quotes, block comments
  and line comments have been taken from it (`OpenRow`, or `QuotedRow` when the line began in a
  dollar quote). Across lines both are `InStep`: same quote, same comment, same statements
  done, same one open.
- `WriteRulesAreOne`: `WriteRulesAgree`. Every statement `Covers` the lines from its own to
  the first with a semicolon, or the last of the file (`StatementsCover`); so a `where` before
  its end is one that the search ahead of its first line meets before a semicolon
  (`NoneAhead`, `NoneBehind`, over sets of line numbers). The proof needed what the three lines
  of the run did not: a statement longer than 40 lines whose `WHERE` comes later is reported in
  a query file and not in a migration (`EndInSight`), and an `UPDATE` alone on a line that
  others follow was not excluded (`WritesInPlace`). Both are in the property now. So is that
  the rule on lines looks for ` set ` and ` where ` in a trimmed line, between other words,
  and the rule on statements for `update ` and `delete from ` at the beginning of a trimmed text,
  with something behind: needles with blanks are `Before`, `After`, `Inside` and `BeginsWith`.

They assume what makes a kind of file the kind it is: `TraitsAssumption` (only files of
comments are read for what is said, only JSON files parsed, files that drive tools are
neither Rust nor TypeScript, the GitLab file is YAML), `TokensAssumption` (lines of the files in which order matters
are sequences of tokens), `LinesAssumption` (a line without a comment sign has no comment and
no allow; `"safety docs"` is the mark for what stands above a line, never a needle of its
text) and `NotesAssumption` (the same of remarks). TLC evaluates them on the vocabularies of
the run.

`RemarksAreNotCode` leaves out remarks that hold what puts a file on the surface of the
release rules or the hook managers (`Saying`): these look for their words in the whole text,
so a remark can bring a file, with all its lines, under other rules. The proof showed this.
And it leaves out `#` remarks with a link in files whose release kind is `source`: there the
comment is cut at the first `//`, and at `#` only in a line without one, so that the remark is
code up to its link (`CutBehind`). The run has such remarks and files, and violates the
property without the condition.

Every invariant of the run is stated by a theorem.

### From files to the report: `Routing`, `AuditReport`, `AuditRun`

`Routing` has the three readers of `agent/owner-map.json` (`FindingOwner` of the finding
builder, by text prefix; `CatalogOwner` of the catalogue, by names; `MissingOwner` of the
detector of paths without an owner), and the two of `agent/generated-zones.toml`:
`Suppressed` (what zones hide from the rules) and `EditHits` (what edits are reported).

`AuditRun` is an audit in the order the code reads things: the inventory reads each file
once (`Read`), then the modules run in the order of `mod.rs`, those that ask for zones
reading the manifest anew (`Scan`, twice for Rust), then the builder adds finding after
finding and reads the owner map for each (`Add`). Meanwhile somebody saves sources, zones
or the owner map (`Save...`), torn or with a key repeated. A site is a place and a
detector; what the rules say there is in `LanguageRules`. The caller that strings these
together is not in the repository and is taken to do it in this order, once.

`AuditReport` is the promise, with two steps: `Edit`, and `Publish`, which gives a report
in which every finding was true, visible and so owned at some moment of the audit, once,
and in which every site that was due at every moment is reported, unless as many as the
cap may stand before it.

| run | shows |
|---|---|
| `audit_run` | Four sites of three modules in three files, one edit: `ReportIsJustified` (AuditRun implements AuditReport, with the report published at the end and worlds mapped to what they say of the sites), `QuietIsExact` (if nobody edits, the report is exactly the first sites of each module that are bad and in no zone, each under its owner; sites are sets, as findings are for `sort_and_cap_findings`, so that a line found twice counts once is not checked), `ManifestsAgree` (the three readers agree on plainly written maps without a file for a directory; what zones hide is guarded or refreshed). |

*Proved* (`AuditRunProofs`), for all sites, caps, manifests, owner maps and numbers of
edits: `TypeCorrect`, `ReportsAreJustified` (the refinement), `QuietReportsAreExact`. The
routing is not expanded, so they hold for any. The invariant of the refinement follows a
site through the audit: listed, it was bad (`ListedWasBad`); not listed, it was not at some
moment (`UnlistedWasCleared`); queued, it was shown (`QueuedWasShown`); scanned and not
queued, it was cleared at some moment or as many as the cap stood before it
(`DroppedForAReason`); and a finding's owner was given at some moment (`OwnersWereGiven`).
The history only grows, so what was true of a moment stays true (`Grows`).

`ReadersAgree` is `ManifestsAgree`, and rests on `RoutingProofs`: for every map of
`PlainKeys` (from the root, at most one slash behind, each directory once) that has the path
of no file with a slash behind it (`AsDirectory`), and every normalized path,

- a key by which the catalogue routes a path is a text prefix of it (`RoutedStarts`), and
  one that the detector of missing owners accepts routes it too, unless it ends within a
  name (`BelowIsRouted`);
- of two keys that are prefixes of one path the longer text has more names
  (`LongerIsSpecific`), so the longest key and the most specific one are the same entry
  (`ConsistentKeys`); `GuardedZones` is the part on zones.

`PathsAssumption` and `OwnersAssumption` say that paths are relative and normalized, as the
inventory makes them, and that keys are texts. The proof needs each of these conditions: the
readers do disagree on a key with a slash before it and on one that is a file's path with a
slash behind (the catalogue trims both and routes the file, the other two do not), and on a
key with two slashes behind (the builder alone does not trim them).

### CI: `CiPipeline`

Runs of `ci.yml` that are pushed, proposed or dispatched, enter the concurrency group of
their ref, cancel whom they find there and wait for them; their three jobs; repetitions of
a whole run or of its failed jobs, where jobs that succeeded stand with the attempt they
ran in; the checks of `ci-aggregate.mjs` (`ValidParents`, `ValidJobs`); the lookup and the
creation of `publish-ci-tag.sh` as two steps, either of which the API may fail, and
somebody else who makes the same tag between them.

| run | shows |
|---|---|
| `ci_pipeline` | Two runs over two commits, up to two attempts: `RequiredIsEarned` (a required check was earned by a quality job of its own attempt and commit), `TagsAreQualified` (the workflow makes tags only for commits so earned on a push to main), `PublishersTakeTurns` (a publisher fails only where the API failed it or somebody else made the tag), and the liveness property `QualifiedIsTagged` (what qualifies gets its tag, unless cancelled or failed by the API; a creation that succeeds while its answer is lost is not among the failures). |

*Proved* (`CiPipelineProofs`), for any number of runs, attempts and commits: `TypeCorrect`,
`RequiredChecksAreEarned`, `TagsAreEarned`, `NoRaceForTags`, and `PublishedTagsAreRight` (a
publisher that succeeds leaves its commit under its name, whoever made the tag). One
inductive invariant, `Inv`, carries them: jobs to come belong to the current attempt
(`CurrentAttempt`); a quality job that succeeded did so in the attempt it stands with
(`QualityIsEarned`); who runs has the turn of its group and places in line differ
(`TurnsKept`, `PlacesDiffer`), hence there is one publisher at a time (`OnePublisher`), and
what it found absent nobody of the workflow has made since (`AbsentForUs`).
*Only model-checked*: `QualifiedIsTagged`.

## Bounds and fairness

- *Smart scan*: two auditors are the fewest that race on the state file; one file and two
  contents (with and without a hard finding) are enough for every verdict; two commits for
  a checkout back to a certified one; two versions, whose hard contents are swapped, so
  that a version mixed up is seen. Ages beyond the interval are not told apart (the code
  only compares with it). The theorems have no such bound.
- *Rust lexer*: three tokens put each kind of literal before, after and between any
  others. The theorems have no bound.
- *Inventory*: one edited file in the walk of nine files; in the overlay scene edited files
  and overlays together are at most two, and the walk is a full one. Every file may be there or
  not, but for one the overlays leave alone, and one protected and one excluded of the walk,
  which are there until somebody deletes them. Two overlays reach rename-back and rename-onto. The theorems have no bound.
- *Test scaffolding*: `MaxDepth` 4 and `MaxNet` 2 reach a test inside a nested module that
  opens and closes braces by two.
- *Schema validation*: documents of depth two with up to two entries, schemas of the
  shapes found in `schemas/*.json`: keywords of one type beside each other, references
  that stand alone, two files.
- *Language rules*: files of two to four lines (`FileLines`), every sequence of the
  vocabulary of their kind, and one comment or allow. Four lines hold a construct that is
  opened, crossed by another, closed and followed by code; lookaheads of a fixed number of
  lines (2, 3, 12, 40) are in the operators as they are and are not filled by such files.
- *Audit run*: one edit during an audit (`MaxWorlds` 2) tears every pair of reads; caps of
  1 and 4 are reached and not reached. The theorems have no bound.
- *CI*: two runs are the fewest that race or cancel one another, two attempts the fewest in
  which a job of an earlier one stands in. The theorems have no bound.
- `CHECK_DEADLOCK FALSE` stands where the program ends or the model's runs are used up
  (lexer, inventory, validation, language rules, audit, CI).

*Fairness.* `Backstop` assumes weak fairness of each auditor as a whole (audits are run
again and again, and a process that runs is scheduled) and of `Tick` (time passes).
Nothing else is forced: not the developer, not failures, not upgrades. It assumes a timer
(`interval_secs > 0`) and a clock that is not set back for ever. `Terminates` assumes weak
fairness of the lexer's one loop. `QualifiedIsTagged` assumes `WF(Works(r))` for every run:
GitHub gives each job a runner and `ci.yml` gives each a timeout, so a run that can move
does; which way a job or an API call ends is left open, and triggers, repetitions and
cancellations are not forced.

## What is not modelled

- *Detectors of `scan.rs` and `rule_analyzer.rs`* other than those named above, most
  *helpers*, the rule table, *rendering*, *local paths*: tables of needles applied to one
  line at a time, predicates on names, or text.
- *Language rules*: how a needle is recognised in a line (spelling, words, regular
  expressions), the wording, and the advisory counts of ci, git, gittools and release.
- *Findings*: fingerprints, lanes, dimensions and scores.
- *Routing catalog*: test routes and proof lanes; which files the detector of missing owners
  looks at. *Boundaries*: lookups by path.
- *Source context*: the Python, hash, SQL and Lua comments of `strip_comments`, secrets.
- *CI*: what the lanes run, the baseline of the ratchet (on main a commit is compared with
  itself), the pre-push hook.
- *Inventory*: the classification by file name, the parse of the policy file, the order
  of entries, the capture limit.
- *Schema validation*: the wrappers that pick a schema per artifact, version checks,
  exception expiry. Regular expressions are sets of strings.
- *Test scaffolding*: braces in string and character literals, which `brace_balance`
  counts.

Where the code departs from what a reader might expect, and the models show it or assume
it away by name, beyond the three violation runs:

- A `git status` that fails is taken for a clean tree (`GitStatus`, `"gitfail"`), and
  `NarrowCoversHard` is stated without it.
- Names git prints escaped are only stripped of quotes (`Quoted`), ignored files are seen
  by full audits only (`Ignored`); `NarrowCoversHard` is stated for neither.
- A report without a decision is recorded as having no hard finding (`"undecided"`).
- Overlays do not ask `should_skip`; `OverlayIsWalk` is stated for wanted paths. A rename
  without bytes takes both names out of the inventory and lists nothing (`fs.rs:464`), while
  the comment on `bytes` (`fs.rs:392`) has it absent for deletions only; the file then is on
  disk and in no inventory until it is given bytes (`blind`).
- A fast inventory does not pass the directories above the paths it is given, so it lists
  files that a full one prunes (`FastOutsideFull` says exactly when).
- `#[cfg(test)]` on an item that is not `mod tests {` leaves a flag set that marks every
  following line as test code until some line holds those words; `TestsMarked` shows the
  error is only ever in that direction. Test functions with a signature over several lines
  are not recognised (`"split"`, `"inline"` and `"nested"` in `odd`).
- A lifetime, a raw string or a string over lines makes `strip_comments` keep a comment on
  its line as code; nested block comments end at the first end (`StripperKeepsCode` leaves them out).
- A `"""` in a `#` comment opens a docstring for the rest of the file; of two long strings
  begun on a line only one is seen (`PythonTruth.tame`).
- A dollar quote or `/*` within a `--` comment swallows the lines that follow; what stands
  behind a closing dollar quote on its line is dropped; a body that ends on the line it
  begins on is read as if it were executed (`SqlTruth.tame`).
- The search for safety docs passes over `pub(crate)` and `async` items (`Item`).
- Twelve detectors report names that the catalogue does not list, or lists under another
  severity (`Uncatalogued`), `rust.supply.lint-suppression` among them.
- In source lines a `#` remark with a link is code up to the link (`CutBehind`); the words
  that make a file one of hook managers count in remarks too (`HookTooling`).
- One word, `lock_timeout`, is a lock and a timeout: it alone is the lock posture that
  excuses a destructive migration (`LockPosture`).
- Detectors that read whole files take comments for evidence (`Excused`) and for what makes
  a line dangerous (`Aggravated`).
- Only some modules ask for an allow (`Honoured`).
- An option of a tsconfig spelled without a blank is off and reported on no line;
  `UPDATE` and `SET` on lines of their own are not seen in query files, nor is a `WHERE` or a
  `SET` that ends its line (`WritesInPlace`); a
  `WHERE` more than 40 lines below its `UPDATE` is not either, and the write is reported
  (`EndInSight`; the comment on `statement_lacks_where` says "up to its terminating `;`").
- A finding is routed by text prefix, the catalogue by names: a key may end within a name
  (`Consistent`). A map that repeats a key routes findings by the built-in table, while the
  detector of missing owners reads it; keys `/docs`, `./docs`, `docs//`, or two spellings of
  one directory are outside `PlainKeys`, and a file listed with a slash behind is
  `AsDirectory`.
- One report may mix two states of the manifests; `AuditReport` says how far.
- Keywords beside a `$ref`, and `oneOf` beside `anyOf`, are not looked at; no schema
  embedded has such a pair.
- The check of keywords does not look into the list form of `items`, and does look into
  objects that are values, under `enum` (`ValuesIn`); an unknown type name accepts
  everything (`Types`); `const`, `enum` and `uniqueItems` take 1 and 1.0 for different
  (`OneSpelling`).

## Plan

Done, in this order, most important first: `ScanLedger`, `SmartScan` (+ history, proofs);
`RustSpans` (+ proofs); `Inventory` (+ proofs); `TestScaffold` (+ proofs);
`SchemaValidation`; `CommentStripper`; the language rules (+ proofs); `Routing` (+ proofs),
`AuditReport`, `AuditRun` (+ proofs); `CiPipeline` (+ proofs).

Left:

1. The other styles of `strip_comments`, and its composition with `TestScaffold`: the braces
   of comments that are kept count for test regions.
2. `destructive_sql_hits`, `input_boundary_hits` and the caps at 20 hits of `scan.rs`.
3. Edits of generated zones over time: an edit, a regeneration and an audit that races them.
4. The ratchet: baselines, scores and the order of merges.
5. `Boundaries`, the capture limit of the inventory, exception expiry in `validation.rs`.
6. Theorems on the validator, which would need a recursive function over schemas in place of
   its `RECURSIVE` operators.

What stays with TLC, and why: `Backstop`, `Terminates`, `QualifiedIsTagged` (liveness under
fairness); `Sound`, `Complete` (the validator and its reference are `RECURSIVE` operators,
over schemas). That the lines of code `python_code_lines` finds, or the statements of a
migration, are right where `tame` does not hold is false, and stays in the list above.

The modules with theorems: `SmartScanProofs`, `RustSpansProofs`, `InventoryProofs`,
`TestScaffoldProofs`, `RoutingProofs`, `AuditRunProofs`, `CiPipelineProofs`,
`LanguageRulesProofs`.
