--------------------------- MODULE LanguageRules ----------------------------
(***************************************************************************)
(* The language rules together (language_rules/mod.rs): what they give for *)
(* a file, the catalogue of their detectors (catalog.rs), and a file that  *)
(* somebody writes line by line and then comments on.                      *)
(*                                                                         *)
(* A file is one for the rules whose surface it is on.  SQL, Python and    *)
(* the comment rules see lines as sequences, so that a file is modelled    *)
(* for them or for the others.                                             *)
(***************************************************************************)
EXTENDS PolicyRules, SourceRules, SqlRules, CommentRules

CONSTANTS
    Kinds,       \* the kinds of files that are written
    Traits,      \* ... what the rules ask of their paths
    Vocabulary,  \* ... and the lines they are made of
    Notes,       \* the comments that may be added, by kind
    MaxLines     \* bounds the lines of a file

\* Kinds whose lines are sequences, kinds that are JSON, and kinds that drive tools.
Sequenced == {"python", "sql", "migration", "ddl"}
Parsed == {"package", "tsconfig"}
Driving == {"docker", "workflow", "script", "hook"}

\* A kind is on the surfaces its name says, and is read as what it is written as.
ASSUME TraitsAssumption == \A k \in Kinds :
    /\ "said" \in Traits[k] <=> k = "comments"
    /\ Traits[k] \cap {"py", "sql"} # {} => k \in Sequenced \cup {"comments"}
    /\ Traits[k] \cap {"package", "tsconfig"} # {} => k \in Parsed
    /\ k = "comments" => CommentSurface(Traits[k])
    /\ k = "rust" => RustSurface(Traits[k])
    /\ k \in Driving => Traits[k] \cap {"rs", "ts"} = {}
    /\ "gitlab" \in Traits[k] => "yaml" \in Traits[k]

\* The note of a line without a comment sign; those of comments are sequences of phrases.
Silence(k) == IF k = "comments" THEN <<>> ELSE {}
Phrases == [phrase : STRING, negated : BOOLEAN]

\* A line that is no sequence has a note or an allow only behind a sign, and no needle of a text
\* is the mark for what stands around a line.
ASSUME LinesAssumption == \A k \in Kinds \ Sequenced : \A line \in Vocabulary[k] :
    /\ line.sign = "none" => line.note = Silence(k) /\ line.allow = {}
    /\ k = "comments" => line.note \in Seq(Phrases)
    /\ k = "rust" => "safety docs" \notin Whole(line)

ASSUME NotesAssumption == \A k \in Kinds : \A note \in Notes[k] :
    /\ k = "comments" => note \in Seq(Phrases)
    /\ k = "rust" => "safety docs" \notin note

VARIABLES
    kind,    \* the kind of the file
    lines,   \* its lines
    remarks  \* the comments added

vars == <<kind, lines, remarks>>

-----------------------------------------------------------------------------
(* The catalogue: the detectors of each table, hard ones and advisories.   *)

RustUnsafeCatalog == {"rust.unsafe.undocumented-block",
    "rust.unsafe.public-fn-missing-safety-doc", "rust.unsafe.impl-send-sync",
    "rust.unsafe.transmute", "rust.unsafe.assume-init", "rust.unsafe.zeroed",
    "rust.unsafe.get-unchecked", "rust.unsafe.unwrap-unchecked",
    "rust.unsafe.unreachable-unchecked", "rust.unsafe.from-utf8-unchecked",
    "rust.unsafe.raw-parts"}
RustCatalog == {"rust.unsafe.static-mut", "rust.unsafe.repr-packed",
    "rust.supply.allow-warnings", "rust.supply.rustflags-warn-suppression",
    "rust.security.shell-c-dynamic", "rust.async.unbounded-channel",
    "rust.async.block_on-in-async"}
RustAdviceCatalog == {"rust.review.clone-overuse", "rust.review.arc-mutex-default",
    "rust.review.rc-refcell-default", "rust.review.as-cast", "rust.review.repr-c",
    "rust.review.pin", "rust.review.atomics", "rust.review.generic-unwrap"}
SqlCatalog == {"sql.dynamic-sql", "sql.query.full-table-write", "sql.review.select-star"}
SqlMigrationCatalog == {"sql.migration.destructive-no-proof",
    "sql.migration.concurrent-in-txn", "sql.migration.cascade-convenience",
    "sql.migration.missing-lock-timeout", "sql.migration.missing-statement-timeout",
    "sql.migration.full-table-write"}
SqlMaintenanceCatalog == {"sql.migration.blocking-maintenance-op",
    "sql.migration.sqlite-unsafe-pragma", "sql.migration.sqlite-rebuild-no-check",
    "sql.migration.non-concurrent-index", "sql.migration.not-valid-unvalidated"}
TypeScriptCatalog == {"typescript.suppress.ts-nocheck", "typescript.types.any-boundary",
    "typescript.config.strict-disabled", "typescript.runtime.dangerous-eval-dom",
    "typescript.security.raw-command-sql"}
DockerCatalog == {"docker.compose.socket-mount", "docker.compose.privileged",
    "docker.compose.host-namespace", "docker.compose.dangerous-capability",
    "docker.confinement.disabled", "docker.secret.in-layer",
    "docker.install.unverified-remote", "docker.image.mutable-tag",
    "docker.port.public-db-admin"}
DockerAdviceCatalog == {"docker.review.missing-dockerignore", "docker.review.root-user",
    "docker.review.copy-dot-dot"}
PythonCatalog == {"python.exec.dynamic-code", "python.deser.unsafe-object",
    "python.shell.dynamic", "python.sql.string-built", "python.net.tls-debug",
    "python.review.broad-except"}
CiCatalog == {"ci.github.pull-request-target-checkout-head", "ci.permissions.write-all",
    "ci.secret.echo-or-debug", "ci.security-scan.nonblocking", "ci.action.mutable-ref",
    "ci.untrusted-runner.privileged-docker", "ci.artifact.cache.secret-path"}
GitCatalog == {"git.destructive.reset-hard", "git.destructive.clean",
    "git.stash.hidden-state", "git.remote.force-mutation", "git.refs.destructive",
    "git.worktree.force-cleanup", "git.stage.unbounded", "git.remote.credential-url"}
GitToolsCatalog == {"gittools.bypass.no-verify-automation", "gittools.hooks-path.disabled",
    "gittools.raw-hooks.unversioned-install", "gittools.hook.destructive-git-command",
    "gittools.hook.unbounded-stage", "gittools.lint-staged.manual-restage"}
ReleaseCatalog == {"release.git.mutable-tag", "release.asset.mutable-upload",
    "release.verification.skipped", "release.artifact.mutable-latest",
    "release.secret.packaged", "release.gh.unverified-tag", "release.integrity.missing",
    "release.workflow.untrusted-publish"}

\* Rules of these tables that are advisories.
TableAdvice == {"python.review.broad-except", "sql.review.select-star",
    "sql.migration.non-concurrent-index", "sql.migration.not-valid-unvalidated"}

HardCatalog == RustUnsafeCatalog \cup RustCatalog \cup TypeScriptCatalog \cup DockerCatalog
    \cup CiCatalog \cup GitCatalog \cup GitToolsCatalog \cup ReleaseCatalog
    \cup ((PythonCatalog \cup SqlCatalog \cup SqlMigrationCatalog \cup SqlMaintenanceCatalog)
           \ TableAdvice)
    \cup {"comment-hygiene.hard"}
AdviceCatalog == RustAdviceCatalog \cup DockerAdviceCatalog \cup TableAdvice
    \cup {"comment-hygiene.advisory"}

\* Detectors the code reports under and the catalogue does not have.
Uncatalogued == {"ci.permissions.missing", "ci.timeout.missing", "ci.concurrency.missing",
    "ci.sarif.not-uploaded", "ci.ratchet.self-generated-baseline", "ci.security.strict-missing",
    "ci.action.not-full-sha", "docker.review.missing-healthcheck", "rust.supply.lint-suppression",
    "typescript.review.non-null-assertion", "typescript.review.partial-patch",
    "typescript.review.skip-lib-check"}

-----------------------------------------------------------------------------
(* What the rules give for a file, by its traits.                          *)

OnSurface(on, hits) == IF on THEN hits ELSE {}

LineHits(at, ls) ==
    OnSurface(RustSurface(at), RustHits(ls))
    \cup OnSurface(TypeScriptSurface(at),
                   IF "tsconfig" \in at THEN TsConfigHits(at, ls) ELSE TypeScriptHits(ls))
    \cup OnSurface(DockerSurface(at), DockerHits(at, ls))
    \cup OnSurface(CiSurface(at), CiHits(at, ls))
    \cup OnSurface(GitSurface(at), GitHits(at, ls))
    \cup OnSurface(GitToolsSurface(at, ls), GitToolsHits(at, ls))
    \cup OnSurface(ReleaseSurface(at, ls), ReleaseHits(at, ls))

Findings(at, ls) ==
    IF "said" \in at THEN OnSurface(CommentSurface(at), CommentHits(at, ls))
    ELSE IF "py" \in at THEN OnSurface(PythonSurface(at), PythonHits(ls))
    ELSE IF "sql" \in at THEN OnSurface(SqlSurface(at), SqlHits(at, ls, {}, FALSE))
    ELSE LineHits(at, ls)

LineAdvice(at, ls) ==
    OnSurface(RustSurface(at), RustAdvice(ls))
    \cup OnSurface(TypeScriptSurface(at),
                   IF "tsconfig" \in at THEN TsConfigAdvice(at, ls) ELSE TypeScriptAdvice(ls))
    \cup OnSurface(DockerSurface(at), DockerAdvice(at, ls, FALSE))

AdvisorySignals(at, ls) ==
    IF "said" \in at THEN OnSurface(CommentSurface(at), CommentAdvice(at, ls))
    ELSE IF "py" \in at THEN OnSurface(PythonSurface(at), PythonAdvice(ls))
    ELSE IF "sql" \in at THEN OnSurface(SqlSurface(at), SqlAdvice(at, ls))
    ELSE LineAdvice(at, ls)

Path == Traits[kind]
Found == Findings(Path, lines)

-----------------------------------------------------------------------------
(* A file is written, and then one comment is added to it: a remark or an  *)
(* allow, behind the code of a line.                                       *)

\* Lines that are sequences, and those of JSON files, are not commented on.
Commentable == kind \notin Sequenced \cup Parsed
Sign == IF Path \cap {"rs", "ts"} # {} THEN "//" ELSE "#"

\* An allow for a comment names the detectors of comments together.
Named(id) == IF id = "comment-hygiene.hard" THEN {id, "comment-hygiene"} ELSE {id}

\* A line with a remark behind it, and with a complete "jankurai:allow" for one detector.
Noted(line, note) ==
    [code |-> line.code, sign |-> Sign, note |-> note, allow |-> line.allow]
Vouching(line, id) ==
    [code |-> line.code, sign |-> Sign, note |-> line.note, allow |-> Named(id)]

Init == kind \in Kinds /\ lines = <<>> /\ remarks = {}

Write(line) == /\ remarks = {} /\ Len(lines) < MaxLines[kind]
               /\ lines' = Append(lines, line)
               /\ UNCHANGED <<kind, remarks>>

Remark(n, note) == /\ Commentable /\ remarks = {} /\ lines[n].sign = "none"
                   /\ lines' = [lines EXCEPT ![n] = Noted(@, note)]
                   /\ remarks' = {n}
                   /\ UNCHANGED kind

Vouch(n, id) == /\ Commentable /\ remarks = {} /\ lines[n].sign = "none"
                /\ lines' = [lines EXCEPT ![n] = Vouching(@, id)]
                /\ remarks' = {n}
                /\ UNCHANGED kind

Next == \/ \E line \in Vocabulary[kind] : Write(line)
        \/ \E n \in DOMAIN lines, note \in Notes[kind] : Remark(n, note)
        \/ \E n \in DOMAIN lines, h \in Found : Vouch(n, h.id)

Spec == Init /\ [][Next]_vars

-----------------------------------------------------------------------------

\* A finding has its detector in the catalogue under hard rules, a signal under advisories
\* (catalog.rs against the detectors every module reports), but for the ones listed above:
\* a name that is spelled differently in the table and in the detector is found by nothing.
Catalogued ==
    /\ \A h \in Found : h.id \in HardCatalog \cup Uncatalogued
    /\ \A h \in AdvisorySignals(Path, lines) : h.id \in AdviceCatalog \cup Uncatalogued

\* The detectors whose modules ask for an allow.
Honoured == GitToolsCatalog \cup (TypeScriptCatalog \ {"typescript.config.strict-disabled"})
            \cup {"comment-hygiene.hard"}

\* An allow drops the findings of the detector it names, at most two lines away, and no other
\* finding of the file, whatever modules read it (nearby_allow, common.rs).
AllowNamesOne == [][\A n \in DOMAIN lines, id \in {h.id : h \in Found} : Vouch(n, id) =>
    Found' = {h \in Found : ~(h.id = id /\ id \in Honoured /\ h.line \in n - 2 .. n + 2)}]_vars

\* Detectors that look at the text of a whole file for what makes a line dangerous, and those
\* that look there, comments included, for what excuses it.
Aggravated == {r.rule.id : r \in CiFileRules} \cup {"docker.compose.dangerous-capability",
    "docker.port.public-db-admin", "ci.untrusted-runner.privileged-docker",
    "ci.security-scan.nonblocking", "release.workflow.untrusted-publish"}
Excused == {"ci.permissions.missing", "ci.timeout.missing", "ci.concurrency.missing",
    "ci.sarif.not-uploaded", "ci.security.strict-missing", "release.gh.unverified-tag",
    "release.integrity.missing"}

\* What puts a file on the surface of the rules on releases or hook managers.
Saying == ReleaseCommand \cup {"rollback"} \cup HookTooling

\* Of the files that drive tools, a comment is not code: a remark behind a line adds no finding
\* and takes none away, but for the detectors that read whole files, which may also move to the
\* line of the remark, and unless it says what puts the file on another surface, or has a link
\* in a file that some rules read as source, where the cut looks for "//" first
\* (strip_comments_for_line_language and the line kinds).
RemarksAreNotCode == [][\A n \in DOMAIN lines, note \in Notes[kind] :
    (Remark(n, note) /\ kind \in Driving /\ note \cap Saying = {}
        /\ ("//" \in note => ReleaseKind(Path) # "source")) =>
        /\ \A h \in Found' \ Found : h.id \in Aggravated
        /\ \A h \in Found \ Found' :
              h.id \in Excused \/ (h.id \in Aggravated /\ \E g \in Found' : g.id = h.id)]_vars

\* Safety docs speak for the next item: a public unsafe function is passed without a finding
\* only if a doc comment with a safety section stands above it and no item in between, the
\* lines that start with a plain pub, fn or impl (public_unsafe_has_safety_docs).
SafetyDocsOwn == kind = "rust" =>
    \A n \in DOMAIN lines : ("pub unsafe fn" \in lines[n].code /\ ~\E h \in Found : h.line = n) =>
        \E k \in 1 .. n - 1 : /\ Doc(lines[k]) /\ "# safety" \in lines[k].note
                              /\ \A j \in k .. n - 1 : ~Item(lines[j])

\* A configuration that JSON can parse and one that it cannot are read by different code: when
\* an option is spelled the usual way, what the first reports the second does too, and of
\* every option that is off the first reports a line (tsconfig_hard_hits).
ConfigsAgree == kind = "tsconfig" =>
    LET parsed == TsConfigHits({"tsconfig"}, lines)
        spelled == TsConfigHits({"tsconfig", "broken"}, lines)
    IN  /\ parsed \subseteq spelled
        /\ \A option \in Options, n \in DOMAIN lines : Canonical[option] \in Whole(lines[n]) =>
               \E h \in parsed : h.line <= n /\ Canonical[option] \in Whole(lines[h.line])

\* A negation speaks for the phrase behind it: a comment that says a dangerous phrase and never
\* negates it is reported, whatever else it negates, and one that negates all it says is not
\* (tier1_hit_for_comment, is_negated).
NegationIsLocal == kind = "comments" =>
    \A n \in DOMAIN lines : (HasComment(lines[n], Path) /\ ~Allowed(lines, n, "comment-hygiene")) =>
        LET note == lines[n].note
            said == {note[i].phrase : i \in DOMAIN note} \cap TIER1_ALL
            never == {note[i].phrase : i \in {j \in DOMAIN note : note[j].negated}}
            hit == \E h \in Found : h.line = n
        IN  /\ said \ never # {} => hit
            /\ (\A i \in DOMAIN note : note[i].negated) => ~hit

\* What the metadata files of a migration may say.
Approval == {"owner", "approved", "verify"}
Plan == {"rollback", "lock", "statement_timeout", "backup"}
Metadata == {Approval, Plan, Approval \cup Plan, Approval \cup {"rollback", "lock_timeout", "irreversible"},
             {"dependencies"}, {"dependencies", "owner"}, {"maintenance_window"}}

\* Metadata files answer for a migration one by one: what neither of two answers is reported
\* when both are there, so that an approval in one file does not vouch for a rollback planned in
\* another; and metadata never brings a finding that is not there without, but for the pragma
\* that a write to a whole table in the same statement hid (destructive_safety_evidence_present,
\* dependency_inventory_present).
EvidenceIsWhole == kind = "ddl" =>
    LET hits(meta) == MigrationHits(lines, meta, FALSE)
    IN  \A a, b \in Metadata :
            /\ hits({a}) \cap hits({b}) \subseteq hits({a, b})
            /\ \A h \in hits({a}) : h \in hits({}) \/ h.id = "sql.migration.sqlite-unsafe-pragma"
=============================================================================
