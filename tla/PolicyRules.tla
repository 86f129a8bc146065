---------------------------- MODULE PolicyRules -----------------------------
(***************************************************************************)
(* The rules on the files that drive tools: Docker, CI, git, git hooks     *)
(* and releases (language_rules/docker.rs, ci.rs, git.rs, gittools.rs,     *)
(* release.rs).  Each takes a path and its lines and gives its hits.       *)
(***************************************************************************)
EXTENDS LineRules

Excluded(at) == at \cap {"docs", "test"} # {}

\* is_executable_policy_surface
Policy(at) == at \cap {"workflow", "hooks", "scripts", "make", "dockerfile", "compose",
                       "gitmodules", "package"} # {}

\* Makefiles, Justfiles, scripts with a suffix and .gitmodules are read as shell, and so
\* on: every language has a line_kind of its own.
DockerKind(at) == IF "yaml" \in at THEN "yaml" ELSE "shell"
CiKind(at) == IF "yaml" \in at THEN "yaml" ELSE IF "jenkins" \in at THEN "shell" ELSE "source"
GitKind(at) == IF "yaml" \in at THEN "yaml"
               ELSE IF at \cap {"make", "sh", "gitmodules"} # {} THEN "shell" ELSE "source"
GitToolsKind(at) == IF "yaml" \in at THEN "yaml"
                    ELSE IF "package" \in at THEN "source" ELSE "shell"
ReleaseKind(at) == IF "yaml" \in at THEN "yaml"
                   ELSE IF at \cap {"make", "sh"} # {} THEN "shell" ELSE "source"

-----------------------------------------------------------------------------
(* Docker.                                                                 *)

DockerSurface(at) ==
    ~Excluded(at) /\ (at \cap {"dockerfile", "compose"} # {} \/ {"workflow", "yaml"} \subseteq at)

\* "install" stands for every word that holds the letters "all".
DockerRules == {
    Rule("docker.compose.socket-mount", {{"docker.sock"}}, {}),
    Rule("docker.compose.privileged", {{"privileged"}}, {}),
    Rule("docker.compose.host-namespace", {{"host namespace"}}, {}),
    Rule("docker.compose.dangerous-capability", {{"sys_admin", "install"}, {"cap_add:"}}, {}),
    Rule("docker.confinement.disabled", {{"unconfined"}}, {}),
    Rule("docker.secret.in-layer", {{"arg", "copy"}, {"secret path", "secret name"}}, {}),
    Rule("docker.install.unverified-remote", {{"curl"}, {"| sh", "unchecked"}}, {}),
    Rule("docker.image.mutable-tag", {{"from", "image:"}, {":latest"}}, {}),
    Rule("docker.port.public-db-admin", {{"db port"}, {"ports:"}}, {"localhost"}) }

DockerHits(at, lines) ==
    LET kind == DockerKind(at)
        file == Text(lines) \cap {"cap_add:", "ports:"}
    IN  UNION {HitsOn(n, Every(DockerRules, Cut(lines[n], kind) \cup file)) :
                 n \in CodeLines(lines, kind)}

DockerAdviceRules == {
    Rule("docker.review.root-user", {{"user root"}}, {}),
    Rule("docker.review.copy-dot-dot", {{"copy . ."}}, {}) }

\* The advisories: of the file, of the repository (whether a .dockerignore is in the
\* inventory) and of its lines.
DockerAdvice(at, lines, ignore) ==
    LET kind == DockerKind(at)
        image == "dockerfile" \in at
    IN  {Hit(1, id) : id \in
            (IF image /\ "healthcheck" \notin Text(lines)
             THEN {"docker.review.missing-healthcheck"} ELSE {}) \cup
            (IF at \cap {"dockerfile", "compose"} # {} /\ ~ignore
             THEN {"docker.review.missing-dockerignore"} ELSE {})}
        \cup UNION {HitsOn(n, Every(DockerAdviceRules, Cut(lines[n], kind))) : n \in CodeLines(lines, kind)}

-----------------------------------------------------------------------------
(* Continuous integration.                                                 *)

CiSurface(at) == ~Excluded(at) /\ ({"workflow", "yaml"} \subseteq at \/ at \cap {"gitlab", "jenkins"} # {})

\* Rules on the text of the whole file, comments included, each with the needles whose
\* first line is reported.
FileRule(id, needs, unless, needles) == [rule |-> Rule(id, needs, unless), needles |-> needles]

CiFileRules == {
    FileRule("ci.github.pull-request-target-checkout-head",
        {{"workflow"}, {"pull_request_target"}, {"checkout"}, {"pr head"}}, {},
        {"pr head", "checkout"}),
    FileRule("ci.permissions.missing", {{"workflow"}}, {"permissions:"}, {}),
    FileRule("ci.timeout.missing", {{"workflow"}}, {"timeout-minutes:"}, {}),
    FileRule("ci.concurrency.missing", {{"workflow"}}, {"concurrency:"}, {}),
    FileRule("ci.sarif.not-uploaded", {{"workflow"}, {"sarif"}}, {"upload-sarif"}, {"sarif"}),
    FileRule("ci.ratchet.self-generated-baseline", {{"baseline-score", "cp score to target"}}, {},
        {"baseline-score", "cp score to target"}),
    FileRule("ci.security.strict-missing", {{"--mode ratchet"}}, {"strict security"},
        {"--mode ratchet"}) }

CiLineRules == {
    Rule("ci.permissions.write-all", {{"permissions:"}, {"write-all"}}, {}),
    Rule("ci.secret.echo-or-debug", {{"echo", "set -x"}, {"secret name"}}, {}),
    Rule("ci.security-scan.nonblocking", {{"continue-on-error"}, {"near security"}}, {}),
    Rule("ci.action.mutable-ref", {{"uses:"}, {"@main"}}, {}),
    Rule("ci.action.mutable-ref", {{"image:"}, {":latest"}}, {}),
    Rule("ci.action.not-full-sha", {{"uses:"}, {"@main", "@v1"}}, {}),
    Rule("ci.artifact.cache.secret-path", {{"secret path"}}, {}) }

Runner == {"self-hosted", "privileged", "docker.sock"}
PrivilegedRunner(text) == /\ {"pull_request", "pull_request_target"} \cap text # {}
                          /\ Runner \cap text # {}
                          /\ "jobs:" \in text

\* The runner is looked for when the second line is, and an empty one is passed over.
RunnerHits(lines, kind) ==
    IF 2 \in CodeLines(lines, kind) /\ PrivilegedRunner(Text(lines))
    THEN {Hit(FirstWith(lines, Runner), "ci.untrusted-runner.privileged-docker")} ELSE {}

Security == {"security", "secret name"}

NearSecurity(lines, n) == IF Nearby(lines, n, 3) \cap Security # {} THEN {"near security"} ELSE {}

CiFileHits(at, lines) ==
    {Hit(FirstWith(lines, r.needles), r.rule.id) :
        r \in {q \in CiFileRules : Fires(q.rule, Text(lines) \cup (at \cap {"workflow"}))}}
CiLineHits(kind, lines) ==
    UNION {HitsOn(n, Every(CiLineRules, Cut(lines[n], kind) \cup NearSecurity(lines, n))) :
             n \in CodeLines(lines, kind)}
CiHits(at, lines) ==
    CiFileHits(at, lines) \cup CiLineHits(CiKind(at), lines) \cup RunnerHits(lines, CiKind(at))

-----------------------------------------------------------------------------
(* Git, and the hooks and hook managers that git.rs leaves to gittools.rs. *)

HookSurface(at) == at \cap {"hooks", "husky", "hook manager", "lintstagedrc"} # {}

GitSurface(at) == ~Excluded(at) /\ ~HookSurface(at) /\ Policy(at)

GitRules == {
    Rule("git.destructive.reset-hard", {{"git reset --hard"}}, {}),
    Rule("git.destructive.clean", {{"git clean"}}, {}),
    Rule("git.stash.hidden-state", {{"git stash -u", "git stash pop"}}, {}),
    Rule("git.remote.force-mutation", {{"git push --force", "git push origin --force"}}, {}),
    Rule("git.refs.destructive", {{"git branch -d", "git gc --prune=now"}}, {}),
    Rule("git.worktree.force-cleanup", {{"rm -rf .git", "git worktree prune"}}, {}),
    Rule("git.stage.unbounded", {{"git add .", "git commit -am", "--no-verify", "--no-verify;"}}, {}),
    Rule("git.remote.credential-url", {{"git clone"}, {"token@host"}}, {}) }

GitHits(at, lines) ==
    LET kind == GitKind(at)
    IN  UNION {HitsOn(n, Every(GitRules, Cut(lines[n], kind))) : n \in CodeLines(lines, kind)}

\* configures_hook_tooling; "hook tool" stands for the needles no rule asks for.
HookTooling == {"hook tool", "hooksPath /dev/null", ".git/hooks/", "lint-staged"}

GitToolsSurface(at, lines) ==
    /\ ~Excluded(at)
    /\ \/ HookSurface(at) \/ "package" \in at
       \/ at \cap {"make", "scripts", "workflow", "gitlab"} # {} /\ Text(lines) \cap HookTooling # {}

HookCommands == {"git reset --hard", "git clean", "git stash -u", "git branch -d",
    "rm -rf .git", "git push --force"}

GitToolsRules == {
    Rule("gittools.bypass.no-verify-automation", {{"--no-verify"}}, {}),
    Rule("gittools.hooks-path.disabled", {{"hooksPath /dev/null"}}, {}),
    Rule("gittools.raw-hooks.unversioned-install", {{"cp"}, {".git/hooks/"}}, {}),
    Rule("gittools.hook.destructive-git-command", {HookCommands}, {}),
    Rule("gittools.hook.unbounded-stage", {{"git add .", "git commit -am"}}, {"lint-staged"}),
    Rule("gittools.lint-staged.manual-restage", {{"git add ."}, {"lint-staged"}}, {}) }

\* package.json is read as JSON: the commands under "scripts", "husky", "lint-staged" and
\* commitizen, at the first line that holds the command.  One that cannot be parsed has none.
Sections == {"scripts", "lint-staged"}
CommandLine(lines, n) ==
    Min({k \in DOMAIN lines : lines[n].code \ Sections \subseteq Whole(lines[k])})

PackageHits(at, lines) ==
    IF "broken" \in at THEN {}
    ELSE UNION {HitsOn(CommandLine(lines, n), Every(GitToolsRules, lines[n].code)) :
                  n \in {k \in DOMAIN lines : lines[k].code \cap Sections # {}}}

GitToolsHits(at, lines) ==
    LET kind == GitToolsKind(at)
        staged == IF "lintstagedrc" \in at THEN {"lint-staged"} ELSE {}
        found == IF "package" \in at THEN PackageHits(at, lines)
                 ELSE UNION {HitsOn(n, Every(GitToolsRules, (Cut(lines[n], kind) \ Sections) \cup staged)) :
                               n \in CodeLines(lines, kind)}
    IN  {h \in found : ~Allowed(lines, h.line, h.id)}

-----------------------------------------------------------------------------
(* Releases.  What proves a release is looked for in the whole text, so a  *)
(* comment is proof too.                                                   *)

ReleaseCommand == {"gh release create", "gh release upload", "npm publish", "docker push",
                   "git tag -f", "git push refs/tags", "git push --force", "git push origin --force"}

ReleaseSurface(at, lines) ==
    /\ ~Excluded(at) /\ Policy(at)
    /\ \/ at \cap {"release", "package", "workflow"} # {}
          /\ Text(lines) \cap (ReleaseCommand \cup {"rollback"}) # {}
       \/ Text(lines) \cap ReleaseCommand # {}

Publishes == {"gh release create", "gh release upload", "npm publish"}
TagEvidence == {"--verify-tag"}
IntegrityEvidence == {"sha256"}
Bridge(text) == {"pull_request_target"} \cap text # {} /\ {"secrets.", "write-all"} \cap text # {}

ReleaseRules == {
    Rule("release.git.mutable-tag", {{"git tag -f"}}, {}),
    Rule("release.git.mutable-tag", {{"git push refs/tags"}, {"--delete"}}, {}),
    Rule("release.asset.mutable-upload", {{"gh release upload"}, {"--clobber"}}, {}),
    Rule("release.verification.skipped", {{"SKIP_TESTS=1"}}, {}),
    Rule("release.artifact.mutable-latest", {{"docker push"}, {":latest"}}, {}),
    Rule("release.secret.packaged", {{"gh release upload", "npm publish", "tar"},
        {"secret path", "secret name"}}, {}),
    Rule("release.gh.unverified-tag", {{"gh release create"}}, {"tag evidence"}),
    Rule("release.integrity.missing", {Publishes}, {"integrity evidence"}),
    Rule("release.workflow.untrusted-publish", {Publishes, {"bridge"}}, {}) }

ReleaseHits(at, lines) ==
    LET kind == ReleaseKind(at)
        text == Text(lines)
        file == (IF text \cap TagEvidence # {} THEN {"tag evidence"} ELSE {})
                \cup (IF text \cap IntegrityEvidence # {} THEN {"integrity evidence"} ELSE {})
                \cup (IF Bridge(text) THEN {"bridge"} ELSE {})
    IN  UNION {HitsOn(n, Every(ReleaseRules, Cut(lines[n], kind) \cup file)) :
                 n \in CodeLines(lines, kind)}
=============================================================================
