------------------------- MODULE LanguageRulesProofs -------------------------
(***************************************************************************)
(* The language rules: what they report is in the catalogue, and what they *)
(* say of a file they say of every file.                                   *)
(***************************************************************************)
EXTENDS LanguageTruth, FiniteSetTheorems, SequenceTheorems, WellFoundedInduction, TLAPS

LEMMA MinIsLeast ==
  ASSUME NEW S, S \subseteq Nat, S # {}
  PROVE  Min(S) \in S /\ \A y \in S : Min(S) <= y
<1>1. \E x \in S : \A y \in S : <<y, x>> \notin OpToRel(<, Nat)
  BY NatLessThanWellFounded, WFMin
<1>2. \A x, y \in Nat : <<y, x>> \notin OpToRel(<, Nat) => x <= y
  BY DEF OpToRel
<1>3. \E x \in S : \A y \in S : x =< y
  BY <1>1, <1>2
<1> QED BY <1>3 DEF Min

-----------------------------------------------------------------------------
(* What a set or a chain of rules can report.                              *)

Ids(rules) == {r.id : r \in rules}

LEMMA EveryOfRules == ASSUME NEW rules, NEW marks PROVE Every(rules, marks) \subseteq Ids(rules)
BY DEF Every, Ids

LEMMA FirstOfChain ==
  ASSUME NEW rules, NEW chain \in Seq(rules), NEW marks
  PROVE  /\ First(chain, marks) \subseteq Ids(rules)
         /\ (\E k \in DOMAIN chain : Fires(chain[k], marks)) => First(chain, marks) # {}
<1> DEFINE fire == {k \in DOMAIN chain : Fires(chain[k], marks)}
<1>1. fire \subseteq Nat
  BY LenProperties
<1>2. First(chain, marks) = IF fire = {} THEN {} ELSE {chain[Min(fire)].id}
  BY DEF First
<1>3. CASE fire = {}
  BY <1>2, <1>3
<1>4. CASE fire # {}
  <2>1. Min(fire) \in DOMAIN chain
    BY <1>1, <1>4, MinIsLeast
  <2>2. chain[Min(fire)] \in rules
    BY <2>1, ElementOfSeq, LenProperties
  <2> QED BY <1>2, <1>4, <2>2 DEF Ids
<1> QED BY <1>3, <1>4

\* A rule for one of the detectors ids.
Of(ids, r) == \E id \in ids : \E needs, unless : r = Rule(id, needs, unless)

LEMMA RuleIds == ASSUME NEW ids, NEW r, Of(ids, r) PROVE r.id \in ids
BY DEF Of, Rule

LEMMA OfRule == ASSUME NEW ids, NEW id \in ids, NEW x, NEW y PROVE Of(ids, Rule(id, x, y))
BY DEF Of

\* The elements of a chain of so many rules.
LEMMA Tuple3 ==
  ASSUME NEW ids, NEW a, NEW b, NEW c,
         Of(ids, a), Of(ids, b), Of(ids, c)
  PROVE  \E S : /\ <<a, b, c>> \in Seq(S) /\ Len(<<a, b, c>>) = 3
                /\ \A r \in S : Of(ids, r)
<1> DEFINE S == {a, b, c}
<1>1. <<a, b, c>> \in Seq(S) /\ Len(<<a, b, c>>) = 3 /\ \A r \in S : Of(ids, r)
  OBVIOUS
<1> HIDE DEF S
<1> QED BY <1>1

LEMMA Tuple6 ==
  ASSUME NEW ids, NEW a, NEW b, NEW c, NEW d, NEW e, NEW f,
         Of(ids, a), Of(ids, b), Of(ids, c), Of(ids, d), Of(ids, e), Of(ids, f)
  PROVE  \E S : /\ <<a, b, c, d, e, f>> \in Seq(S) /\ Len(<<a, b, c, d, e, f>>) = 6
                /\ \A r \in S : Of(ids, r)
<1> DEFINE S == {a, b, c, d, e, f}
<1>1. <<a, b, c, d, e, f>> \in Seq(S) /\ Len(<<a, b, c, d, e, f>>) = 6 /\ \A r \in S : Of(ids, r)
  OBVIOUS
<1> HIDE DEF S
<1> QED BY <1>1

LEMMA Tuple7 ==
  ASSUME NEW ids, NEW a, NEW b, NEW c, NEW d, NEW e, NEW f, NEW g,
         Of(ids, a), Of(ids, b), Of(ids, c), Of(ids, d), Of(ids, e), Of(ids, f), Of(ids, g)
  PROVE  \E S : /\ <<a, b, c, d, e, f, g>> \in Seq(S) /\ Len(<<a, b, c, d, e, f, g>>) = 7
                /\ \A r \in S : Of(ids, r)
<1> DEFINE S == {a, b, c, d, e, f, g}
<1>1. <<a, b, c, d, e, f, g>> \in Seq(S) /\ Len(<<a, b, c, d, e, f, g>>) = 7 /\ \A r \in S : Of(ids, r)
  OBVIOUS
<1> HIDE DEF S
<1> QED BY <1>1

LEMMA Tuple8 ==
  ASSUME NEW ids, NEW a, NEW b, NEW c, NEW d, NEW e, NEW f, NEW g, NEW h,
         Of(ids, a), Of(ids, b), Of(ids, c), Of(ids, d), Of(ids, e), Of(ids, f), Of(ids, g), Of(ids, h)
  PROVE  \E S : /\ <<a, b, c, d, e, f, g, h>> \in Seq(S) /\ Len(<<a, b, c, d, e, f, g, h>>) = 8
                /\ \A r \in S : Of(ids, r)
<1> DEFINE S == {a, b, c, d, e, f, g, h}
<1>1. <<a, b, c, d, e, f, g, h>> \in Seq(S) /\ Len(<<a, b, c, d, e, f, g, h>>) = 8 /\ \A r \in S : Of(ids, r)
  OBVIOUS
<1> HIDE DEF S
<1> QED BY <1>1

RustHard == RustUnsafeCatalog \cup RustCatalog
PythonHard == PythonCatalog \ TableAdvice

LEMMA UnsafeIds ==
  \E S : /\ UnsafeChain \in Seq(S) /\ Len(UnsafeChain) = 7
         /\ \A r \in S : Of(RustUnsafeCatalog, r)
<1>1. \A x, y : /\ Of(RustUnsafeCatalog, Rule("rust.unsafe.public-fn-missing-safety-doc", x, y))
               /\ Of(RustUnsafeCatalog, Rule("rust.unsafe.impl-send-sync", x, y))
               /\ Of(RustUnsafeCatalog, Rule("rust.unsafe.undocumented-block", x, y))
               /\ Of(RustUnsafeCatalog, Rule("rust.unsafe.transmute", x, y))
               /\ Of(RustUnsafeCatalog, Rule("rust.unsafe.assume-init", x, y))
               /\ Of(RustUnsafeCatalog, Rule("rust.unsafe.zeroed", x, y))
               /\ Of(RustUnsafeCatalog, Rule("rust.unsafe.get-unchecked", x, y))
  BY OfRule DEF RustUnsafeCatalog
<1> QED BY <1>1, Tuple7, Zenon DEF UnsafeChain

LEMMA UncheckedIds ==
  \E S : /\ UncheckedChain \in Seq(S) /\ Len(UncheckedChain) = 6
         /\ \A r \in S : Of(RustHard, r)
<1>1. \A x, y : /\ Of(RustHard, Rule("rust.unsafe.unwrap-unchecked", x, y))
               /\ Of(RustHard, Rule("rust.unsafe.unreachable-unchecked", x, y))
               /\ Of(RustHard, Rule("rust.unsafe.from-utf8-unchecked", x, y))
               /\ Of(RustHard, Rule("rust.unsafe.raw-parts", x, y))
               /\ Of(RustHard, Rule("rust.unsafe.static-mut", x, y))
               /\ Of(RustHard, Rule("rust.unsafe.repr-packed", x, y))
  BY OfRule DEF RustHard, RustUnsafeCatalog, RustCatalog
<1> QED BY <1>1, Tuple6, Zenon DEF UncheckedChain

LEMMA RuntimeIds ==
  \E S : /\ RuntimeChain \in Seq(S) /\ Len(RuntimeChain) = 3
         /\ \A r \in S : Of(RustCatalog, r)
<1>1. \A x, y : /\ Of(RustCatalog, Rule("rust.security.shell-c-dynamic", x, y))
               /\ Of(RustCatalog, Rule("rust.async.unbounded-channel", x, y))
               /\ Of(RustCatalog, Rule("rust.async.block_on-in-async", x, y))
  BY OfRule DEF RustCatalog
<1> QED BY <1>1, Tuple3, Zenon DEF RuntimeChain

LEMMA RustAdviceIds ==
  \E S : /\ RustAdviceChain \in Seq(S) /\ Len(RustAdviceChain) = 8
         /\ \A r \in S : Of(RustAdviceCatalog, r)
<1>1. \A x, y : /\ Of(RustAdviceCatalog, Rule("rust.review.clone-overuse", x, y))
               /\ Of(RustAdviceCatalog, Rule("rust.review.arc-mutex-default", x, y))
               /\ Of(RustAdviceCatalog, Rule("rust.review.rc-refcell-default", x, y))
               /\ Of(RustAdviceCatalog, Rule("rust.review.as-cast", x, y))
               /\ Of(RustAdviceCatalog, Rule("rust.review.repr-c", x, y))
               /\ Of(RustAdviceCatalog, Rule("rust.review.pin", x, y))
               /\ Of(RustAdviceCatalog, Rule("rust.review.atomics", x, y))
               /\ Of(RustAdviceCatalog, Rule("rust.review.generic-unwrap", x, y))
  BY OfRule DEF RustAdviceCatalog
<1> QED BY <1>1, Tuple8, Zenon DEF RustAdviceChain

LEMMA PythonIds ==
  \E S : /\ PythonChain \in Seq(S) /\ Len(PythonChain) = 7
         /\ \A r \in S : Of(PythonHard, r)
<1>1. \A x, y : /\ Of(PythonHard, Rule("python.exec.dynamic-code", x, y))
               /\ Of(PythonHard, Rule("python.deser.unsafe-object", x, y))
               /\ Of(PythonHard, Rule("python.shell.dynamic", x, y))
               /\ Of(PythonHard, Rule("python.sql.string-built", x, y))
               /\ Of(PythonHard, Rule("python.net.tls-debug", x, y))
  BY OfRule DEF PythonHard, PythonCatalog, TableAdvice
<1> QED BY <1>1, Tuple7, Zenon DEF PythonChain

LEMMA Joined ==
  ASSUME NEW S, NEW s \in Seq(S), NEW t \in Seq(S), NEW u \in Seq(S),
         Len(s) = 7, Len(t) = 6, Len(u) = 3
  PROVE  /\ s \o t \o u \in Seq(S) /\ DOMAIN (s \o t \o u) = 1 .. 16
         /\ (s \o t \o u)[1] = s[1]
<1>1. s \o t \in Seq(S) /\ Len(s \o t) = 13 /\ (s \o t)[1] = s[1]
  <2>1. s \o t \in Seq(S) /\ Len(s \o t) = Len(s) + Len(t)
    BY ConcatProperties
  <2>2. \A i \in 1 .. Len(s) + Len(t) : (s \o t)[i] = IF i <= Len(s) THEN s[i] ELSE t[i - Len(s)]
    BY ConcatProperties
  <2> QED BY <2>1, <2>2
<1> DEFINE r == s \o t
<1> HIDE DEF r
<1>2. r \in Seq(S) /\ Len(r) = 13 /\ r[1] = s[1]
  BY <1>1 DEF r
<1>3. r \o u \in Seq(S) /\ Len(r \o u) = 16 /\ (r \o u)[1] = r[1]
  <2>1. r \o u \in Seq(S) /\ Len(r \o u) = Len(r) + Len(u)
    BY <1>2, ConcatProperties
  <2>2. \A i \in 1 .. Len(r) + Len(u) : (r \o u)[i] = IF i <= Len(r) THEN r[i] ELSE u[i - Len(r)]
    BY <1>2, ConcatProperties
  <2> QED BY <1>2, <2>1, <2>2
<1>4. DOMAIN (r \o u) = 1 .. 16
  BY <1>3, LenProperties
<1> QED BY <1>2, <1>3, <1>4 DEF r

LEMMA RustIds ==
  \E S : /\ RustChain \in Seq(S) /\ DOMAIN RustChain = 1 .. 16
         /\ RustChain[1] = UnsafeChain[1] /\ \A r \in S : Of(RustHard, r)
<1>1. PICK S1 : /\ UnsafeChain \in Seq(S1) /\ Len(UnsafeChain) = 7
                /\ (\A r \in S1 : Of(RustUnsafeCatalog, r))
  BY UnsafeIds
<1>2. PICK S2 : /\ UncheckedChain \in Seq(S2) /\ Len(UncheckedChain) = 6
                /\ (\A r \in S2 : Of(RustHard, r))
  BY UncheckedIds
<1>3. PICK S3 : /\ RuntimeChain \in Seq(S3) /\ Len(RuntimeChain) = 3
                /\ (\A r \in S3 : Of(RustCatalog, r))
  BY RuntimeIds
<1> DEFINE S == S1 \cup S2 \cup S3
<1>4. \A r \in S : Of(RustHard, r)
  BY <1>1, <1>2, <1>3 DEF Of, RustHard
<1>5. UnsafeChain \in Seq(S) /\ UncheckedChain \in Seq(S) /\ RuntimeChain \in Seq(S)
  BY <1>1, <1>2, <1>3
<1> HIDE DEF S
<1>6. \A s, t, u \in Seq(S) : Len(s) = 7 /\ Len(t) = 6 /\ Len(u) = 3 =>
        /\ s \o t \o u \in Seq(S) /\ DOMAIN (s \o t \o u) = 1 .. 16
        /\ (s \o t \o u)[1] = s[1]
  BY Joined
<1>7. RustChain \in Seq(S) /\ DOMAIN RustChain = 1 .. 16 /\ RustChain[1] = UnsafeChain[1]
  BY <1>1, <1>2, <1>3, <1>5, <1>6, Zenon DEF RustChain
<1> QED BY <1>4, <1>7

\* A detector of TypeScript that asks for no allow.
Unasked == {"typescript.config.strict-disabled"}

LEMMA TypeScriptIds == Ids(TypeScriptRules) \subseteq TypeScriptCatalog \ Unasked
<1>1. \A r \in TypeScriptRules : Of(TypeScriptCatalog \ Unasked, r)
  BY Zenon DEF Of, TypeScriptRules, AnyBoundary, RawCommandSql, DangerousHtml, TypeScriptCatalog, Unasked
<1> QED BY <1>1, RuleIds DEF Ids

LEMMA DockerIds == Ids(DockerRules) \subseteq DockerCatalog
<1>1. \A r \in DockerRules : Of(DockerCatalog, r)
  BY Zenon DEF Of, DockerRules, DockerCatalog
<1> QED BY <1>1, RuleIds DEF Ids

CiHard == CiCatalog \cup Uncatalogued

LEMMA CiLineIds == Ids(CiLineRules) \subseteq CiHard
<1>1. \A r \in CiLineRules : Of(CiHard, r)
  BY Zenon DEF Of, CiLineRules, CiHard, CiCatalog, Uncatalogued
<1> QED BY <1>1, RuleIds DEF Ids

LEMMA GitIds == Ids(GitRules) \subseteq GitCatalog
<1>1. \A r \in GitRules : Of(GitCatalog, r)
  BY Zenon DEF Of, GitRules, GitCatalog
<1> QED BY <1>1, RuleIds DEF Ids

LEMMA GitToolsIds == Ids(GitToolsRules) \subseteq GitToolsCatalog
<1>1. \A r \in GitToolsRules : Of(GitToolsCatalog, r)
  BY Zenon DEF Of, GitToolsRules, GitToolsCatalog
<1> QED BY <1>1, RuleIds DEF Ids

LEMMA ReleaseIds == Ids(ReleaseRules) \subseteq ReleaseCatalog
<1>1. \A r \in ReleaseRules : Of(ReleaseCatalog, r)
  BY Zenon DEF Of, ReleaseRules, ReleaseCatalog
<1> QED BY <1>1, RuleIds DEF Ids

LEMMA TypeScriptAdviceIds == Ids(TypeScriptAdviceRules) \subseteq Uncatalogued
<1>1. \A r \in TypeScriptAdviceRules : Of(Uncatalogued, r)
  BY Zenon DEF Of, TypeScriptAdviceRules, Uncatalogued
<1> QED BY <1>1, RuleIds DEF Ids

LEMMA DockerAdviceIds == Ids(DockerAdviceRules) \subseteq DockerAdviceCatalog
<1>1. \A r \in DockerAdviceRules : Of(DockerAdviceCatalog, r)
  BY Zenon DEF Of, DockerAdviceRules, DockerAdviceCatalog
<1> QED BY <1>1, RuleIds DEF Ids

LEMMA CiFileIds == ASSUME NEW r \in CiFileRules PROVE r.rule.id \in CiHard
<1>1. \E id \in CiHard : \E needs, unless, needles : r = FileRule(id, needs, unless, needles)
  BY Zenon DEF CiFileRules, CiHard, CiCatalog, Uncatalogued
<1> QED BY <1>1 DEF FileRule, Rule

-----------------------------------------------------------------------------
(* What the rules report has its detector in the catalogue.                *)

HardIds == HardCatalog \cup Uncatalogued
AdviceIds == AdviceCatalog \cup Uncatalogued

LEMMA FirstIds ==
  ASSUME NEW ids, NEW S, NEW chain \in Seq(S), \A r \in S : Of(ids, r), NEW marks
  PROVE  First(chain, marks) \subseteq ids
<1>1. First(chain, marks) \subseteq Ids(S)
  BY FirstOfChain
<1>2. Ids(S) \subseteq ids
  BY RuleIds DEF Ids
<1> QED BY <1>1, <1>2

LEMMA OnLine ==
  ASSUME NEW n, NEW ids, NEW h PROVE h \in HitsOn(n, ids) <=> h = Hit(n, h.id) /\ h.id \in ids
BY DEF HitsOn, Hit

RustNames == RustHard \cup {"rust.supply.lint-suppression"}

LEMMA RustHitIds == ASSUME NEW ls PROVE \A h \in RustHits(ls) : h.id \in RustNames
<1>1. \A marks : First(RustChain, marks) \subseteq RustHard
  BY RustIds, FirstIds
<1>2. \A h \in LintHit(ls) : h.id \in RustNames
  BY DEF LintHit, Hit, RustNames
<1>3. \A h \in RustHits(ls) : h \in LintHit(ls) \/ \E n, marks : h \in HitsOn(n, First(RustChain, marks))
  BY DEF RustHits
<1> QED BY <1>1, <1>2, <1>3, OnLine DEF RustNames

LEMMA TypeScriptHitIds ==
  ASSUME NEW ls PROVE \A h \in TypeScriptHits(ls) : h.id \in TypeScriptCatalog \ Unasked
<1>1. \A marks : Every(TypeScriptRules, marks) \subseteq TypeScriptCatalog \ Unasked
  BY EveryOfRules, TypeScriptIds
<1> QED BY <1>1 DEF TypeScriptHits, HitsOn, Hit

LEMMA TsConfigHitIds == ASSUME NEW at, NEW ls PROVE \A h \in TsConfigHits(at, ls) : h.id \in Unasked
BY DEF TsConfigHits, HitsOnLines, Hit, Unasked

LEMMA DockerHitIds == ASSUME NEW at, NEW ls PROVE \A h \in DockerHits(at, ls) : h.id \in DockerCatalog
<1>1. \A marks : Every(DockerRules, marks) \subseteq DockerCatalog
  BY EveryOfRules, DockerIds
<1>2. \A h \in DockerHits(at, ls) : \E n, marks : h \in HitsOn(n, Every(DockerRules, marks))
  BY DEF DockerHits
<1> QED BY <1>1, <1>2, OnLine

LEMMA CiHitIds == ASSUME NEW at, NEW ls PROVE \A h \in CiHits(at, ls) : h.id \in CiHard
<1>1. \A marks : Every(CiLineRules, marks) \subseteq CiHard
  BY EveryOfRules, CiLineIds
<1>2. "ci.untrusted-runner.privileged-docker" \in CiHard
  BY DEF CiHard, CiCatalog
<1>3. \A k : \A h \in RunnerHits(ls, k) : h.id \in CiHard
  BY <1>2 DEF RunnerHits, Hit
<1>4. \A h \in CiFileHits(at, ls) : h.id \in CiHard
  BY CiFileIds DEF CiFileHits, Hit
<1>5. \A h \in CiLineHits(CiKind(at), ls) : h.id \in CiHard
  <2>1. \A h \in CiLineHits(CiKind(at), ls) : \E n, marks : h \in HitsOn(n, Every(CiLineRules, marks))
    BY DEF CiLineHits
  <2> QED BY <1>1, <2>1, OnLine
<1> QED BY <1>3, <1>4, <1>5 DEF CiHits

LEMMA GitHitIds == ASSUME NEW at, NEW ls PROVE \A h \in GitHits(at, ls) : h.id \in GitCatalog
<1>1. \A marks : Every(GitRules, marks) \subseteq GitCatalog
  BY EveryOfRules, GitIds
<1>2. \A h \in GitHits(at, ls) : \E n, marks : h \in HitsOn(n, Every(GitRules, marks))
  BY DEF GitHits
<1> QED BY <1>1, <1>2, OnLine

LEMMA GitToolsHitIds ==
  ASSUME NEW at, NEW ls PROVE \A h \in GitToolsHits(at, ls) : h.id \in GitToolsCatalog
<1>1. \A marks : Every(GitToolsRules, marks) \subseteq GitToolsCatalog
  BY EveryOfRules, GitToolsIds
<1>2. \A h \in PackageHits(at, ls) : h.id \in GitToolsCatalog
  BY <1>1 DEF PackageHits, HitsOn, Hit
<1>3. \A h \in GitToolsHits(at, ls) :
        h \in PackageHits(at, ls) \/ \E n, marks : h \in HitsOn(n, Every(GitToolsRules, marks))
  BY DEF GitToolsHits
<1> QED BY <1>1, <1>2, <1>3, OnLine

LEMMA ReleaseHitIds ==
  ASSUME NEW at, NEW ls PROVE \A h \in ReleaseHits(at, ls) : h.id \in ReleaseCatalog
<1>1. \A marks : Every(ReleaseRules, marks) \subseteq ReleaseCatalog
  BY EveryOfRules, ReleaseIds
<1>2. \A h \in ReleaseHits(at, ls) : \E n, marks : h \in HitsOn(n, Every(ReleaseRules, marks))
  BY DEF ReleaseHits
<1> QED BY <1>1, <1>2, OnLine

LEMMA PythonHitIds == ASSUME NEW ls PROVE \A h \in PythonHits(ls) : h.id \in PythonHard
<1>1. \A marks : First(PythonChain, marks) \subseteq PythonHard
  BY PythonIds, FirstIds
<1> QED BY <1>1 DEF PythonHits, HitsOn, Hit

SqlHard == (SqlCatalog \cup SqlMigrationCatalog \cup SqlMaintenanceCatalog) \ TableAdvice

LEMMA SqlHitIds ==
  ASSUME NEW at, NEW ls, NEW meta, NEW verify
  PROVE  \A h \in SqlHits(at, ls, meta, verify) : h.id \in SqlHard
<1>1. \A text, full : StatementHits(text, full, meta, verify) \subseteq SqlHard
  BY DEF StatementHits, SqlHard, SqlCatalog, SqlMigrationCatalog, SqlMaintenanceCatalog, TableAdvice
<1>2. \A h \in SqlLineHits(at, ls) : h.id \in SqlHard
  <2>1. {"sql.query.full-table-write", "sql.dynamic-sql"} \subseteq SqlHard
    BY DEF SqlHard, SqlCatalog, TableAdvice
  <2> QED BY <2>1 DEF SqlLineHits, HitsOn, Hit
<1>3. \A h \in TransactionHits(ls) : h.id \in SqlHard
  <2>1. "sql.migration.concurrent-in-txn" \in SqlHard
    BY DEF SqlHard, SqlMigrationCatalog, TableAdvice
  <2>2. \A h \in TransactionHits(ls) : \E n : h = Hit(n, "sql.migration.concurrent-in-txn")
    BY DEF TransactionHits
  <2> QED BY <2>1, <2>2 DEF Hit
<1>4. \A h \in MigrationHits(ls, meta, verify) : h.id \in SqlHard
  <2>1. "sql.migration.sqlite-rebuild-no-check" \in SqlHard
    BY DEF SqlHard, SqlMaintenanceCatalog, TableAdvice
  <2>2. \A h \in MigrationHits(ls, meta, verify) :
          \/ h \in TransactionHits(ls)
          \/ \E n, text, full : h \in HitsOn(n, StatementHits(text, full, meta, verify))
          \/ \E n : h = Hit(n, "sql.migration.sqlite-rebuild-no-check")
    BY DEF MigrationHits
  <2> QED BY <1>1, <1>3, <2>1, <2>2, OnLine DEF Hit
<1> QED BY <1>2, <1>4 DEF SqlHits

LEMMA CommentHitIds ==
  ASSUME NEW at, NEW ls
  PROVE  \A h \in CommentHits(at, ls) : h.id = "comment-hygiene.hard"
BY DEF CommentHits, Hit

LEMMA RustAdvices == ASSUME NEW ls PROVE \A h \in RustAdvice(ls) : h.id \in RustAdviceCatalog
<1>1. \A marks : First(RustAdviceChain, marks) \subseteq RustAdviceCatalog
  BY RustAdviceIds, FirstIds
<1> QED BY <1>1, OnLine DEF RustAdvice

LEMMA TypeScriptAdvices == ASSUME NEW ls PROVE \A h \in TypeScriptAdvice(ls) : h.id \in Uncatalogued
<1>1. \A marks : Every(TypeScriptAdviceRules, marks) \subseteq Uncatalogued
  BY EveryOfRules, TypeScriptAdviceIds
<1> QED BY <1>1, OnLine DEF TypeScriptAdvice

LEMMA TsConfigAdvices ==
  ASSUME NEW at, NEW ls PROVE \A h \in TsConfigAdvice(at, ls) : h.id \in Uncatalogued
<1>1. "typescript.review.skip-lib-check" \in Uncatalogued
  BY DEF Uncatalogued
<1>2. \A h \in TsConfigAdvice(at, ls) : \E n : h = Hit(n, "typescript.review.skip-lib-check")
  BY DEF TsConfigAdvice
<1> QED BY <1>1, <1>2 DEF Hit

LEMMA DockerAdvices ==
  ASSUME NEW at, NEW ls, NEW ignore
  PROVE  \A h \in DockerAdvice(at, ls, ignore) : h.id \in AdviceIds
<1> DEFINE known == {"docker.review.missing-healthcheck", "docker.review.missing-dockerignore"}
<1>1. \A marks : Every(DockerAdviceRules, marks) \subseteq AdviceIds
  BY EveryOfRules, DockerAdviceIds DEF AdviceIds, AdviceCatalog
<1>2. known \subseteq AdviceIds
  BY DEF AdviceIds, AdviceCatalog, DockerAdviceCatalog, Uncatalogued
<1>3. \A h \in DockerAdvice(at, ls, ignore) :
        \/ \E n, marks : h \in HitsOn(n, Every(DockerAdviceRules, marks))
        \/ \E id \in known : h = Hit(1, id)
  BY DEF DockerAdvice
<1> HIDE DEF known
<1>4. \A id \in known : Hit(1, id).id = id
  BY DEF Hit
<1> QED BY <1>1, <1>2, <1>3, <1>4, OnLine

LEMMA PythonAdvices ==
  ASSUME NEW ls PROVE \A h \in PythonAdvice(ls) : h.id = "python.review.broad-except"
<1>1. \A h \in PythonAdvice(ls) : \E n : h = Hit(n, "python.review.broad-except")
  BY DEF PythonAdvice
<1> QED BY <1>1 DEF Hit

LEMMA SqlAdvices ==
  ASSUME NEW at, NEW ls PROVE \A h \in SqlAdvice(at, ls) : h.id \in TableAdvice
<1>1. \A h \in MigrationAdvice(ls) : h.id \in TableAdvice
  <2>1. \A text, full : WeakStatement(text, full) \subseteq TableAdvice
    BY DEF WeakStatement, TableAdvice
  <2>2. \A h \in MigrationAdvice(ls) : \E n, text, full : h \in HitsOn(n, WeakStatement(text, full))
    BY DEF MigrationAdvice
  <2> QED BY <2>1, <2>2, OnLine
<1>2. \A h \in SqlAdvice(at, ls) : h \in MigrationAdvice(ls) \/ \E n : h = Hit(n, "sql.review.select-star")
  BY DEF SqlAdvice
<1> QED BY <1>1, <1>2 DEF Hit, TableAdvice

LEMMA CommentAdvices ==
  ASSUME NEW at, NEW ls PROVE \A h \in CommentAdvice(at, ls) : h.id = "comment-hygiene.advisory"
BY DEF CommentAdvice, Hit

\* What the rules that read lines find, by the module that reads them.
LEMMA LineHitIds ==
  ASSUME NEW at, NEW ls
  PROVE  \A h \in LineHits(at, ls) : h.id \in HardIds \ {"comment-hygiene.hard"}
<1>1. RustNames \cup TypeScriptCatalog \cup DockerCatalog \cup CiHard \cup GitCatalog
        \cup GitToolsCatalog \cup ReleaseCatalog \subseteq HardIds
  BY DEF HardIds, HardCatalog, RustNames, RustHard, CiHard, Uncatalogued
<1>2. "comment-hygiene.hard" \notin
        RustNames \cup TypeScriptCatalog \cup DockerCatalog \cup CiHard \cup GitCatalog
        \cup GitToolsCatalog \cup ReleaseCatalog
  BY DEF RustNames, RustHard, RustUnsafeCatalog, RustCatalog, TypeScriptCatalog, DockerCatalog, CiHard,
     CiCatalog, Uncatalogued, GitCatalog, GitToolsCatalog, ReleaseCatalog
<1>3. Unasked \subseteq TypeScriptCatalog
  BY DEF Unasked, TypeScriptCatalog
<1>4. \A h \in LineHits(at, ls) :
        \/ h \in RustHits(ls) \/ h \in TypeScriptHits(ls) \/ h \in TsConfigHits(at, ls)
        \/ h \in DockerHits(at, ls) \/ h \in CiHits(at, ls) \/ h \in GitHits(at, ls)
        \/ h \in GitToolsHits(at, ls) \/ h \in ReleaseHits(at, ls)
  BY DEF LineHits, OnSurface
<1> QED BY <1>1, <1>2, <1>3, <1>4, RustHitIds, TypeScriptHitIds, TsConfigHitIds, DockerHitIds,
           CiHitIds, GitHitIds, GitToolsHitIds, ReleaseHitIds

LEMMA FindingsCatalogued == ASSUME NEW at, NEW ls PROVE \A h \in Findings(at, ls) : h.id \in HardIds
<1>1. PythonHard \subseteq HardIds /\ SqlHard \subseteq HardIds /\ "comment-hygiene.hard" \in HardIds
  BY DEF HardIds, HardCatalog, PythonHard, SqlHard
<1>2. \A h \in Findings(at, ls) :
        \/ h \in CommentHits(at, ls) \/ h \in PythonHits(ls)
        \/ h \in SqlHits(at, ls, {}, FALSE) \/ h \in LineHits(at, ls)
  BY DEF Findings, OnSurface
<1> QED BY <1>1, <1>2, CommentHitIds, PythonHitIds, SqlHitIds, LineHitIds

LEMMA AdviceCatalogued ==
  ASSUME NEW at, NEW ls PROVE \A h \in AdvisorySignals(at, ls) : h.id \in AdviceIds
<1>1. RustAdviceCatalog \subseteq AdviceIds /\ Uncatalogued \subseteq AdviceIds
        /\ TableAdvice \subseteq AdviceIds /\ "comment-hygiene.advisory" \in AdviceIds
  BY DEF AdviceIds, AdviceCatalog
<1>2. "python.review.broad-except" \in TableAdvice
  BY DEF TableAdvice
<1>3. \A h \in AdvisorySignals(at, ls) :
        \/ h \in CommentAdvice(at, ls) \/ h \in PythonAdvice(ls) \/ h \in SqlAdvice(at, ls)
        \/ h \in RustAdvice(ls) \/ h \in TypeScriptAdvice(ls) \/ h \in TsConfigAdvice(at, ls)
        \/ h \in DockerAdvice(at, ls, FALSE)
  BY DEF AdvisorySignals, LineAdvice, OnSurface
<1> QED BY <1>1, <1>2, <1>3, CommentAdvices, PythonAdvices, SqlAdvices, RustAdvices,
           TypeScriptAdvices, TsConfigAdvices, DockerAdvices

\* Of every file, on whatever surface and of whatever lines, a finding has its detector in the
\* catalogue under hard rules and a signal under advisories, but for the ones that are listed
\* as missing there.
THEOREM EveryDetectorIsCatalogued == Spec => []Catalogued
<1>1. Catalogued
  BY FindingsCatalogued, AdviceCatalogued DEF Catalogued, Found, HardIds, AdviceIds
<1> QED BY <1>1, PTL

-----------------------------------------------------------------------------
(* What a file is made of: lines of its vocabulary, and after a comment    *)
(* one of them with the comment.                                           *)

Remarked == {Noted(line, note) : line \in Vocabulary[kind], note \in Notes[kind]}
Vouched == {Vouching(line, id) : line \in Vocabulary[kind], id \in HardIds}
Written == Vocabulary[kind] \cup (IF Commentable THEN Remarked \cup Vouched ELSE {})

Typed == /\ kind \in Kinds
         /\ lines \in Seq(Written)
         /\ remarks = {} => lines \in Seq(Vocabulary[kind])

\* A line that is replaced, seen line by line.
LEMMA Replaced ==
  ASSUME NEW S, NEW s \in Seq(S), NEW n \in DOMAIN s, NEW e \in S
  PROVE  [s EXCEPT ![n] = e] \in Seq(S)
<1>1. Len(s) \in Nat /\ DOMAIN s = 1 .. Len(s)
  BY LenProperties
<1> QED BY <1>1, ExceptSeq

LEMMA RemarkType ==
  ASSUME Typed, NEW n \in DOMAIN lines, NEW note \in Notes[kind], Remark(n, note)
  PROVE  lines' \in Seq(Written)
<1>1. lines[n] \in Vocabulary[kind]
  BY ElementOfSeq, LenProperties DEF Typed, Remark
<1>2. Noted(lines[n], note) \in Written
  BY <1>1 DEF Written, Remarked, Remark
<1>3. lines' = [lines EXCEPT ![n] = Noted(lines[n], note)]
  BY DEF Remark
<1> QED BY <1>2, <1>3, Replaced DEF Typed

LEMMA VouchType ==
  ASSUME Typed, NEW n \in DOMAIN lines, NEW id \in HardIds, Vouch(n, id)
  PROVE  lines' \in Seq(Written)
<1>1. lines[n] \in Vocabulary[kind]
  BY ElementOfSeq, LenProperties DEF Typed, Vouch
<1>2. Vouching(lines[n], id) \in Written
  BY <1>1 DEF Written, Vouched, Vouch
<1>3. lines' = [lines EXCEPT ![n] = Vouching(lines[n], id)]
  BY DEF Vouch
<1> QED BY <1>2, <1>3, Replaced DEF Typed

LEMMA TypedStep == ASSUME Typed, [Next]_vars PROVE Typed'
<1>1. ASSUME kind' = kind PROVE Written' = Written
  BY <1>1 DEF Written, Remarked, Vouched, Commentable, Noted, Vouching, Sign, Path
<1>2. CASE \E line \in Vocabulary[kind] : Write(line)
  <2>1. PICK line \in Vocabulary[kind] : Write(line)
    BY <1>2
  <2>2. lines' \in Seq(Vocabulary[kind])
    BY <2>1, AppendProperties DEF Typed, Write
  <2>3. Vocabulary[kind] \subseteq Written
    BY DEF Written
  <2>4. lines' \in Seq(Written)
    BY <2>2, <2>3
  <2> QED BY <1>1, <2>1, <2>2, <2>4 DEF Typed, Write
<1>3. CASE \E n \in DOMAIN lines, note \in Notes[kind] : Remark(n, note)
  <2>1. PICK n \in DOMAIN lines, note \in Notes[kind] : Remark(n, note)
    BY <1>3
  <2> QED BY <1>1, <2>1, RemarkType DEF Typed, Remark
<1>4. CASE \E n \in DOMAIN lines, h \in Found : Vouch(n, h.id)
  <2>1. PICK n \in DOMAIN lines, h \in Found : Vouch(n, h.id)
    BY <1>4
  <2>2. h.id \in HardIds
    BY FindingsCatalogued DEF Found
  <2> QED BY <1>1, <2>1, <2>2, VouchType DEF Typed, Vouch
<1>5. CASE UNCHANGED vars
  BY <1>1, <1>5 DEF Typed, vars
<1> QED BY <1>2, <1>3, <1>4, <1>5 DEF Next

\* Of every file: each line is one of its vocabulary, or one of them with a remark or an allow
\* behind it, and before the first comment all are of the vocabulary.
THEOREM LinesAreWritten == Spec => []Typed
<1>1. Init => Typed
  BY EmptySeq DEF Init, Typed
<1>2. Typed /\ [Next]_vars => Typed'
  BY TypedStep
<1> QED BY <1>1, <1>2, PTL DEF Spec

LEMMA WrittenLine ==
  ASSUME Typed, kind \notin Sequenced, NEW line \in Written
  PROVE  /\ kind = "comments" => line.note \in Seq(Phrases)
         /\ kind = "rust" => "safety docs" \notin Whole(line)
<1>1. ASSUME NEW plain \in Vocabulary[kind]
      PROVE  /\ kind = "comments" => plain.note \in Seq(Phrases)
             /\ kind = "rust" => "safety docs" \notin Whole(plain)
  BY LinesAssumption DEF Typed
<1>2. CASE line \in Vocabulary[kind]
  BY <1>1, <1>2
<1>3. CASE line \in Remarked
  <2>1. PICK plain \in Vocabulary[kind], note \in Notes[kind] : line = Noted(plain, note)
    BY <1>3 DEF Remarked
  <2>2. /\ kind = "comments" => note \in Seq(Phrases)
        /\ kind = "rust" => "safety docs" \notin note
    BY NotesAssumption DEF Typed
  <2>3. line = [code |-> plain.code, sign |-> Sign, note |-> note, allow |-> plain.allow]
    BY <2>1 DEF Noted, Vouching
  <2> QED BY <1>1, <2>2, <2>3 DEF Whole
<1>4. CASE line \in Vouched
  <2>1. PICK plain \in Vocabulary[kind], id \in HardIds : line = Vouching(plain, id)
    BY <1>4 DEF Vouched
  <2>2. line = [code |-> plain.code, sign |-> Sign, note |-> plain.note, allow |-> Named(id)]
    BY <2>1 DEF Noted, Vouching
  <2> QED BY <1>1, <2>2 DEF Whole
<1> QED BY <1>2, <1>3, <1>4 DEF Written

LEMMA LinesOfType ==
  ASSUME Typed
  PROVE  /\ Len(lines) \in Nat /\ DOMAIN lines = 1 .. Len(lines)
         /\ \A n \in DOMAIN lines : lines[n] \in Written
BY LenProperties, ElementOfSeq DEF Typed

-----------------------------------------------------------------------------
(* Configurations: Min is a line, and the first.                           *)

LEMMA ConfigsAgreeHere == ASSUME Typed PROVE ConfigsAgree
<1> DEFINE parsed == TsConfigHits({"tsconfig"}, lines)
           spelled == TsConfigHits({"tsconfig", "broken"}, lines)
           report == "typescript.config.strict-disabled"
<1>1. \A o : KeyLines(lines, o) \subseteq DOMAIN lines /\ KeyLines(lines, o) \subseteq Nat
  BY LinesOfType DEF KeyLines
<1>2. \A o : KeyLines(lines, o) # {} =>
        /\ Min(KeyLines(lines, o)) \in KeyLines(lines, o)
        /\ \A n \in KeyLines(lines, o) : Min(KeyLines(lines, o)) <= n
  BY <1>1, MinIsLeast
<1>3. \A h : h \in parsed <=>
        \E o \in Options : \E n \in ParsedKeyHits(lines, o) : h = Hit(n, report)
  BY DEF TsConfigHits, HitsOnLines
<1>4. \A h : h \in spelled <=>
        \E o \in Options : \E n \in KeyLines(lines, o) : h = Hit(n, report)
  BY DEF TsConfigHits, HitsOnLines
<1> HIDE DEF parsed, spelled
<1>5. parsed \subseteq spelled
  BY <1>2, <1>3, <1>4 DEF ParsedKeyHits
<1>6. ASSUME NEW option \in Options, NEW n \in DOMAIN lines, Canonical[option] \in Whole(lines[n])
      PROVE  \E h \in parsed : h.line <= n /\ Canonical[option] \in Whole(lines[h.line])
  <2>1. n \in KeyLines(lines, option) /\ TurnedOff(lines, option)
    BY <1>6 DEF KeyLines, TurnedOff, Text
  <2> DEFINE m == Min(KeyLines(lines, option))
  <2>2. m \in KeyLines(lines, option) /\ m <= n
    BY <1>2, <2>1
  <2>3. ParsedKeyHits(lines, option) = {m}
    BY <2>1 DEF ParsedKeyHits
  <2>4. Hit(m, report) \in parsed
    BY <1>3, <2>3
  <2>5. Hit(m, report).line = m
    BY DEF Hit
  <2> HIDE DEF m
  <2>6. Canonical[option] \in Whole(lines[m])
    BY <2>2 DEF KeyLines
  <2> QED BY <2>2, <2>4, <2>5, <2>6
<1> QED BY <1>5, <1>6 DEF ConfigsAgree, parsed, spelled

\* Of every configuration, of whatever lines: what the reader of one that JSON can parse
\* reports the line by line reader reports, and of every option that is turned off in the usual
\* spelling the first reports a line, the first that has it or an earlier one.
THEOREM ReadersOfConfigsAgree == Spec => []ConfigsAgree
<1>1. Typed => ConfigsAgree
  BY ConfigsAgreeHere
<1> QED BY <1>1, LinesAreWritten, PTL

-----------------------------------------------------------------------------
(* Comments: a phrase is asked where it is said first.                     *)

LEMMA SaidFirst ==
  ASSUME NEW note \in Seq(Phrases), NEW p, Occurrences(note, p) # {}
  PROVE  /\ Min(Occurrences(note, p)) \in DOMAIN note
         /\ note[Min(Occurrences(note, p))].phrase = p
<1>1. Occurrences(note, p) \subseteq Nat
  BY LenProperties DEF Occurrences
<1>2. Min(Occurrences(note, p)) \in Occurrences(note, p)
  BY <1>1, MinIsLeast
<1> QED BY <1>2 DEF Occurrences

LEMMA NegatedThere ==
  ASSUME NEW note \in Seq(Phrases), NEW p, p \in {note[i].phrase : i \in DOMAIN note},
         p \notin {note[i].phrase : i \in {j \in DOMAIN note : note[j].negated}}
  PROVE  Confessed(note, p)
<1>1. Occurrences(note, p) # {}
  BY DEF Occurrences
<1> DEFINE m == Min(Occurrences(note, p))
<1>2. m \in DOMAIN note /\ note[m].phrase = p
  BY <1>1, SaidFirst
<1>3. Confessed(note, p) <=> ~note[m].negated
  BY <1>1 DEF Confessed
<1> HIDE DEF m
<1>4. ~note[m].negated
  BY <1>2
<1> QED BY <1>3, <1>4

LEMMA NegatedAll ==
  ASSUME NEW note \in Seq(Phrases), \A i \in DOMAIN note : note[i].negated, NEW p
  PROVE  ~Confessed(note, p)
<1> SUFFICES ASSUME Occurrences(note, p) # {} PROVE note[Min(Occurrences(note, p))].negated
  BY DEF Confessed
<1> QED BY SaidFirst

LEMMA CommentsFound ==
  ASSUME Typed, kind = "comments"
  PROVE  \A n \in DOMAIN lines : (\E h \in Found : h.line = n) <=>
           /\ HasComment(lines[n], Path) /\ Tier1(lines[n].note)
           /\ ~Allowed(lines, n, "comment-hygiene")
<1>1. Found = CommentHits(Path, lines)
  BY TraitsAssumption DEF Typed, Found, Findings, Path, OnSurface
<1> DEFINE id == "comment-hygiene.hard"
           Reported(n) == /\ HasComment(lines[n], Path) /\ Tier1(lines[n].note)
                          /\ ~Allowed(lines, n, "comment-hygiene")
<1>2. \A h : h \in Found <=> \E n \in {k \in DOMAIN lines : Reported(k)} : h = Hit(n, id)
  BY <1>1 DEF CommentHits
<1> HIDE DEF Reported, id
<1>3. \A n : Hit(n, id).line = n
  BY DEF Hit
<1>4. \A n \in DOMAIN lines : (\E h \in Found : h.line = n) <=> Reported(n)
  BY <1>2, <1>3
<1> QED BY <1>4 DEF Reported

\* Of every comment, of whatever phrases: one that says a dangerous phrase and never negates it
\* is reported, and one that negates all it says is not.
THEOREM NegationsAreLocal == Spec => []NegationIsLocal
<1>1. Typed => NegationIsLocal
  <2> SUFFICES ASSUME Typed, kind = "comments", NEW n \in DOMAIN lines,
                      HasComment(lines[n], Path), ~Allowed(lines, n, "comment-hygiene")
               PROVE  LET note == lines[n].note
                          said == {note[i].phrase : i \in DOMAIN note} \cap TIER1_ALL
                          never == {note[i].phrase : i \in {j \in DOMAIN note : note[j].negated}}
                          hit == \E h \in Found : h.line = n
                      IN  /\ said \ never # {} => hit
                          /\ (\A i \in DOMAIN note : note[i].negated) => ~hit
    BY DEF NegationIsLocal
  <2> DEFINE note == lines[n].note
             hit == \E h \in Found : h.line = n
  <2>1. note \in Seq(Phrases)
    BY LinesOfType, WrittenLine DEF Sequenced
  <2>2. hit <=> Tier1(note)
    BY CommentsFound
  <2> HIDE DEF note, hit
  <2>3. ASSUME NEW p \in TIER1_ALL, p \in {note[i].phrase : i \in DOMAIN note},
               p \notin {note[i].phrase : i \in {j \in DOMAIN note : note[j].negated}}
        PROVE  Tier1(note)
    BY <2>1, <2>3, NegatedThere DEF Tier1
  <2>4. (\A i \in DOMAIN note : note[i].negated) => ~Tier1(note)
    BY <2>1, NegatedAll DEF Tier1
  <2>5. ({note[i].phrase : i \in DOMAIN note} \cap TIER1_ALL)
            \ {note[i].phrase : i \in {j \in DOMAIN note : note[j].negated}} # {} => Tier1(note)
    BY <2>3
  <2> QED BY <2>2, <2>4, <2>5 DEF note, hit
<1> QED BY <1>1, LinesAreWritten, PTL

-----------------------------------------------------------------------------
(* Rust: what stands around a public unsafe function.                      *)

LEMMA RustFound == ASSUME Typed, kind = "rust" PROVE RustHits(lines) \subseteq Found
<1>1. /\ "said" \notin Path /\ Path \cap {"py", "sql"} = {} /\ RustSurface(Path)
  BY TraitsAssumption DEF Typed, Path, Sequenced
<1>2. Found = LineHits(Path, lines)
  BY <1>1 DEF Found, Findings
<1> QED BY <1>1, <1>2 DEF LineHits, OnSurface

\* The first rule of the chain fires at a public unsafe function without docs.
LEMMA FirstRule ==
  ASSUME NEW marks
  PROVE  "pub unsafe fn" \in marks /\ "safety docs" \notin marks => First(RustChain, marks) # {}
<1> DEFINE id == "rust.unsafe.public-fn-missing-safety-doc"
           needs == {{"pub unsafe fn"}}
           unless == {"safety docs"}
<1>1. UnsafeChain[1] = Rule(id, needs, unless)
  BY DEF UnsafeChain
<1> HIDE DEF id, needs, unless
<1>2. UnsafeChain[1].needs = needs /\ UnsafeChain[1].unless = unless
  BY <1>1 DEF Rule
<1>3. PICK S : RustChain \in Seq(S) /\ DOMAIN RustChain = 1 .. 16 /\ RustChain[1] = UnsafeChain[1]
  BY RustIds
<1>4. 1 \in DOMAIN RustChain
  <2>1. 1 \in 1 .. 16
    OBVIOUS
  <2> QED BY <1>3, <2>1, Zenon
<1>5. Fires(UnsafeChain[1], marks) => First(RustChain, marks) # {}
  BY <1>3, <1>4, FirstOfChain, Zenon
<1>6. Fires(UnsafeChain[1], marks) <=>
        (\A group \in needs : group \cap marks # {}) /\ unless \cap marks = {}
  BY <1>2 DEF Fires
<1> QED BY <1>5, <1>6 DEF needs, unless

LEMMA DocsAbove ==
  ASSUME DOMAIN lines = 1 .. Len(lines), Len(lines) \in Nat,
         NEW n \in DOMAIN lines, SafetyDocs(lines, n)
  PROVE  \E k \in 1 .. n - 1 : /\ Doc(lines[k]) /\ "# safety" \in lines[k].note
                               /\ \A j \in k .. n - 1 : ~Item(lines[j])
<1>1. PICK k \in DocsOf(lines, n) : "# safety" \in lines[k].note
  BY DEF SafetyDocs
<1>2. k \in 1 .. n - 1
  <2>1. k \in (n - 12 .. n - 1) \cap DOMAIN lines
    BY <1>1, Zenon DEF DocsOf
  <2> QED BY <2>1
<1>3. PICK m \in k + 1 .. n : /\ \A j \in k .. m - 1 : Doc(lines[j])
                              /\ \A j \in m .. n - 1 : PassedBy(lines[j])
  BY <1>1 DEF DocsOf
<1>4. Doc(lines[k])
  BY <1>2, <1>3
<1>5. ASSUME NEW j \in k .. n - 1 PROVE ~Item(lines[j])
  <2>1. j \in k .. m - 1 \/ j \in m .. n - 1
    BY <1>2, <1>3
  <2>2. Doc(lines[j]) => ~Item(lines[j])
    BY DEF Doc, Item
  <2>3. PassedBy(lines[j]) => ~Item(lines[j])
    BY DEF PassedBy
  <2> QED BY <1>3, <2>1, <2>2, <2>3
<1> QED BY <1>1, <1>2, <1>4, <1>5

\* Of every Rust file, of whatever lines: a public unsafe function that no finding names has a
\* doc comment with a safety section above it and no item in between.
THEOREM SafetyDocsSpeakForTheNext == Spec => []SafetyDocsOwn
<1>1. Typed => SafetyDocsOwn
  <2> SUFFICES ASSUME Typed, kind = "rust", NEW n \in DOMAIN lines,
                      "pub unsafe fn" \in lines[n].code, ~\E h \in Found : h.line = n
               PROVE  SafetyDocs(lines, n)
    BY LinesOfType, DocsAbove DEF SafetyDocsOwn
  <2> DEFINE marks == RustMarks(lines, n)
  <2>1. First(RustChain, marks) = {}
    <3>1. \A h \in HitsOn(n, First(RustChain, marks)) : h \in Found
      BY RustFound DEF RustHits
    <3>2. \A id \in First(RustChain, marks) :
             Hit(n, id) \in HitsOn(n, First(RustChain, marks)) /\ Hit(n, id).line = n
      BY DEF HitsOn, Hit
    <3> QED BY <3>1, <3>2
  <2>2. "pub unsafe fn" \in marks
    BY DEF RustMarks, Whole
  <2>3. "safety docs" \in marks
    BY <2>1, <2>2, FirstRule
  <2>4. "safety docs" \notin Whole(lines[n])
    BY LinesOfType, WrittenLine DEF Sequenced
  <2> QED BY <2>3, <2>4 DEF RustMarks
<1> QED BY <1>1, LinesAreWritten, PTL

-----------------------------------------------------------------------------
(* Hits, each by the line it is on.                                        *)

LEMMA RustAt ==
  ASSUME NEW ls, NEW h
  PROVE  h \in RustHits(ls) <=>
           \/ \E n \in DOMAIN ls : h \in HitsOn(n, First(RustChain, RustMarks(ls, n)))
           \/ h \in LintHit(ls)
BY DEF RustHits

LEMMA TypeScriptAt ==
  ASSUME NEW ls, NEW h
  PROVE  h \in TypeScriptHits(ls) <=>
           /\ \E n \in DOMAIN ls : h \in HitsOn(n, Every(TypeScriptRules, Whole(ls[n])))
           /\ ~Allowed(ls, h.line, h.id)
BY DEF TypeScriptHits

DockerFile(ls) == Text(ls) \cap {"cap_add:", "ports:"}

LEMMA DockerAt ==
  ASSUME NEW at, NEW ls, NEW h
  PROVE  h \in DockerHits(at, ls) <=> \E n \in CodeLines(ls, DockerKind(at)) :
           h \in HitsOn(n, Every(DockerRules, Cut(ls[n], DockerKind(at)) \cup DockerFile(ls)))
BY DEF DockerHits, DockerFile

LEMMA CiFileAt ==
  ASSUME NEW at, NEW ls, NEW h
  PROVE  h \in CiFileHits(at, ls) <=>
           \E r \in CiFileRules : /\ Fires(r.rule, Text(ls) \cup (at \cap {"workflow"}))
                                  /\ h = Hit(FirstWith(ls, r.needles), r.rule.id)
BY DEF CiFileHits

LEMMA CiLineAt ==
  ASSUME NEW kd, NEW ls, NEW h
  PROVE  h \in CiLineHits(kd, ls) <=> \E n \in CodeLines(ls, kd) :
           h \in HitsOn(n, Every(CiLineRules, Cut(ls[n], kd) \cup NearSecurity(ls, n)))
BY DEF CiLineHits

LEMMA GitAt ==
  ASSUME NEW at, NEW ls, NEW h
  PROVE  h \in GitHits(at, ls) <=> \E n \in CodeLines(ls, GitKind(at)) :
           h \in HitsOn(n, Every(GitRules, Cut(ls[n], GitKind(at))))
BY DEF GitHits

Staged(at) == IF "lintstagedrc" \in at THEN {"lint-staged"} ELSE {}

LEMMA GitToolsAt ==
  ASSUME NEW at, "package" \notin at, NEW ls, NEW h
  PROVE  h \in GitToolsHits(at, ls) <=>
           /\ \E n \in CodeLines(ls, GitToolsKind(at)) :
                h \in HitsOn(n, Every(GitToolsRules,
                                      (Cut(ls[n], GitToolsKind(at)) \ Sections) \cup Staged(at)))
           /\ ~Allowed(ls, h.line, h.id)
BY DEF GitToolsHits, Staged

ReleaseFile(ls) ==
    (IF Text(ls) \cap TagEvidence # {} THEN {"tag evidence"} ELSE {})
    \cup (IF Text(ls) \cap IntegrityEvidence # {} THEN {"integrity evidence"} ELSE {})
    \cup (IF Bridge(Text(ls)) THEN {"bridge"} ELSE {})

LEMMA ReleaseAt ==
  ASSUME NEW at, NEW ls, NEW h
  PROVE  h \in ReleaseHits(at, ls) <=> \E n \in CodeLines(ls, ReleaseKind(at)) :
           h \in HitsOn(n, Every(ReleaseRules, Cut(ls[n], ReleaseKind(at)) \cup ReleaseFile(ls)))
BY DEF ReleaseHits, ReleaseFile

-----------------------------------------------------------------------------
(* Files that say the same: line by line but for allows and empty          *)
(* comments.                                                               *)

Alike(ls, ms) ==
    /\ DOMAIN ls = 1 .. Len(ls) /\ Len(ls) \in Nat /\ DOMAIN ms = DOMAIN ls
    /\ \A k \in DOMAIN ls : /\ ms[k].code = ls[k].code /\ ms[k].note = ls[k].note
                            /\ ms[k].sign = "///" <=> ls[k].sign = "///"
                            /\ \A kd : Cut(ms[k], kd) = Cut(ls[k], kd)

LEMMA AlikeText ==
  ASSUME NEW ls, NEW ms, Alike(ls, ms)
  PROVE  /\ \A k \in DOMAIN ls : Whole(ms[k]) = Whole(ls[k])
         /\ Text(ms) = Text(ls)
         /\ \A needles : FirstWith(ms, needles) = FirstWith(ls, needles)
         /\ \A kd : CodeLines(ms, kd) = CodeLines(ls, kd)
         /\ \A n : NearSecurity(ms, n) = NearSecurity(ls, n)
<1>1. \A k \in DOMAIN ls : Whole(ms[k]) = Whole(ls[k])
  BY DEF Alike, Whole
<1>2. Text(ms) = Text(ls)
  BY <1>1 DEF Alike, Text
<1>3. \A needles : FirstWith(ms, needles) = FirstWith(ls, needles)
  <2> TAKE needles
  <2>1. {n \in DOMAIN ms : Whole(ms[n]) \cap needles # {}}
          = {n \in DOMAIN ls : Whole(ls[n]) \cap needles # {}}
    BY <1>1 DEF Alike
  <2> QED BY <2>1, Zenon DEF FirstWith
<1>4. \A kd : CodeLines(ms, kd) = CodeLines(ls, kd)
  BY DEF Alike, CodeLines
<1>5. \A n : NearSecurity(ms, n) = NearSecurity(ls, n)
  <2> TAKE n
  <2>1. Window(ms, n, 3) = Window(ls, n, 3) /\ Window(ls, n, 3) \subseteq DOMAIN ls
    BY DEF Alike, Window
  <2>2. Nearby(ms, n, 3) = Nearby(ls, n, 3)
    BY <1>1, <2>1 DEF Nearby
  <2> QED BY <2>2, Zenon DEF NearSecurity
<1> QED BY <1>1, <1>2, <1>3, <1>4, <1>5

LEMMA AlikeDocs ==
  ASSUME NEW ls, NEW ms, Alike(ls, ms), NEW n \in DOMAIN ls
  PROVE  RustMarks(ms, n) = RustMarks(ls, n)
<1>1. \A j \in DOMAIN ls : /\ Doc(ms[j]) <=> Doc(ls[j])
                           /\ PassedBy(ms[j]) <=> PassedBy(ls[j])
  BY DEF Alike, Doc, PassedBy, Item
<1>0. DOMAIN ms = DOMAIN ls /\ \A k \in DOMAIN ls : Whole(ms[k]) = Whole(ls[k])
  BY AlikeText DEF Alike
<1>2. SafetyComment(ms, n) <=> SafetyComment(ls, n)
  BY <1>0 DEF SafetyComment
<1>3. AsyncAbove(ms, n) <=> AsyncAbove(ls, n)
  BY <1>0 DEF AsyncAbove
<1>4. DocsOf(ms, n) = DocsOf(ls, n)
  <2> DEFINE Above(s, k) == \E m \in k + 1 .. n : /\ \A j \in k .. m - 1 : Doc(s[j])
                                                  /\ \A j \in m .. n - 1 : PassedBy(s[j])
  <2>1. ASSUME NEW k \in DOMAIN ls PROVE Above(ms, k) <=> Above(ls, k)
    <3>1. \A j \in k .. n - 1 : /\ Doc(ms[j]) <=> Doc(ls[j])
                                /\ PassedBy(ms[j]) <=> PassedBy(ls[j])
      BY <1>1 DEF Alike
    <3>2. n \in Nat /\ k \in Nat
      BY DEF Alike
    <3> QED BY <3>1, <3>2
  <2>2. \A s : DocsOf(s, n) = {k \in (n - 12 .. n - 1) \cap DOMAIN s : Above(s, k)}
    BY Zenon DEF DocsOf
  <2> HIDE DEF Above
  <2> QED BY <1>0, <2>1, <2>2
<1>5. DocsOf(ls, n) \subseteq DOMAIN ls
  BY DEF DocsOf
<1>6. SafetyDocs(ms, n) <=> SafetyDocs(ls, n)
  BY <1>4, <1>5 DEF SafetyDocs, Alike
<1>7. Whole(ms[n]) = Whole(ls[n])
  BY AlikeText
<1> QED BY <1>2, <1>3, <1>6, <1>7, Zenon DEF RustMarks

LEMMA AlikeHits ==
  ASSUME NEW ls, NEW ms, Alike(ls, ms), NEW at, NEW h
  PROVE  /\ h \in RustHits(ms) <=> h \in RustHits(ls)
         /\ h \in DockerHits(at, ms) <=> h \in DockerHits(at, ls)
         /\ h \in CiHits(at, ms) <=> h \in CiHits(at, ls)
         /\ h \in GitHits(at, ms) <=> h \in GitHits(at, ls)
         /\ h \in ReleaseHits(at, ms) <=> h \in ReleaseHits(at, ls)
         /\ ReleaseSurface(at, ms) <=> ReleaseSurface(at, ls)
         /\ GitToolsSurface(at, ms) <=> GitToolsSurface(at, ls)
<1>1. \A kd : \A n \in CodeLines(ls, kd) : Cut(ms[n], kd) = Cut(ls[n], kd)
  BY DEF Alike, CodeLines
<1>2. /\ Text(ms) = Text(ls)
      /\ \A needles : FirstWith(ms, needles) = FirstWith(ls, needles)
      /\ \A kd : CodeLines(ms, kd) = CodeLines(ls, kd)
      /\ \A n : NearSecurity(ms, n) = NearSecurity(ls, n)
  BY AlikeText
<1>3. h \in RustHits(ms) <=> h \in RustHits(ls)
  <2>1. DOMAIN ms = DOMAIN ls
    BY DEF Alike
  <2>2. \A n \in DOMAIN ls : RustMarks(ms, n) = RustMarks(ls, n)
    BY AlikeDocs
  <2>3. LintHit(ms) = LintHit(ls)
    BY <1>2, Zenon DEF LintHit
  <2> QED BY <2>1, <2>2, <2>3, RustAt
<1>4. h \in DockerHits(at, ms) <=> h \in DockerHits(at, ls)
  <2>1. DockerFile(ms) = DockerFile(ls)
    BY <1>2, Zenon DEF DockerFile
  <2> QED BY <1>1, <1>2, <2>1, DockerAt, Zenon
<1>5. h \in CiHits(at, ms) <=> h \in CiHits(at, ls)
  <2>1. h \in CiFileHits(at, ms) <=> h \in CiFileHits(at, ls)
    <3>1. \A r : /\ FirstWith(ms, r.needles) = FirstWith(ls, r.needles)
                 /\ Text(ms) \cup (at \cap {"workflow"}) = Text(ls) \cup (at \cap {"workflow"})
      BY <1>2
    <3> DEFINE On(fs, r) == /\ Fires(r.rule, Text(fs) \cup (at \cap {"workflow"}))
                            /\ h = Hit(FirstWith(fs, r.needles), r.rule.id)
    <3>2. \A r \in CiFileRules : On(ms, r) <=> On(ls, r)
      BY <3>1
    <3>3. \A fs : h \in CiFileHits(at, fs) <=> \E r \in CiFileRules : On(fs, r)
      BY CiFileAt, Zenon
    <3> HIDE DEF On
    <3> QED BY <3>2, <3>3
  <2>2. \A kd : h \in CiLineHits(kd, ms) <=> h \in CiLineHits(kd, ls)
    <3> TAKE kd
    <3>1. CodeLines(ms, kd) = CodeLines(ls, kd)
      BY <1>2
    <3>2. \A n \in CodeLines(ls, kd) : Cut(ms[n], kd) \cup NearSecurity(ms, n)
                                         = Cut(ls[n], kd) \cup NearSecurity(ls, n)
      BY <1>1, <1>2
    <3> QED BY <3>1, <3>2, CiLineAt
  <2>3. \A kd : RunnerHits(ms, kd) = RunnerHits(ls, kd)
    <3> TAKE kd
    <3>1. FirstWith(ms, Runner) = FirstWith(ls, Runner) /\ CodeLines(ms, kd) = CodeLines(ls, kd)
      BY <1>2
    <3> QED BY <1>2, <3>1, Zenon DEF RunnerHits
  <2> QED BY <2>1, <2>2, <2>3 DEF CiHits
<1>6. h \in GitHits(at, ms) <=> h \in GitHits(at, ls)
  BY <1>1, <1>2, GitAt, Zenon
<1>7. h \in ReleaseHits(at, ms) <=> h \in ReleaseHits(at, ls)
  <2>1. ReleaseFile(ms) = ReleaseFile(ls)
    BY <1>2, Zenon DEF ReleaseFile
  <2> QED BY <1>1, <1>2, <2>1, ReleaseAt, Zenon
<1>8. /\ ReleaseSurface(at, ms) <=> ReleaseSurface(at, ls)
      /\ GitToolsSurface(at, ms) <=> GitToolsSurface(at, ls)
  BY <1>2, Zenon DEF ReleaseSurface, GitToolsSurface
<1> QED BY <1>3, <1>4, <1>5, <1>6, <1>7, <1>8

-----------------------------------------------------------------------------
(* An allow is for the detector it names.                                  *)

LEMMA HonouredIds ==
  /\ GitToolsCatalog \cup (TypeScriptCatalog \ Unasked) \subseteq Honoured
  /\ (RustNames \cup DockerCatalog \cup CiHard \cup GitCatalog \cup ReleaseCatalog)
       \cap Honoured = {}
<1>1. GitToolsCatalog \cup (TypeScriptCatalog \ Unasked) \subseteq Honoured
  BY DEF Honoured, Unasked
<1>2. (RustNames \cup DockerCatalog \cup CiHard \cup GitCatalog \cup ReleaseCatalog)
        \cap Honoured = {}
  BY DEF Honoured, GitToolsCatalog, TypeScriptCatalog, RustNames, RustHard, RustUnsafeCatalog, RustCatalog,
     DockerCatalog, CiHard, CiCatalog, Uncatalogued, GitCatalog, ReleaseCatalog
<1> QED BY <1>1, <1>2

LEMMA VouchedLines ==
  ASSUME Typed, NEW n \in DOMAIN lines, NEW id, Vouch(n, id), kind # "comments"
  PROVE  /\ Alike(lines, lines')
         /\ \A k \in DOMAIN lines : \A j : Allowed(lines', k, j) <=>
               Allowed(lines, k, j) \/ (j \in Named(id) /\ k \in n - 2 .. n + 2)
<1>1. /\ DOMAIN lines' = DOMAIN lines
      /\ lines'[n] = Vouching(lines[n], id)
      /\ \A k \in DOMAIN lines : k # n => lines'[k] = lines[k]
  BY DEF Vouch
<1>2. lines[n].sign = "none" /\ lines[n].note = {} /\ lines[n].allow = {}
  <2>1. kind \in Kinds \ Sequenced /\ lines[n] \in Vocabulary[kind] /\ lines[n].sign = "none"
    BY ElementOfSeq, LenProperties DEF Typed, Vouch, Commentable
  <2> QED BY <2>1, LinesAssumption DEF Silence
<1>3. /\ lines'[n].code = lines[n].code /\ lines'[n].note = {} /\ lines'[n].sign = Sign
      /\ lines'[n].allow = Named(id)
  BY <1>1, <1>2 DEF Vouching
<1>4. Sign # "///"
  BY DEF Sign
<1>5. \A k \in DOMAIN lines : /\ lines'[k].code = lines[k].code
                              /\ lines'[k].note = lines[k].note
                              /\ lines'[k].sign = "///" <=> lines[k].sign = "///"
  BY <1>1, <1>2, <1>3, <1>4
<1>6. \A k \in DOMAIN lines : \A kd : Cut(lines'[k], kd) = Cut(lines[k], kd)
  <2>1. \A kd : Cut(lines'[n], kd) = lines[n].code /\ Cut(lines[n], kd) = lines[n].code
    BY <1>2, <1>3 DEF Cut, Whole
  <2> QED BY <1>1, <2>1
<1>7. Alike(lines, lines')
  BY <1>1, <1>5, <1>6, LinesOfType DEF Alike
<1>8. ASSUME NEW k \in DOMAIN lines, NEW j
      PROVE  Allowed(lines', k, j) <=>
               Allowed(lines, k, j) \/ (j \in Named(id) /\ k \in n - 2 .. n + 2)
  <2>1. Window(lines', k, 2) = Window(lines, k, 2) /\ Window(lines, k, 2) \subseteq DOMAIN lines
    BY <1>1 DEF Window
  <2>2. n \in Window(lines, k, 2) <=> k \in n - 2 .. n + 2
    BY LinesOfType DEF Window
  <2>3. \A i \in Window(lines, k, 2) : j \in lines'[i].allow <=>
          j \in lines[i].allow \/ (i = n /\ j \in Named(id))
    BY <1>1, <1>2, <1>3, <2>1
  <2> QED BY <2>1, <2>2, <2>3 DEF Allowed
<1> QED BY <1>7, <1>8

LEMMA LineFindings ==
  ASSUME Typed, Commentable, kind # "comments"
  PROVE  /\ "package" \notin Path /\ "tsconfig" \notin Path
         /\ \A ls, h : h \in Findings(Path, ls) <=>
              \/ RustSurface(Path) /\ h \in RustHits(ls)
              \/ TypeScriptSurface(Path) /\ h \in TypeScriptHits(ls)
              \/ DockerSurface(Path) /\ h \in DockerHits(Path, ls)
              \/ CiSurface(Path) /\ h \in CiHits(Path, ls)
              \/ GitSurface(Path) /\ h \in GitHits(Path, ls)
              \/ GitToolsSurface(Path, ls) /\ h \in GitToolsHits(Path, ls)
              \/ ReleaseSurface(Path, ls) /\ h \in ReleaseHits(Path, ls)
<1>1. /\ "said" \notin Path /\ "py" \notin Path /\ "sql" \notin Path
      /\ "package" \notin Path /\ "tsconfig" \notin Path
  BY TraitsAssumption DEF Typed, Path, Commentable
<1>2. \A ls : Findings(Path, ls) = LineHits(Path, ls)
  BY <1>1 DEF Findings
<1>3. \A ls, h : h \in LineHits(Path, ls) <=>
              \/ RustSurface(Path) /\ h \in RustHits(ls)
              \/ TypeScriptSurface(Path) /\ h \in TypeScriptHits(ls)
              \/ DockerSurface(Path) /\ h \in DockerHits(Path, ls)
              \/ CiSurface(Path) /\ h \in CiHits(Path, ls)
              \/ GitSurface(Path) /\ h \in GitHits(Path, ls)
              \/ GitToolsSurface(Path, ls) /\ h \in GitToolsHits(Path, ls)
              \/ ReleaseSurface(Path, ls) /\ h \in ReleaseHits(Path, ls)
  BY <1>1 DEF LineHits, OnSurface
<1> QED BY <1>1, <1>2, <1>3

\* The hits that the modules which ask for an allow still have.
LEMMA StillHit ==
  ASSUME Typed, NEW n \in DOMAIN lines, NEW id \in HardIds \ {"comment-hygiene.hard"},
         Vouch(n, id), kind # "comments", NEW h
  PROVE  /\ h \in TypeScriptHits(lines') <=>
              h \in TypeScriptHits(lines) /\ ~(h.id = id /\ h.line \in n - 2 .. n + 2)
         /\ h \in GitToolsHits(Path, lines') <=>
              h \in GitToolsHits(Path, lines) /\ ~(h.id = id /\ h.line \in n - 2 .. n + 2)
<1>1. Alike(lines, lines') /\ "package" \notin Path
  BY VouchedLines, LineFindings DEF Vouch
<1>2. \A k \in DOMAIN lines : \A j : Allowed(lines', k, j) <=>
        Allowed(lines, k, j) \/ (j = id /\ k \in n - 2 .. n + 2)
  BY VouchedLines DEF Named
<1>3. \A k, ids : h \in HitsOn(k, ids) => h.line = k
  BY DEF HitsOn, Hit
<1>4. /\ DOMAIN lines' = DOMAIN lines
      /\ \A k \in DOMAIN lines : Whole(lines'[k]) = Whole(lines[k])
  BY <1>1, AlikeText DEF Alike
<1>5. h \in TypeScriptHits(lines') <=>
        h \in TypeScriptHits(lines) /\ ~(h.id = id /\ h.line \in n - 2 .. n + 2)
  <2> DEFINE On(ls) == \E k \in DOMAIN ls : h \in HitsOn(k, Every(TypeScriptRules, Whole(ls[k])))
  <2>1. On(lines') <=> On(lines)
    BY <1>4
  <2>2. On(lines) => h.line \in DOMAIN lines
    BY <1>3
  <2>3. \A ls : h \in TypeScriptHits(ls) <=> On(ls) /\ ~Allowed(ls, h.line, h.id)
    BY TypeScriptAt, Zenon
  <2> HIDE DEF On
  <2> QED BY <1>2, <2>1, <2>2, <2>3
<1>6. h \in GitToolsHits(Path, lines') <=>
        h \in GitToolsHits(Path, lines) /\ ~(h.id = id /\ h.line \in n - 2 .. n + 2)
  <2> DEFINE kd == GitToolsKind(Path)
             On(ls) == \E k \in CodeLines(ls, kd) :
               h \in HitsOn(k, Every(GitToolsRules, (Cut(ls[k], kd) \ Sections) \cup Staged(Path)))
  <2>1. \A ls : h \in GitToolsHits(Path, ls) <=> On(ls) /\ ~Allowed(ls, h.line, h.id)
    BY <1>1, GitToolsAt, Zenon
  <2> HIDE DEF kd
  <2>2. CodeLines(lines', kd) = CodeLines(lines, kd)
    BY <1>1, AlikeText
  <2>6. CodeLines(lines, kd) \subseteq DOMAIN lines
    BY DEF CodeLines
  <2>3. \A k \in CodeLines(lines, kd) : Cut(lines'[k], kd) = Cut(lines[k], kd)
    BY <1>1, <2>6 DEF Alike
  <2>4. On(lines') <=> On(lines)
    BY <2>2, <2>3
  <2>5. On(lines) => h.line \in DOMAIN lines
    BY <1>3, <2>6
  <2> HIDE DEF On
  <2> QED BY <1>2, <2>1, <2>4, <2>5
<1> QED BY <1>5, <1>6

\* Comments: an allow for the detector of comments, at a line that says nothing.
LEMMA CommentVouched ==
  ASSUME Typed, kind = "comments", NEW n \in DOMAIN lines, NEW id \in {h.id : h \in Found},
         Vouch(n, id)
  PROVE  Found' = {h \in Found : ~(h.id = id /\ id \in Honoured /\ h.line \in n - 2 .. n + 2)}
<1>1. kind' = kind /\ Path' = Path
  BY DEF Vouch, Path
<1>2. Found = CommentHits(Path, lines) /\ Found' = CommentHits(Path, lines')
  BY <1>1, TraitsAssumption DEF Typed, Found, Findings, Path, OnSurface
<1>3. id = "comment-hygiene.hard" /\ id \in Honoured
  BY <1>2, CommentHitIds DEF Honoured
<1>4. "comment-hygiene" \in Named(id)
  BY <1>3 DEF Named
<1>5. /\ DOMAIN lines' = DOMAIN lines
      /\ lines'[n] = Vouching(lines[n], id)
      /\ \A k \in DOMAIN lines : k # n => lines'[k] = lines[k]
  BY DEF Vouch
<1>6. lines[n].note = <<>> /\ lines[n].allow = {}
  <2>1. kind \in Kinds \ Sequenced /\ lines[n] \in Vocabulary[kind] /\ lines[n].sign = "none"
    BY ElementOfSeq, LenProperties DEF Typed, Vouch, Commentable
  <2> QED BY <2>1, LinesAssumption DEF Silence
<1>7. lines'[n].note = <<>> /\ lines'[n].allow = Named(id)
  BY <1>5, <1>6 DEF Vouching
<1>8. ~Tier1(<<>>)
  BY DEF Tier1, Confessed, Occurrences
<1>9. ASSUME NEW k \in DOMAIN lines
      PROVE  Allowed(lines', k, "comment-hygiene") <=>
               Allowed(lines, k, "comment-hygiene") \/ k \in n - 2 .. n + 2
  <2>1. Window(lines', k, 2) = Window(lines, k, 2) /\ Window(lines, k, 2) \subseteq DOMAIN lines
    BY <1>5 DEF Window
  <2>2. n \in Window(lines, k, 2) <=> k \in n - 2 .. n + 2
    BY LinesOfType DEF Window
  <2>3. \A i \in Window(lines, k, 2) : "comment-hygiene" \in lines'[i].allow <=>
          "comment-hygiene" \in lines[i].allow \/ i = n
    BY <1>4, <1>5, <1>6, <1>7, <2>1
  <2> QED BY <2>1, <2>2, <2>3 DEF Allowed
<1> DEFINE Confesses(ls, k) == HasComment(ls[k], Path) /\ Tier1(ls[k].note)
<1>10. \A k \in DOMAIN lines : Confesses(lines', k) <=> Confesses(lines, k)
  BY <1>5, <1>6, <1>7, <1>8
<1>11. \A ls, h : h \in CommentHits(Path, ls) <=>
         \E k \in {j \in DOMAIN ls : Confesses(ls, j) /\ ~Allowed(ls, j, "comment-hygiene")} :
             h = Hit(k, "comment-hygiene.hard")
  BY DEF CommentHits
<1>12. \A k : Hit(k, "comment-hygiene.hard").line = k /\ Hit(k, "comment-hygiene.hard").id = id
  BY <1>3 DEF Hit
<1> HIDE DEF Confesses
<1>13. ASSUME NEW h
       PROVE  h \in CommentHits(Path, lines') <=>
                h \in CommentHits(Path, lines) /\ ~(h.id = id /\ h.line \in n - 2 .. n + 2)
  BY <1>5, <1>9, <1>10, <1>11, <1>12
<1> QED BY <1>2, <1>3, <1>13

LEMMA LineVouched ==
  ASSUME Typed, kind # "comments", NEW n \in DOMAIN lines, NEW id \in {h.id : h \in Found},
         Vouch(n, id)
  PROVE  Found' = {h \in Found : ~(h.id = id /\ id \in Honoured /\ h.line \in n - 2 .. n + 2)}
<1>1. kind' = kind /\ Path' = Path
  BY DEF Vouch, Path
<1>2. Found = Findings(Path, lines) /\ Found' = Findings(Path, lines')
  BY <1>1 DEF Found
<1>3. id \in HardIds \ {"comment-hygiene.hard"}
  <2>1. Found = LineHits(Path, lines)
    BY TraitsAssumption DEF Typed, Vouch, Commentable, Path, Found, Findings
  <2> QED BY <2>1, LineHitIds
<1> DEFINE Spared(h) == h.id = id /\ id \in Honoured /\ h.line \in n - 2 .. n + 2
<1>4. Alike(lines, lines')
  BY VouchedLines
<1>5. ASSUME NEW h \in TypeScriptHits(lines) \cup GitToolsHits(Path, lines)
      PROVE  Spared(h) <=> (h.id = id /\ h.line \in n - 2 .. n + 2)
  BY TypeScriptHitIds, GitToolsHitIds, HonouredIds
<1>6. ASSUME NEW h \in RustHits(lines) \cup DockerHits(Path, lines) \cup CiHits(Path, lines)
                         \cup GitHits(Path, lines) \cup ReleaseHits(Path, lines)
      PROVE  ~Spared(h)
  BY RustHitIds, DockerHitIds, CiHitIds, GitHitIds, ReleaseHitIds, HonouredIds
<1>7. ASSUME NEW h PROVE h \in Findings(Path, lines') <=> h \in Findings(Path, lines) /\ ~Spared(h)
  <2>1. /\ h \in TypeScriptHits(lines') <=> h \in TypeScriptHits(lines) /\ ~Spared(h)
        /\ h \in GitToolsHits(Path, lines') <=> h \in GitToolsHits(Path, lines) /\ ~Spared(h)
    BY <1>3, <1>5, StillHit
  <2> HIDE DEF Spared
  <2> QED BY <1>4, <1>6, <2>1, AlikeHits, LineFindings DEF Vouch
<1> QED BY <1>2, <1>7

\* Of every file, of whatever lines: an allow takes the findings of the detector that it names,
\* at most two lines away, where that detector's module asks for one, and no other finding.
THEOREM AnAllowIsForItsDetector == Spec => AllowNamesOne
<1>1. Typed => [\A n \in DOMAIN lines, id \in {h.id : h \in Found} : Vouch(n, id) =>
        Found' = {h \in Found : ~(h.id = id /\ id \in Honoured /\ h.line \in n - 2 .. n + 2)}]_vars
  BY CommentVouched, LineVouched
<1> QED BY <1>1, LinesAreWritten, PTL DEF AllowNamesOne

-----------------------------------------------------------------------------
(* Rules, and what a whole file adds to the marks of its lines: which may  *)
(* fire for a mark of F, and which may not fire for one.                   *)

Apart(needs, F) == \A group \in needs : group \cap F = {}

\* Of the rules for ids not in A none needs a mark of F, and of those not in E none is
\* stopped by one.
Asks(A, E, F, r) == \E id, needs, unless :
    /\ r = Rule(id, needs, unless)
    /\ id \in A \/ Apart(needs, F)
    /\ id \in E \/ unless \cap F = {}

AllAsk(A, E, F, rules) == \A r \in rules : Asks(A, E, F, r)

LEMMA FiresGrow ==
  ASSUME NEW A, NEW E, NEW F, NEW r, Asks(A, E, F, r), NEW c, NEW f, NEW g, f \subseteq g, g \subseteq F
  PROVE  /\ r.id \notin A => (Fires(r, c \cup g) => Fires(r, c \cup f))
         /\ r.id \notin E => (Fires(r, c \cup f) => Fires(r, c \cup g))
<1>1. PICK id, needs, unless : /\ r = Rule(id, needs, unless)
                               /\ id \in A \/ Apart(needs, F)
                               /\ id \in E \/ unless \cap F = {}
  BY DEF Asks
<1>2. r.id = id /\ r.needs = needs /\ r.unless = unless
  BY <1>1 DEF Rule
<1>3. r.id \in A \/ \A group \in r.needs : group \cap F = {}
  BY <1>1, <1>2 DEF Apart
<1>4. r.id \in E \/ r.unless \cap F = {}
  BY <1>1, <1>2
<1> QED BY <1>3, <1>4 DEF Fires

LEMMA EveryGrows ==
  ASSUME NEW A, NEW E, NEW F, NEW rules, AllAsk(A, E, F, rules),
         NEW c, NEW f, NEW g, f \subseteq g, g \subseteq F, NEW id
  PROVE  /\ id \notin A => (id \in Every(rules, c \cup g) => id \in Every(rules, c \cup f))
         /\ id \notin E => (id \in Every(rules, c \cup f) => id \in Every(rules, c \cup g))
<1>1. \A marks : id \in Every(rules, marks) <=> \E r \in rules : Fires(r, marks) /\ id = r.id
  BY DEF Every
<1>2. ASSUME NEW r \in rules
      PROVE  /\ r.id \notin A => (Fires(r, c \cup g) => Fires(r, c \cup f))
             /\ r.id \notin E => (Fires(r, c \cup f) => Fires(r, c \cup g))
  <2>1. Asks(A, E, F, r)
    BY DEF AllAsk
  <2> QED BY <2>1, FiresGrow
<1> QED BY <1>1, <1>2

\* Of the hits on a line, those gained and those lost when the file's marks grow from f to g.
Between(f, g, F) == f \subseteq g /\ g \subseteq F
Gained(A, n, rules, c, f, g, h) == h.id \notin A =>
    (h \in HitsOn(n, Every(rules, c \cup g)) => h \in HitsOn(n, Every(rules, c \cup f)))
Lost(E, n, rules, c, f, g, h) == h.id \notin E =>
    (h \in HitsOn(n, Every(rules, c \cup f)) => h \in HitsOn(n, Every(rules, c \cup g)))

LEMMA HitsGrow ==
  ASSUME NEW A, NEW E, NEW F, NEW rules, AllAsk(A, E, F, rules)
  PROVE  \A f, g : Between(f, g, F) => \A n, c, h : /\ Gained(A, n, rules, c, f, g, h)
                                                    /\ Lost(E, n, rules, c, f, g, h)
<1> SUFFICES ASSUME NEW f, NEW g, Between(f, g, F), NEW n, NEW c, NEW h
             PROVE  Gained(A, n, rules, c, f, g, h) /\ Lost(E, n, rules, c, f, g, h)
  OBVIOUS
<1>1. /\ h.id \notin A => (h.id \in Every(rules, c \cup g) => h.id \in Every(rules, c \cup f))
      /\ h.id \notin E => (h.id \in Every(rules, c \cup f) => h.id \in Every(rules, c \cup g))
  BY EveryGrows DEF Between
<1> QED BY <1>1, OnLine DEF Gained, Lost

DockerMarks == {"cap_add:", "ports:"}
DockerGains == {"docker.compose.dangerous-capability", "docker.port.public-db-admin"}

LEMMA DockerAsks == AllAsk(DockerGains, {}, DockerMarks, DockerRules)
<1> DEFINE F == DockerMarks
<1>1. /\ Apart({{"docker.sock"}}, F) /\ Apart({{"privileged"}}, F)
      /\ Apart({{"host namespace"}}, F) /\ Apart({{"unconfined"}}, F)
      /\ Apart({{"arg", "copy"}, {"secret path", "secret name"}}, F)
      /\ Apart({{"curl"}, {"| sh", "unchecked"}}, F)
      /\ Apart({{"from", "image:"}, {":latest"}}, F)
  BY DEF Apart, DockerMarks
<1>2. {} \cap F = {} /\ {"localhost"} \cap F = {}
  BY DEF DockerMarks
<1> QED BY <1>1, <1>2, Zenon DEF AllAsk, Asks, DockerRules, DockerGains

CiGains == {"ci.security-scan.nonblocking"}

LEMMA CiAsks == AllAsk(CiGains, {}, {"near security"}, CiLineRules)
<1> DEFINE F == {"near security"}
<1>1. /\ Apart({{"permissions:"}, {"write-all"}}, F)
      /\ Apart({{"echo", "set -x"}, {"secret name"}}, F)
      /\ Apart({{"uses:"}, {"@main"}}, F) /\ Apart({{"image:"}, {":latest"}}, F)
      /\ Apart({{"uses:"}, {"@main", "@v1"}}, F) /\ Apart({{"secret path"}}, F)
  BY DEF Apart
<1>2. {} \cap F = {}
  OBVIOUS
<1> HIDE DEF F
<1>3. \A r \in CiLineRules : Asks(CiGains, {}, F, r)
  BY <1>1, <1>2, Zenon DEF Asks, CiLineRules, CiGains
<1> QED BY <1>3, Zenon DEF AllAsk, F

ReleaseMarks == {"tag evidence", "integrity evidence", "bridge"}
ReleaseGains == {"release.workflow.untrusted-publish"}
ReleaseLosses == {"release.gh.unverified-tag", "release.integrity.missing"}

LEMMA ReleaseAsks == AllAsk(ReleaseGains, ReleaseLosses, ReleaseMarks, ReleaseRules)
<1> DEFINE F == ReleaseMarks
<1>1. /\ Apart({{"git tag -f"}}, F) /\ Apart({{"git push refs/tags"}, {"--delete"}}, F)
      /\ Apart({{"gh release upload"}, {"--clobber"}}, F) /\ Apart({{"SKIP_TESTS=1"}}, F)
      /\ Apart({{"docker push"}, {":latest"}}, F)
      /\ Apart({{"gh release upload", "npm publish", "tar"}, {"secret path", "secret name"}}, F)
      /\ Apart({{"gh release create"}}, F) /\ Apart({Publishes}, F)
  BY DEF Apart, ReleaseMarks, Publishes
<1>2. {} \cap F = {}
  OBVIOUS
<1> QED BY <1>1, <1>2, Zenon DEF AllAsk, Asks, ReleaseRules, ReleaseGains, ReleaseLosses

LEMMA CiFileAsks == \A r \in CiFileRules : r.rule.id \in Excused \/ r.rule.unless = {}
<1>1. \A r \in CiFileRules : \E id, needs, unless, needles :
         r = FileRule(id, needs, unless, needles) /\ (id \in Excused \/ unless = {})
  BY Zenon DEF CiFileRules, Excused
<1>2. \A id, needs, unless, needles : /\ FileRule(id, needs, unless, needles).rule.id = id
                                      /\ FileRule(id, needs, unless, needles).rule.unless = unless
  BY DEF FileRule, Rule
<1> QED BY <1>1, <1>2

-----------------------------------------------------------------------------
(* A remark, of a file that drives tools, as the rules read it.            *)

\* The kinds of lines whose cut takes a note behind "#" away.
Reads(note) == {"yaml", "shell"} \cup (IF "//" \in note THEN {} ELSE {"source"})

\* ms is ls with comments added, which files of the kinds in reads have not, and which say
\* nothing of says.
Annotated(ls, ms, says, reads) ==
    /\ \A k \in DOMAIN ls : Whole(ls[k]) \subseteq Whole(ms[k])
    /\ DOMAIN ms = DOMAIN ls
    /\ Text(ls) \subseteq Text(ms) /\ Text(ms) \cap says = Text(ls) \cap says
    /\ \A kd \in reads : /\ CodeLines(ms, kd) = CodeLines(ls, kd)
                         /\ \A k \in CodeLines(ls, kd) : Cut(ms[k], kd) = Cut(ls[k], kd)
    /\ \A k, id : Allowed(ms, k, id) <=> Allowed(ls, k, id)

LEMMA RemarkAnnotates ==
  ASSUME Typed, kind \in Driving, NEW n \in DOMAIN lines, NEW note \in Notes[kind],
         Remark(n, note), note \cap Saying = {}
  PROVE  Annotated(lines, lines', Saying, Reads(note))
<1>1. /\ DOMAIN lines' = DOMAIN lines
      /\ lines'[n] = Noted(lines[n], note)
      /\ \A k \in DOMAIN lines : k # n => lines'[k] = lines[k]
  BY DEF Remark
<1>2. lines[n].sign = "none" /\ lines[n].note = {} /\ Sign = "#"
  <2>1. kind \in Kinds \ Sequenced /\ lines[n] \in Vocabulary[kind] /\ lines[n].sign = "none"
    BY ElementOfSeq, LenProperties DEF Typed, Remark, Commentable
  <2>2. kind # "comments" /\ Path \cap {"rs", "ts"} = {}
    BY TraitsAssumption DEF Typed, Driving, Path
  <2> QED BY <2>1, <2>2, LinesAssumption DEF Silence, Sign
<1>3. /\ lines'[n].code = lines[n].code /\ lines'[n].note = note /\ lines'[n].sign = "#"
      /\ lines'[n].allow = lines[n].allow
  BY <1>1, <1>2 DEF Noted
<1>4. /\ \A k \in DOMAIN lines : Whole(lines[k]) \subseteq Whole(lines'[k])
      /\ \A k \in DOMAIN lines : Whole(lines'[k]) \cap Saying = Whole(lines[k]) \cap Saying
  BY <1>1, <1>2, <1>3 DEF Whole
<1>5. Text(lines) \subseteq Text(lines') /\ Text(lines') \cap Saying = Text(lines) \cap Saying
  BY <1>1, <1>4 DEF Text
<1>6. \A kd \in Reads(note) : "#" \in CutSigns[kd] /\ ~CutBehind(lines'[n], kd)
  <2>1. "#" \in CutSigns.yaml /\ "#" \in CutSigns.shell /\ "#" \in CutSigns.source
    BY DEF CutSigns
  <2> QED BY <1>3, <2>1 DEF Reads, CutBehind
<1>7. \A kd \in Reads(note), k \in DOMAIN lines : Cut(lines'[k], kd) = Cut(lines[k], kd)
  BY <1>1, <1>2, <1>3, <1>6 DEF Cut, Whole
<1>8. \A kd \in Reads(note) : /\ CodeLines(lines', kd) = CodeLines(lines, kd)
                        /\ CodeLines(lines, kd) \subseteq DOMAIN lines
  BY <1>1, <1>7 DEF CodeLines
<1>9. ASSUME NEW k, NEW id PROVE Allowed(lines', k, id) <=> Allowed(lines, k, id)
  <2>1. Window(lines', k, 2) = Window(lines, k, 2) /\ Window(lines, k, 2) \subseteq DOMAIN lines
    BY <1>1 DEF Window
  <2>2. \A i \in Window(lines, k, 2) : lines'[i].allow = lines[i].allow
    BY <1>1, <1>3, <2>1
  <2> QED BY <2>1, <2>2 DEF Allowed
<1> QED BY <1>1, <1>4, <1>5, <1>7, <1>8, <1>9 DEF Annotated

\* A remark with a link is taken away from the lines of a file that no rule reads as source.
LEMMA KindsRead ==
  ASSUME NEW at, NEW note, "//" \in note => ReleaseKind(at) # "source"
  PROVE  /\ DockerKind(at) \in Reads(note) /\ GitKind(at) \in Reads(note)
         /\ ReleaseKind(at) \in Reads(note)
         /\ "package" \notin at => GitToolsKind(at) \in Reads(note)
         /\ (CiSurface(at) /\ ("gitlab" \in at => "yaml" \in at)) => CiKind(at) \in Reads(note)
<1>1. DockerKind(at) \in Reads(note) /\ ReleaseKind(at) \in Reads(note)
  BY DEF Reads, DockerKind, ReleaseKind
<1>2. GitKind(at) \in Reads(note)
  BY DEF Reads, GitKind, ReleaseKind
<1>3. "package" \notin at => GitToolsKind(at) \in Reads(note)
  BY DEF Reads, GitToolsKind
<1>4. (CiSurface(at) /\ ("gitlab" \in at => "yaml" \in at)) => CiKind(at) \in Reads(note)
  BY DEF Reads, CiKind, CiSurface
<1> QED BY <1>1, <1>2, <1>3, <1>4

LEMMA DockerAnnotated ==
  ASSUME NEW ls, NEW ms, NEW reads, Annotated(ls, ms, Saying, reads),
         NEW at, DockerKind(at) \in reads, NEW h
  PROVE  /\ h \in DockerHits(at, ls) => h \in DockerHits(at, ms)
         /\ h \in DockerHits(at, ms) => h \in DockerHits(at, ls) \/ h.id \in DockerGains
<1> DEFINE kd == DockerKind(at)
<1>1. /\ CodeLines(ms, kd) = CodeLines(ls, kd)
      /\ \A k \in CodeLines(ls, kd) : Cut(ms[k], kd) = Cut(ls[k], kd)
  BY DEF Annotated
<1>2. Between(DockerFile(ls), DockerFile(ms), DockerMarks)
  BY DEF Annotated, DockerFile, DockerMarks, Between
<1> DEFINE On(fs, k) == h \in HitsOn(k, Every(DockerRules, Cut(fs[k], kd) \cup DockerFile(fs)))
<1>3. \A fs : h \in DockerHits(at, fs) <=> \E k \in CodeLines(fs, kd) : On(fs, k)
  BY DockerAt, Zenon
<1>4. ASSUME NEW k \in CodeLines(ls, kd)
      PROVE  /\ On(ls, k) => On(ms, k)
             /\ h.id \notin DockerGains => (On(ms, k) => On(ls, k))
  <2>1. Cut(ms[k], kd) = Cut(ls[k], kd)
    BY <1>1
  <2>2. /\ Gained(DockerGains, k, DockerRules, Cut(ls[k], kd), DockerFile(ls), DockerFile(ms), h)
        /\ Lost({}, k, DockerRules, Cut(ls[k], kd), DockerFile(ls), DockerFile(ms), h)
    BY <1>2, DockerAsks, HitsGrow
  <2>3. h.id \notin {}
    OBVIOUS
  <2> QED BY <2>1, <2>2, <2>3, Zenon DEF Gained, Lost
<1> HIDE DEF kd, On
<1> QED BY <1>1, <1>3, <1>4

LEMMA ReleaseAnnotated ==
  ASSUME NEW ls, NEW ms, NEW reads, Annotated(ls, ms, Saying, reads),
         NEW at, ReleaseKind(at) \in reads, NEW h
  PROVE  /\ h.id \notin ReleaseLosses => (h \in ReleaseHits(at, ls) => h \in ReleaseHits(at, ms))
         /\ h.id \notin ReleaseGains => (h \in ReleaseHits(at, ms) => h \in ReleaseHits(at, ls))
<1> DEFINE kd == ReleaseKind(at)
<1>1. /\ CodeLines(ms, kd) = CodeLines(ls, kd)
      /\ \A k \in CodeLines(ls, kd) : Cut(ms[k], kd) = Cut(ls[k], kd)
  BY DEF Annotated
<1>2. Between(ReleaseFile(ls), ReleaseFile(ms), ReleaseMarks)
  <2>1. Text(ls) \subseteq Text(ms)
    BY DEF Annotated
  <2>2. Bridge(Text(ls)) => Bridge(Text(ms))
    BY <2>1 DEF Bridge
  <2>3. ReleaseFile(ls) \subseteq ReleaseFile(ms)
    BY <2>1, <2>2 DEF ReleaseFile
  <2>4. ReleaseFile(ms) \subseteq ReleaseMarks
    BY DEF ReleaseFile, ReleaseMarks
  <2> QED BY <2>3, <2>4 DEF Between
<1> DEFINE On(fs, k) == h \in HitsOn(k, Every(ReleaseRules, Cut(fs[k], kd) \cup ReleaseFile(fs)))
<1>3. \A fs : h \in ReleaseHits(at, fs) <=> \E k \in CodeLines(fs, kd) : On(fs, k)
  BY ReleaseAt, Zenon
<1>4. ASSUME NEW k \in CodeLines(ls, kd)
      PROVE  /\ h.id \notin ReleaseLosses => (On(ls, k) => On(ms, k))
             /\ h.id \notin ReleaseGains => (On(ms, k) => On(ls, k))
  <2>1. Cut(ms[k], kd) = Cut(ls[k], kd)
    BY <1>1
  <2>2. /\ Gained(ReleaseGains, k, ReleaseRules, Cut(ls[k], kd), ReleaseFile(ls), ReleaseFile(ms), h)
        /\ Lost(ReleaseLosses, k, ReleaseRules, Cut(ls[k], kd), ReleaseFile(ls), ReleaseFile(ms), h)
    BY <1>2, ReleaseAsks, HitsGrow
  <2> QED BY <2>1, <2>2, Zenon DEF Gained, Lost
<1> HIDE DEF kd, On
<1> QED BY <1>1, <1>3, <1>4

LEMMA CiLineAnnotated ==
  ASSUME NEW ls, NEW ms, NEW reads, Annotated(ls, ms, Saying, reads), NEW kd \in reads, NEW h
  PROVE  /\ h \in CiLineHits(kd, ls) => h \in CiLineHits(kd, ms)
         /\ h.id \notin CiGains => (h \in CiLineHits(kd, ms) => h \in CiLineHits(kd, ls))
<1>1. /\ CodeLines(ms, kd) = CodeLines(ls, kd)
      /\ \A k \in CodeLines(ls, kd) : Cut(ms[k], kd) = Cut(ls[k], kd)
  BY DEF Annotated
<1>2. ASSUME NEW k
      PROVE  Between(NearSecurity(ls, k), NearSecurity(ms, k), {"near security"})
  <2>1. Window(ms, k, 3) = Window(ls, k, 3) /\ Window(ls, k, 3) \subseteq DOMAIN ls
    BY DEF Annotated, Window
  <2>2. Nearby(ls, k, 3) \subseteq Nearby(ms, k, 3)
    BY <2>1 DEF Nearby, Annotated
  <2> QED BY <2>2 DEF Between, NearSecurity
<1> DEFINE On(fs, k) == h \in HitsOn(k, Every(CiLineRules, Cut(fs[k], kd) \cup NearSecurity(fs, k)))
<1>3. \A fs : h \in CiLineHits(kd, fs) <=> \E k \in CodeLines(fs, kd) : On(fs, k)
  BY CiLineAt, Zenon
<1>4. ASSUME NEW k \in CodeLines(ls, kd)
      PROVE  /\ On(ls, k) => On(ms, k)
             /\ h.id \notin CiGains => (On(ms, k) => On(ls, k))
  <2>1. Cut(ms[k], kd) = Cut(ls[k], kd)
    BY <1>1
  <2>2. /\ Gained(CiGains, k, CiLineRules, Cut(ls[k], kd), NearSecurity(ls, k), NearSecurity(ms, k), h)
        /\ Lost({}, k, CiLineRules, Cut(ls[k], kd), NearSecurity(ls, k), NearSecurity(ms, k), h)
    BY <1>2, CiAsks, HitsGrow
  <2>3. h.id \notin {}
    OBVIOUS
  <2> QED BY <2>1, <2>2, <2>3, Zenon DEF Gained, Lost
<1> HIDE DEF On
<1> QED BY <1>1, <1>3, <1>4

LEMMA CiFileAnnotated ==
  ASSUME NEW ls, NEW ms, NEW reads, Annotated(ls, ms, Saying, reads), NEW at, NEW h \in CiFileHits(at, ls)
  PROVE  h.id \in Excused \/ \E g \in CiFileHits(at, ms) : g.id = h.id
<1>1. PICK r \in CiFileRules : /\ Fires(r.rule, Text(ls) \cup (at \cap {"workflow"}))
                               /\ h = Hit(FirstWith(ls, r.needles), r.rule.id)
  BY CiFileAt
<1>2. h.id = r.rule.id
  BY <1>1 DEF Hit
<1>3. CASE h.id \in Excused
  BY <1>3
<1>4. CASE h.id \notin Excused
  <2>1. r.rule.unless = {}
    BY <1>2, <1>4, CiFileAsks
  <2>2. Text(ls) \subseteq Text(ms)
    BY DEF Annotated
  <2>3. Fires(r.rule, Text(ms) \cup (at \cap {"workflow"}))
    BY <1>1, <2>1, <2>2 DEF Fires
  <2>4. Hit(FirstWith(ms, r.needles), r.rule.id) \in CiFileHits(at, ms)
    BY <2>3, CiFileAt
  <2>5. Hit(FirstWith(ms, r.needles), r.rule.id).id = h.id
    BY <1>2 DEF Hit
  <2> QED BY <2>4, <2>5
<1> QED BY <1>3, <1>4

LEMMA RunnerAnnotated ==
  ASSUME NEW ls, NEW ms, NEW reads, Annotated(ls, ms, Saying, reads),
         NEW kd \in reads, NEW h \in RunnerHits(ls, kd)
  PROVE  \E g \in RunnerHits(ms, kd) : g.id = h.id
<1>1. 2 \in CodeLines(ls, kd) /\ PrivilegedRunner(Text(ls))
  BY DEF RunnerHits
<1>2. h.id = "ci.untrusted-runner.privileged-docker"
  BY DEF RunnerHits, Hit
<1>3. CodeLines(ms, kd) = CodeLines(ls, kd) /\ Text(ls) \subseteq Text(ms)
  BY DEF Annotated
<1>4. PrivilegedRunner(Text(ms))
  BY <1>1, <1>3 DEF PrivilegedRunner
<1> DEFINE g == Hit(FirstWith(ms, Runner), "ci.untrusted-runner.privileged-docker")
<1>5. g \in RunnerHits(ms, kd)
  BY <1>1, <1>3, <1>4 DEF RunnerHits
<1>6. g.id = h.id
  BY <1>2 DEF Hit
<1> QED BY <1>5, <1>6

LEMMA GitAnnotated ==
  ASSUME NEW ls, NEW ms, NEW reads, Annotated(ls, ms, Saying, reads), NEW at, GitKind(at) \in reads,
         "package" \notin at => GitToolsKind(at) \in reads, NEW h
  PROVE  /\ h \in GitHits(at, ms) <=> h \in GitHits(at, ls)
         /\ "package" \notin at => (h \in GitToolsHits(at, ms) <=> h \in GitToolsHits(at, ls))
         /\ GitToolsSurface(at, ms) <=> GitToolsSurface(at, ls)
         /\ ReleaseSurface(at, ms) <=> ReleaseSurface(at, ls)
<1>1. h \in GitHits(at, ms) <=> h \in GitHits(at, ls)
  <2> DEFINE kd == GitKind(at)
  <2>1. /\ CodeLines(ms, kd) = CodeLines(ls, kd)
        /\ \A k \in CodeLines(ls, kd) : Cut(ms[k], kd) = Cut(ls[k], kd)
    BY DEF Annotated
  <2>2. \A fs : h \in GitHits(at, fs) <=>
          \E k \in CodeLines(fs, kd) : h \in HitsOn(k, Every(GitRules, Cut(fs[k], kd)))
    BY GitAt, Zenon
  <2> HIDE DEF kd
  <2> QED BY <2>1, <2>2
<1>2. ASSUME "package" \notin at
      PROVE  h \in GitToolsHits(at, ms) <=> h \in GitToolsHits(at, ls)
  <2> DEFINE kd == GitToolsKind(at)
             On(fs, k) == h \in HitsOn(k, Every(GitToolsRules,
                                               (Cut(fs[k], kd) \ Sections) \cup Staged(at)))
  <2>1. /\ CodeLines(ms, kd) = CodeLines(ls, kd)
        /\ \A k \in CodeLines(ls, kd) : Cut(ms[k], kd) = Cut(ls[k], kd)
    BY <1>2 DEF Annotated
  <2>2. \A fs : h \in GitToolsHits(at, fs) <=>
          (\E k \in CodeLines(fs, kd) : On(fs, k)) /\ ~Allowed(fs, h.line, h.id)
    BY <1>2, GitToolsAt, Zenon
  <2>3. \A k \in CodeLines(ls, kd) : On(ms, k) <=> On(ls, k)
    BY <2>1
  <2>4. Allowed(ms, h.line, h.id) <=> Allowed(ls, h.line, h.id)
    BY DEF Annotated
  <2> HIDE DEF kd, On
  <2> QED BY <2>1, <2>2, <2>3, <2>4
<1>3. Text(ms) \cap Saying = Text(ls) \cap Saying
  BY DEF Annotated
<1>4. Text(ms) \cap HookTooling = Text(ls) \cap HookTooling
  BY <1>3 DEF Saying
<1>5. /\ Text(ms) \cap ReleaseCommand = Text(ls) \cap ReleaseCommand
      /\ Text(ms) \cap (ReleaseCommand \cup {"rollback"}) = Text(ls) \cap (ReleaseCommand \cup {"rollback"})
  BY <1>3 DEF Saying
<1>6. GitToolsSurface(at, ms) <=> GitToolsSurface(at, ls)
  BY <1>4, Zenon DEF GitToolsSurface
<1>7. ReleaseSurface(at, ms) <=> ReleaseSurface(at, ls)
  BY <1>5, Zenon DEF ReleaseSurface
<1> QED BY <1>1, <1>2, <1>6, <1>7

LEMMA RemarkMade ==
  ASSUME Typed, kind \in Driving, NEW n \in DOMAIN lines, NEW note \in Notes[kind],
         Remark(n, note), note \cap Saying = {}, "//" \in note => ReleaseKind(Path) # "source"
  PROVE  /\ \A h \in Found' \ Found : h.id \in Aggravated
         /\ \A h \in Found \ Found' :
              h.id \in Excused \/ (h.id \in Aggravated /\ \E g \in Found' : g.id = h.id)
<1>1. Found = Findings(Path, lines) /\ Found' = Findings(Path, lines')
  BY DEF Found, Path, Remark
<1>2. Annotated(lines, lines', Saying, Reads(note))
  BY RemarkAnnotates
<1>3. Commentable /\ kind # "comments" /\ Path \cap {"rs", "ts"} = {}
  BY TraitsAssumption DEF Typed, Driving, Path, Remark
<1>4. ~RustSurface(Path) /\ ~TypeScriptSurface(Path) /\ "package" \notin Path
  BY <1>3, LineFindings DEF RustSurface, TypeScriptSurface
<1>5. \A ls, h : h \in Findings(Path, ls) <=>
        \/ DockerSurface(Path) /\ h \in DockerHits(Path, ls)
        \/ CiSurface(Path) /\ h \in CiHits(Path, ls)
        \/ GitSurface(Path) /\ h \in GitHits(Path, ls)
        \/ GitToolsSurface(Path, ls) /\ h \in GitToolsHits(Path, ls)
        \/ ReleaseSurface(Path, ls) /\ h \in ReleaseHits(Path, ls)
  BY <1>3, <1>4, LineFindings
<1>6. \A ls, h : h \in CiHits(Path, ls) <=>
        \/ h \in CiFileHits(Path, ls) \/ h \in CiLineHits(CiKind(Path), ls)
        \/ h \in RunnerHits(ls, CiKind(Path))
  BY DEF CiHits
<1>7. /\ DockerGains \cup CiGains \cup ReleaseGains \subseteq Aggravated
      /\ "ci.untrusted-runner.privileged-docker" \in Aggravated
      /\ ReleaseLosses \subseteq Excused
  BY DEF DockerGains, CiGains, ReleaseGains, ReleaseLosses, Aggravated, Excused
<1>8. \A ls : /\ \A h \in CiFileHits(Path, ls) : h.id \in Aggravated
              /\ \A h \in RunnerHits(ls, CiKind(Path)) : h.id \in Aggravated
  <2>1. \A r \in CiFileRules : r.rule.id \in Aggravated
    BY DEF Aggravated
  <2>2. \A ls : \A h \in CiFileHits(Path, ls) : h.id \in Aggravated
    BY <2>1 DEF CiFileHits, Hit
  <2>3. \A ls : \A h \in RunnerHits(ls, CiKind(Path)) : h.id \in Aggravated
    BY <1>7 DEF RunnerHits, Hit
  <2> QED BY <2>2, <2>3
<1>9. /\ DockerKind(Path) \in Reads(note) /\ GitKind(Path) \in Reads(note)
      /\ ReleaseKind(Path) \in Reads(note) /\ GitToolsKind(Path) \in Reads(note)
      /\ CiSurface(Path) => CiKind(Path) \in Reads(note)
  <2>1. "gitlab" \in Path => "yaml" \in Path
    BY TraitsAssumption DEF Typed, Path
  <2> QED BY <1>4, <2>1, KindsRead
<1>10. ASSUME NEW h, h \in Findings(Path, lines'), h \notin Findings(Path, lines)
       PROVE  h.id \in Aggravated
  <2>1. CASE DockerSurface(Path) /\ h \in DockerHits(Path, lines')
    BY <1>2, <1>5, <1>7, <1>9, <1>10, <2>1, DockerAnnotated
  <2>2. CASE CiSurface(Path) /\ h \in CiHits(Path, lines')
    BY <1>2, <1>5, <1>6, <1>7, <1>8, <1>9, <1>10, <2>2, CiLineAnnotated
  <2>3. CASE ReleaseSurface(Path, lines') /\ h \in ReleaseHits(Path, lines')
    BY <1>2, <1>5, <1>7, <1>9, <1>10, <2>3, ReleaseAnnotated, GitAnnotated
  <2> QED BY <1>2, <1>4, <1>5, <1>9, <1>10, <2>1, <2>2, <2>3, GitAnnotated
<1>11. ASSUME NEW h, h \in Findings(Path, lines), h \notin Findings(Path, lines')
       PROVE  \/ h.id \in Excused
              \/ h.id \in Aggravated /\ \E g \in Findings(Path, lines') : g.id = h.id
  <2>1. ~(DockerSurface(Path) /\ h \in DockerHits(Path, lines))
    BY <1>2, <1>5, <1>9, <1>11, DockerAnnotated
  <2>2. CASE CiSurface(Path) /\ h \in CiHits(Path, lines)
    <3>1. CASE h \in CiFileHits(Path, lines)
      BY <1>2, <1>5, <1>6, <1>8, <2>2, <3>1, CiFileAnnotated
    <3>2. CASE h \in RunnerHits(lines, CiKind(Path))
      BY <1>2, <1>5, <1>6, <1>8, <1>9, <2>2, <3>2, RunnerAnnotated
    <3>3. h \notin CiLineHits(CiKind(Path), lines)
      BY <1>2, <1>5, <1>6, <1>9, <1>11, <2>2, CiLineAnnotated
    <3> QED BY <1>6, <2>2, <3>1, <3>2, <3>3
  <2>3. CASE ReleaseSurface(Path, lines) /\ h \in ReleaseHits(Path, lines)
    BY <1>2, <1>5, <1>7, <1>9, <1>11, <2>3, ReleaseAnnotated, GitAnnotated
  <2> QED BY <1>2, <1>4, <1>5, <1>9, <1>11, <2>1, <2>2, <2>3, GitAnnotated
<1> QED BY <1>1, <1>10, <1>11

\* Of every file that drives tools, of whatever lines and remarks: what a remark does not add is
\* no finding of a rule on lines, and what it takes away none but of those that look for an
\* excuse in the whole text.
THEOREM CodeIsNotRemarks == Spec => RemarksAreNotCode
<1>1. Typed => [\A n \in DOMAIN lines, note \in Notes[kind] :
        (Remark(n, note) /\ kind \in Driving /\ note \cap Saying = {}
            /\ ("//" \in note => ReleaseKind(Path) # "source")) =>
            /\ \A h \in Found' \ Found : h.id \in Aggravated
            /\ \A h \in Found \ Found' :
                  h.id \in Excused \/ (h.id \in Aggravated /\ \E g \in Found' : g.id = h.id)]_vars
  BY RemarkMade
<1> QED BY <1>1, LinesAreWritten, PTL DEF RemarksAreNotCode

-----------------------------------------------------------------------------
(* Migrations: what two metadata files answer together, one of them does.  *)

\* Metadata that answers what one or the other does, and metadata that answers nothing.
Joint(one, other, both, verify) ==
    /\ SafetyEvidence(both, verify) <=> SafetyEvidence(one, verify) \/ SafetyEvidence(other, verify)
    /\ DependencyInventory(both) <=> DependencyInventory(one) \/ DependencyInventory(other)
    /\ \A needle : MetadataHas(both, needle) <=> MetadataHas(one, needle) \/ MetadataHas(other, needle)
Answerless(none, verify) ==
    /\ ~SafetyEvidence(none, verify) /\ ~DependencyInventory(none)
    /\ \A needle : ~MetadataHas(none, needle)

LEMMA TwoAnswers ==
  ASSUME NEW a, NEW b, NEW verify
  PROVE  Joint({a}, {b}, {a, b}, verify) /\ Answerless({}, verify)
BY DEF SafetyEvidence, DependencyInventory, MetadataHas, Joint, Answerless

LEMMA StatementAt ==
  ASSUME NEW text, NEW full, NEW meta, NEW verify, NEW id
  PROVE  id \in StatementHits(text, full, meta, verify) <=>
    LET guarded == SafetyEvidence(meta, verify)
        write == FullTableWrite(text) /\ ~guarded
        blocking == BlockingMaintenance(text) /\ ~MetadataHas(meta, "maintenance_window")
        untimed(t) == RiskyDdl(text) /\ t \notin full /\ ~MetadataHas(meta, t)
    IN  \/ id = "sql.migration.destructive-no-proof" /\ Destructive(text) /\ ~guarded
        \/ id = "sql.migration.cascade-convenience" /\ Cascade(text) /\ ~DependencyInventory(meta)
        \/ id = "sql.migration.missing-lock-timeout" /\ untimed("lock_timeout")
        \/ id = "sql.migration.missing-statement-timeout" /\ untimed("statement_timeout")
        \/ id = "sql.migration.full-table-write" /\ write
        \/ id = "sql.migration.blocking-maintenance-op" /\ ~write /\ blocking
        \/ id = "sql.migration.sqlite-unsafe-pragma" /\ ~write /\ ~blocking /\ UnsafePragma(text, full)
BY Zenon DEF StatementHits

LEMMA WriteOrMaintain == ASSUME NEW text PROVE ~(FullTableWrite(text) /\ BlockingMaintenance(text))
BY DEF FullTableWrite, BlockingMaintenance, BeginsWith, StartsWith

LEMMA StatementAnswers ==
  ASSUME NEW s, NEW t, NEW full, NEW one, NEW other, NEW both, NEW none, NEW verify, NEW id,
         Joint(one, other, both, verify), Answerless(none, verify),
         id \in StatementHits(s, full, one, verify)
  PROVE  /\ id \in StatementHits(t, full, other, verify) => id \in StatementHits(s, full, both, verify)
         /\ id \in StatementHits(s, full, none, verify) \/ id = "sql.migration.sqlite-unsafe-pragma"
<1> DEFINE guarded(meta) == SafetyEvidence(meta, verify)
           window(meta) == MetadataHas(meta, "maintenance_window")
           write(text, meta) == FullTableWrite(text) /\ ~guarded(meta)
           blocking(text, meta) == BlockingMaintenance(text) /\ ~window(meta)
           gives(text, meta) == id \in StatementHits(text, full, meta, verify)
<1>1. CASE id = "sql.migration.destructive-no-proof"
  <2>1. \A text, meta : gives(text, meta) <=> Destructive(text) /\ ~guarded(meta)
    BY <1>1, StatementAt
  <2> QED BY <2>1 DEF Joint, Answerless
<1>2. CASE id = "sql.migration.cascade-convenience"
  <2>1. \A text, meta : gives(text, meta) <=> Cascade(text) /\ ~DependencyInventory(meta)
    BY <1>2, StatementAt
  <2> QED BY <2>1 DEF Joint, Answerless
<1>3. CASE id = "sql.migration.missing-lock-timeout"
  <2>1. \A text, meta : gives(text, meta) <=>
          RiskyDdl(text) /\ "lock_timeout" \notin full /\ ~MetadataHas(meta, "lock_timeout")
    BY <1>3, StatementAt
  <2> QED BY <2>1 DEF Joint, Answerless
<1>4. CASE id = "sql.migration.missing-statement-timeout"
  <2>1. \A text, meta : gives(text, meta) <=>
          RiskyDdl(text) /\ "statement_timeout" \notin full /\ ~MetadataHas(meta, "statement_timeout")
    BY <1>4, StatementAt
  <2> QED BY <2>1 DEF Joint, Answerless
<1>5. CASE id = "sql.migration.full-table-write"
  <2>1. \A text, meta : gives(text, meta) <=> write(text, meta)
    BY <1>5, StatementAt
  <2> QED BY <2>1 DEF Joint, Answerless
<1>6. CASE id = "sql.migration.blocking-maintenance-op"
  <2>1. \A text, meta : gives(text, meta) <=> ~write(text, meta) /\ blocking(text, meta)
    BY <1>6, StatementAt
  <2> QED BY <2>1, WriteOrMaintain DEF Joint, Answerless
<1>7. CASE id = "sql.migration.sqlite-unsafe-pragma"
  <2>1. \A text, meta : gives(text, meta) <=>
          ~write(text, meta) /\ ~blocking(text, meta) /\ UnsafePragma(text, full)
    BY <1>7, StatementAt
  <2> QED BY <1>7, <2>1 DEF Joint, Answerless
<1> QED BY <1>1, <1>2, <1>3, <1>4, <1>5, <1>6, <1>7, StatementAt

LEMMA MigrationAt ==
  ASSUME NEW ls, NEW meta, NEW verify, NEW h
  PROVE  h \in MigrationHits(ls, meta, verify) <=>
           \/ h \in TransactionHits(ls)
           \/ /\ SqliteRebuild(FullText(ls))
              /\ h = Hit(Statements(ls)[1].line, "sql.migration.sqlite-rebuild-no-check")
           \/ \E k \in DOMAIN Statements(ls) :
                h \in HitsOn(Statements(ls)[k].line,
                             StatementHits(Statements(ls)[k].text, FullText(ls), meta, verify))
BY Zenon DEF MigrationHits

LEMMA StatementsAnswer ==
  ASSUME NEW m, NEW n, NEW s, NEW t, NEW full,
         NEW one, NEW other, NEW both, NEW none, NEW verify, NEW h,
         Joint(one, other, both, verify), Answerless(none, verify),
         h \in HitsOn(m, StatementHits(s, full, one, verify))
  PROVE  /\ h \in HitsOn(n, StatementHits(t, full, other, verify)) =>
              h \in HitsOn(m, StatementHits(s, full, both, verify))
         /\ \/ h \in HitsOn(m, StatementHits(s, full, none, verify))
            \/ h.id = "sql.migration.sqlite-unsafe-pragma"
<1>1. PICK id : h.id = id
  OBVIOUS
<1>2. \A k, ids : h \in HitsOn(k, ids) <=> h = Hit(k, id) /\ id \in ids
  BY <1>1, OnLine
<1>3. id \in StatementHits(s, full, one, verify) /\ h = Hit(m, id)
  BY <1>2
<1>4. /\ id \in StatementHits(t, full, other, verify) => id \in StatementHits(s, full, both, verify)
      /\ id \in StatementHits(s, full, none, verify) \/ id = "sql.migration.sqlite-unsafe-pragma"
  BY <1>3, StatementAnswers
<1> QED BY <1>1, <1>2, <1>3, <1>4

LEMMA MigrationAnswers ==
  ASSUME NEW one, NEW other, NEW both, NEW none, NEW verify,
         Joint(one, other, both, verify), Answerless(none, verify),
         NEW h \in MigrationHits(lines, one, verify)
  PROVE  /\ h \in MigrationHits(lines, other, verify) => h \in MigrationHits(lines, both, verify)
         /\ \/ h \in MigrationHits(lines, none, verify)
            \/ h.id = "sql.migration.sqlite-unsafe-pragma"
<1> DEFINE apart == \/ h \in TransactionHits(lines)
                    \/ /\ SqliteRebuild(FullText(lines))
                       /\ h = Hit(Statements(lines)[1].line, "sql.migration.sqlite-rebuild-no-check")
           on(k, meta) == h \in HitsOn(Statements(lines)[k].line,
               StatementHits(Statements(lines)[k].text, FullText(lines), meta, verify))
<1>1. \A meta : h \in MigrationHits(lines, meta, verify) <=>
                  apart \/ \E k \in DOMAIN Statements(lines) : on(k, meta)
  BY MigrationAt, Zenon
<1>2. ASSUME NEW k, NEW j, on(k, one)
      PROVE  /\ on(j, other) => on(k, both)
             /\ on(k, none) \/ h.id = "sql.migration.sqlite-unsafe-pragma"
  BY <1>2, StatementsAnswer
<1> HIDE DEF apart, on
<1> QED BY <1>1, <1>2

\* Of every migration, of whatever lines: what neither of two metadata files answers is reported
\* when both are there, and metadata brings no finding but that of a pragma which a write to a
\* whole table in its statement hid.
THEOREM MetadataAnswersAlone == Spec => []EvidenceIsWhole
<1>1. \A a, b, verify : \A h \in MigrationHits(lines, {a}, verify) :
        /\ h \in MigrationHits(lines, {b}, verify) => h \in MigrationHits(lines, {a, b}, verify)
        /\ \/ h \in MigrationHits(lines, {}, verify)
           \/ h.id = "sql.migration.sqlite-unsafe-pragma"
  BY TwoAnswers, MigrationAnswers
<1>2. EvidenceIsWhole
  BY <1>1 DEF EvidenceIsWhole
<1> QED BY <1>2, PTL

-----------------------------------------------------------------------------
(* Recursive readers.                                                      *)

LEMMA Induction ==
  ASSUME NEW S, 0 \in S, \A n \in Nat : n \in S => n + 1 \in S
  PROVE  \A n \in Nat : n \in S
<1> SUFFICES ASSUME Nat \ S # {} PROVE FALSE
  OBVIOUS
<1>1. PICK n \in Nat \ S : \A m \in Nat \ S : <<m, n>> \notin OpToRel(<, Nat)
  BY NatLessThanWellFounded, WFMin, Nat \ S \subseteq Nat
<1>2. n # 0 /\ n - 1 \in Nat /\ n - 1 < n
  OBVIOUS
<1>3. n - 1 \in S
  BY <1>1, <1>2 DEF OpToRel
<1>4. (n - 1) + 1 \in S
  BY <1>2, <1>3
<1> QED BY <1>2, <1>4

\* A function that is defined by the steps of a reader.
Follows(f, base, step, n) == f = [i \in 0 .. n |-> IF i = 0 THEN base ELSE step[<<f[i - 1], i>>]]

LEMMA FollowsExists ==
  ASSUME NEW S, NEW base \in S, NEW T, NEW step \in [S \X T -> S], T = Nat \ {0}
  PROVE  \A n \in Nat : \E f \in [0 .. n -> S] : Follows(f, base, step, n)
<1> DEFINE N == {n \in Nat : \E f \in [0 .. n -> S] : Follows(f, base, step, n)}
<1>1. 0 \in N
  <2> DEFINE f == [i \in 0 .. 0 |-> base]
  <2>1. f \in [0 .. 0 -> S]
    OBVIOUS
  <2>2. \A i \in 0 .. 0 : i = 0
    OBVIOUS
  <2>3. f = [i \in 0 .. 0 |-> IF i = 0 THEN base ELSE step[<<f[i - 1], i>>]]
    BY <2>2
  <2> HIDE DEF f
  <2> QED BY <2>1, <2>3 DEF Follows
<1>2. ASSUME NEW n \in Nat, n \in N PROVE n + 1 \in N
  <2>1. PICK f \in [0 .. n -> S] : Follows(f, base, step, n)
    BY <1>2
  <2> DEFINE g == [i \in 0 .. n + 1 |-> IF i = 0 THEN base ELSE step[<<f[i - 1], i>>]]
  <2>2. f = [i \in 0 .. n |-> IF i = 0 THEN base ELSE step[<<f[i - 1], i>>]]
    BY <2>1 DEF Follows
  <2>3. \A i \in 0 .. n : f[i] = IF i = 0 THEN base ELSE step[<<f[i - 1], i>>]
    BY <2>2
  <2>4. \A i \in 0 .. n : g[i] = f[i]
    BY <2>3
  <2>5. \A i \in 0 .. n + 1 : i # 0 => i - 1 \in 0 .. n /\ i \in T
    OBVIOUS
  <2>6. g = [i \in 0 .. n + 1 |-> IF i = 0 THEN base ELSE step[<<g[i - 1], i>>]]
    <3> DEFINE h == [i \in 0 .. n + 1 |-> IF i = 0 THEN base ELSE step[<<g[i - 1], i>>]]
    <3>1. ASSUME NEW i \in 0 .. n + 1
          PROVE  (IF i = 0 THEN base ELSE step[<<f[i - 1], i>>]) = (IF i = 0 THEN base ELSE step[<<g[i - 1], i>>])
      BY <2>4, <2>5
    <3>2. g = h
      BY <3>1
    <3> QED BY <3>2
  <2>7. g \in [0 .. n + 1 -> S]
    <3>1. ASSUME NEW i \in 0 .. n + 1 PROVE (IF i = 0 THEN base ELSE step[<<f[i - 1], i>>]) \in S
      <4>1. CASE i = 0
        BY <4>1
      <4>2. CASE i # 0
        <5>1. <<f[i - 1], i>> \in S \X T
          BY <2>5, <4>2
        <5> QED BY <4>2, <5>1
      <4> QED BY <4>1, <4>2
    <3> QED BY <3>1
  <2> HIDE DEF g
  <2>8. Follows(g, base, step, n + 1)
    BY <2>6 DEF Follows
  <2> QED BY <2>7, <2>8
<1> HIDE DEF N
<1>3. \A n \in Nat : n \in N
  BY <1>1, <1>2, Induction
<1> QED BY <1>3 DEF N

-----------------------------------------------------------------------------
(* Python: the reader.                                                     *)

Seen == [mode : {"code", "note"} \cup Triples, opened : Nat, tame : BOOLEAN, code : SUBSET STRING]

LEMMA TriplesApart == Triples \cap {"code", "note", "none", "#"} = {} /\ TripleDouble # TripleSingle
<1>1. /\ TripleDouble # "code" /\ TripleDouble # "note" /\ TripleDouble # "none" /\ TripleDouble # "#"
      /\ TripleSingle # "code" /\ TripleSingle # "note" /\ TripleSingle # "none" /\ TripleSingle # "#"
      /\ TripleDouble # TripleSingle
  BY Zenon DEF TripleDouble, TripleSingle
<1> QED BY <1>1 DEF Triples

LEMMA PythonStep ==
  ASSUME NEW s \in Seen, NEW t \in STRING, NEW r, r = PythonToken(s, t)
  PROVE  /\ r \in Seen
         /\ s.mode \in Triples =>
              /\ r.opened = s.opened /\ r.code = s.code /\ (r.tame <=> s.tame)
              /\ r.mode = IF t = s.mode THEN "code" ELSE s.mode
         /\ s.mode = "note" =>
              /\ r.opened = s.opened /\ r.code = s.code /\ r.mode = "note"
              /\ r.tame <=> s.tame /\ t \notin Triples
         /\ s.mode = "code" =>
              /\ t = "#" => /\ r.opened = s.opened /\ r.code = s.code /\ r.mode = "note"
                            /\ (r.tame <=> s.tame)
              /\ t \in Triples => /\ r.opened = s.opened + 1 /\ r.code = s.code /\ r.mode = t
                                  /\ r.tame <=> s.tame /\ s.opened = 0
              /\ t # "#" /\ t \notin Triples =>
                     /\ r.opened = s.opened /\ r.code = s.code \cup {t} /\ r.mode = "code"
                     /\ (r.tame <=> s.tame)
<1>1. CASE s.mode \in Triples
  <2>1. s.mode # "note" /\ s.mode # "code"
    BY <1>1, TriplesApart
  <2>2. r = IF t = s.mode THEN [s EXCEPT !.mode = "code"] ELSE s
    BY <1>1, <2>1 DEF PythonToken
  <2> QED BY <1>1, <2>1, <2>2 DEF Seen
<1>2. CASE s.mode = "note"
  <2>1. s.mode \notin Triples
    BY <1>2, TriplesApart
  <2>2. r = [s EXCEPT !.tame = s.tame /\ t \notin Triples]
    BY <1>2, <2>1 DEF PythonToken
  <2> QED BY <1>2, <2>1, <2>2 DEF Seen
<1>3. CASE s.mode = "code"
  <2>1. s.mode \notin Triples /\ "#" \notin Triples
    BY <1>3, TriplesApart
  <2>2. CASE t = "#"
    <3>1. r = [s EXCEPT !.mode = "note"]
      BY <1>3, <2>1, <2>2 DEF PythonToken
    <3> QED BY <1>3, <2>1, <2>2, <3>1 DEF Seen
  <2>3. CASE t \in Triples
    <3>1. r = [s EXCEPT !.mode = t, !.opened = s.opened + 1, !.tame = s.tame /\ s.opened = 0]
      BY <1>3, <2>1, <2>3 DEF PythonToken
    <3>2. /\ r.opened = s.opened + 1 /\ r.code = s.code /\ r.mode = t
          /\ r.tame <=> s.tame /\ s.opened = 0
      BY <3>1 DEF Seen
    <3>3. r = [mode |-> t, opened |-> s.opened + 1, tame |-> s.tame /\ s.opened = 0, code |-> s.code]
      BY <3>1 DEF Seen
    <3>4. r \in Seen
      BY <2>3, <3>3 DEF Seen
    <3>5. t # "#"
      BY <2>1, <2>3
    <3> HIDE DEF Seen
    <3> QED BY <1>3, <2>1, <2>3, <3>2, <3>4, <3>5
  <2>4. CASE t # "#" /\ t \notin Triples
    <3>1. r = [s EXCEPT !.code = s.code \cup {t}]
      BY <1>3, <2>1, <2>4 DEF PythonToken
    <3>2. s.code \cup {t} \in SUBSET STRING
      BY DEF Seen
    <3> QED BY <1>3, <2>1, <2>4, <3>1, <3>2 DEF Seen
  <2> QED BY <1>3, <2>1, <2>2, <2>3, <2>4
<1> QED BY <1>1, <1>2, <1>3 DEF Seen

\* What the reader has seen before a line, and after each of its tokens.
LineBegun(before) ==
    [mode |-> NoteEnded(before.mode), opened |-> 0, tame |-> before.tame, code |-> {}]
PythonReading(f, before, line) ==
    f = [i \in 0 .. Len(line) |->
            IF i = 0 THEN LineBegun(before) ELSE PythonToken(f[i - 1], line[i])]

LEMMA BegunIsSeen ==
  ASSUME NEW s \in Seen
  PROVE  /\ LineBegun(s) \in Seen
         /\ LineBegun(s).opened = 0 /\ LineBegun(s).code = {} /\ (LineBegun(s).tame <=> s.tame)
         /\ LineBegun(s).mode = IF s.mode = "note" THEN "code" ELSE s.mode
BY DEF LineBegun, NoteEnded, Seen

LEMMA PythonReadingExists ==
  ASSUME NEW before \in Seen, NEW line \in Seq(STRING)
  PROVE  \E f \in [0 .. Len(line) -> Seen] : PythonReading(f, before, line)
<1> DEFINE T == Nat \ {0}
           step == [p \in Seen \X T |->
                      IF p[2] \in 1 .. Len(line) THEN PythonToken(p[1], line[p[2]]) ELSE p[1]]
<1>0. Len(line) \in Nat /\ \A i \in 1 .. Len(line) : line[i] \in STRING
  BY LenProperties, ElementOfSeq
<1>1. \A s \in Seen, i \in 1 .. Len(line) : PythonToken(s, line[i]) \in Seen
  BY <1>0, PythonStep
<1>2. step \in [Seen \X T -> Seen]
  <2>1. ASSUME NEW p \in Seen \X T
        PROVE  (IF p[2] \in 1 .. Len(line) THEN PythonToken(p[1], line[p[2]]) ELSE p[1]) \in Seen
    BY <1>1
  <2> QED BY <2>1
<1>3. \A s \in Seen, i \in 1 .. Len(line) : step[<<s, i>>] = PythonToken(s, line[i])
  OBVIOUS
<1> HIDE DEF step
<1>4. LineBegun(before) \in Seen
  BY BegunIsSeen
<1>5. PICK f \in [0 .. Len(line) -> Seen] : Follows(f, LineBegun(before), step, Len(line))
  BY <1>0, <1>2, <1>4, FollowsExists
<1>6. f = [i \in 0 .. Len(line) |-> IF i = 0 THEN LineBegun(before) ELSE step[<<f[i - 1], i>>]]
  BY <1>5 DEF Follows
<1>7. ASSUME NEW i \in 0 .. Len(line)
      PROVE  (IF i = 0 THEN LineBegun(before) ELSE step[<<f[i - 1], i>>])
               = (IF i = 0 THEN LineBegun(before) ELSE PythonToken(f[i - 1], line[i]))
  <2>1. CASE i = 0
    BY <2>1
  <2>2. CASE i # 0
    <3>1. i \in 1 .. Len(line) /\ i - 1 \in 0 .. Len(line)
      BY <1>0, <2>2
    <3>2. f[i - 1] \in Seen
      BY <1>5, <3>1
    <3> QED BY <1>3, <2>2, <3>1, <3>2
  <2> QED BY <2>1, <2>2
<1>8. f = [i \in 0 .. Len(line) |->
             IF i = 0 THEN LineBegun(before) ELSE PythonToken(f[i - 1], line[i])]
  <2> DEFINE g == [i \in 0 .. Len(line) |->
             IF i = 0 THEN LineBegun(before) ELSE PythonToken(f[i - 1], line[i])]
  <2>1. f = g
    BY <1>6, <1>7
  <2> QED BY <2>1
<1> QED BY <1>5, <1>8 DEF PythonReading

LEMMA PythonLineReads ==
  ASSUME NEW before \in Seen, NEW line \in Seq(STRING)
  PROVE  \E f \in [0 .. Len(line) -> Seen] :
           /\ f[0] = LineBegun(before)
           /\ \A k \in 0 .. Len(line) - 1 : f[k + 1] = PythonToken(f[k], line[k + 1])
           /\ PythonLine(before, line) = f[Len(line)]
<1> DEFINE f == CHOOSE g : PythonReading(g, before, line)
<1>0. Len(line) \in Nat /\ \A i \in 1 .. Len(line) : line[i] \in STRING
  BY LenProperties, ElementOfSeq
<1>1. \E g : PythonReading(g, before, line)
  BY PythonReadingExists
<1>2. PythonReading(f, before, line)
  BY <1>1, Zenon
<1>3. PythonLine(before, line) = f[Len(line)]
  BY DEF PythonLine, PythonReading, LineBegun
<1> HIDE DEF f
<1> DEFINE Do(s, i) == PythonToken(s, line[i])
<1>4. f = [i \in 0 .. Len(line) |-> IF i = 0 THEN LineBegun(before) ELSE Do(f[i - 1], i)]
  BY <1>2 DEF PythonReading
<1> HIDE DEF Do
<1>5. f[0] = LineBegun(before)
  BY <1>0, <1>4
<1>6. ASSUME NEW k \in 0 .. Len(line) - 1 PROVE f[k + 1] = Do(f[k], k + 1)
  <2>1. k + 1 \in 0 .. Len(line) /\ k + 1 # 0 /\ (k + 1) - 1 = k
    BY <1>0
  <2> QED BY <1>4, <2>1
<1>7. f \in [0 .. Len(line) -> Seen]
  <2> DEFINE S == {k \in Nat : k <= Len(line) => f[k] \in Seen}
  <2>1. 0 \in S
    BY <1>5, BegunIsSeen
  <2>2. ASSUME NEW k \in Nat, k \in S PROVE k + 1 \in S
    <3> SUFFICES ASSUME k + 1 <= Len(line) PROVE f[k + 1] \in Seen
      OBVIOUS
    <3>1. k \in 0 .. Len(line) - 1 /\ f[k] \in Seen /\ line[k + 1] \in STRING
      BY <1>0, <2>2
    <3>2. f[k + 1] = PythonToken(f[k], line[k + 1])
      BY <1>6, <3>1 DEF Do
    <3> QED BY <3>1, <3>2, PythonStep
  <2> HIDE DEF S
  <2>3. \A k \in Nat : k \in S
    BY <2>1, <2>2, Induction
  <2>4. \A k \in 0 .. Len(line) : f[k] \in Seen
    BY <2>3 DEF S
  <2>5. f = [i \in 0 .. Len(line) |-> f[i]]
    BY <1>4
  <2> QED BY <2>4, <2>5
<1> QED BY <1>3, <1>5, <1>6, <1>7 DEF Do

-----------------------------------------------------------------------------
(* Python: what the reader has seen of a line L after i tokens, when the   *)
(* string d is open before it.                                             *)

\* None of ts is in the tokens a + 1 .. i; and the tokens of these that no comment sign is before.
Free(L, ts, a, i) == \A j \in a + 1 .. i : L[j] \notin ts
Said(L, a, i) == {L[j] : j \in {k \in a + 1 .. i : Free(L, {"#"}, a, k)}}

\* No string is opened in the tokens a + 1 .. i, before which "before" was said.
Stretch(L, a, i, s, before) ==
    /\ Free(L, Triples, a, i)
    /\ s.mode = IF Free(L, {"#"}, a, i) THEN "code" ELSE "note"
    /\ s.code = before \cup Said(L, a, i)

\* String d is still open; it has ended with token a; token q then opens another one, which is
\* still open, or ended with token c.
Within(L, d, i, s) ==
    d # "none" /\ Free(L, {d}, 0, i) /\ s.mode = d /\ s.opened = 0 /\ s.code = {}
Resumes(L, d, a) ==
    IF d = "none" THEN a = 0 ELSE a \in 1 .. Len(L) /\ L[a] = d /\ Free(L, {d}, 0, a - 1)
Unopened(L, a, i, s) == s.opened = 0 /\ Stretch(L, a, i, s, {})
Opens(L, a, q) == L[q] \in Triples /\ Free(L, Triples, a, q - 1) /\ Free(L, {"#"}, a, q - 1)
InString(L, a, q, i, s) ==
    /\ Opens(L, a, q) /\ Free(L, {L[q]}, q, i)
    /\ s.opened = 1 /\ s.mode = L[q] /\ s.code = Said(L, a, q - 1)
Closes(L, q, c) == L[c] = L[q] /\ Free(L, {L[q]}, q, c - 1)
PastString(L, a, q, c, i, s) ==
    /\ Opens(L, a, q) /\ Closes(L, q, c)
    /\ s.opened = 1 /\ Stretch(L, c, i, s, Said(L, a, q - 1))

Row(L, d, i, s) ==
    \/ Within(L, d, i, s)
    \/ \E a \in 0 .. i : Resumes(L, d, a) /\ Unopened(L, a, i, s)
    \/ \E a \in 0 .. i : \E q \in a + 1 .. i : Resumes(L, d, a) /\ InString(L, a, q, i, s)
    \/ \E a \in 0 .. i : \E q \in a + 1 .. i : \E c \in q + 1 .. i :
         Resumes(L, d, a) /\ PastString(L, a, q, c, i, s)

LEMMA FreeStart ==
  ASSUME NEW L, NEW ts, NEW a \in Nat
  PROVE  Free(L, ts, a, a) /\ Said(L, a, a) = {}
<1>1. a + 1 .. a = {}
  OBVIOUS
<1> QED BY <1>1 DEF Free, Said

LEMMA FreeNext ==
  ASSUME NEW L, NEW ts, NEW a \in Nat, NEW i \in Nat, a <= i
  PROVE  Free(L, ts, a, i + 1) <=> Free(L, ts, a, i) /\ L[i + 1] \notin ts
<1>1. a + 1 .. i + 1 = (a + 1 .. i) \cup {i + 1}
  OBVIOUS
<1> QED BY <1>1 DEF Free

LEMMA SaidNext ==
  ASSUME NEW L, NEW a \in Nat, NEW i \in Nat, a <= i
  PROVE  Said(L, a, i + 1) = Said(L, a, i) \cup IF Free(L, {"#"}, a, i + 1) THEN {L[i + 1]} ELSE {}
<1>1. a + 1 .. i + 1 = (a + 1 .. i) \cup {i + 1}
  OBVIOUS
<1> DEFINE K(n) == {k \in a + 1 .. n : Free(L, {"#"}, a, k)}
<1>2. K(i + 1) = K(i) \cup IF Free(L, {"#"}, a, i + 1) THEN {i + 1} ELSE {}
  BY <1>1
<1>3. \A n : Said(L, a, n) = {L[j] : j \in K(n)}
  BY DEF Said
<1> HIDE DEF K
<1>4. Said(L, a, i + 1) = {L[j] : j \in K(i + 1)}
  BY <1>3
<1>5. Said(L, a, i) = {L[j] : j \in K(i)}
  BY <1>3
<1> QED BY <1>2, <1>4, <1>5

LEMMA StretchStep ==
  ASSUME NEW L, NEW a \in Nat, NEW i \in Nat, a <= i, NEW s \in Seen, NEW before,
         Stretch(L, a, i, s, before), L[i + 1] \in STRING,
         NEW r, r = PythonToken(s, L[i + 1]), r.tame
  PROVE  /\ s.tame
         /\ \/ r.opened = s.opened /\ Stretch(L, a, i + 1, r, before)
            \/ /\ Free(L, {"#"}, a, i) /\ Free(L, Triples, a, i) /\ L[i + 1] \in Triples
               /\ s.opened = 0 /\ r.opened = 1 /\ r.mode = L[i + 1] /\ r.code = s.code
<1> DEFINE t == L[i + 1]
<1>0. /\ \A ts : Free(L, ts, a, i + 1) <=> Free(L, ts, a, i) /\ t \notin ts
      /\ Said(L, a, i + 1) = Said(L, a, i) \cup IF Free(L, {"#"}, a, i + 1) THEN {t} ELSE {}
  BY FreeNext, SaidNext
<1>1. /\ Free(L, Triples, a, i)
      /\ s.mode = IF Free(L, {"#"}, a, i) THEN "code" ELSE "note"
      /\ s.code = before \cup Said(L, a, i)
  BY DEF Stretch
<1>2. t \in STRING /\ r = PythonToken(s, t)
  OBVIOUS
<1> HIDE DEF t
<1>3. CASE ~Free(L, {"#"}, a, i)
  <2>1. s.mode = "note"
    BY <1>1, <1>3
  <2>2. r.opened = s.opened /\ r.code = s.code /\ r.mode = "note" /\ s.tame /\ t \notin Triples
    BY <1>2, <2>1, PythonStep
  <2>3. ~Free(L, {"#"}, a, i + 1) /\ Free(L, Triples, a, i + 1)
    BY <1>0, <1>1, <1>3, <2>2
  <2>4. Stretch(L, a, i + 1, r, before)
    BY <1>0, <1>1, <2>2, <2>3 DEF Stretch
  <2> QED BY <2>2, <2>4
<1>4. CASE Free(L, {"#"}, a, i)
  <2>1. s.mode = "code"
    BY <1>1, <1>4
  <2>2. CASE t = "#"
    <3>1. r.opened = s.opened /\ r.code = s.code /\ r.mode = "note" /\ s.tame
      BY <1>2, <2>1, <2>2, PythonStep
    <3>2. ~Free(L, {"#"}, a, i + 1) /\ Free(L, Triples, a, i + 1)
      BY <1>0, <1>1, <2>2, TriplesApart
    <3>3. Stretch(L, a, i + 1, r, before)
      BY <1>0, <1>1, <3>1, <3>2 DEF Stretch
    <3> QED BY <3>1, <3>3
  <2>3. CASE t \in Triples
    <3>1. /\ r.opened = s.opened + 1 /\ r.code = s.code /\ r.mode = t
          /\ s.tame /\ s.opened = 0
      BY <1>2, <2>1, <2>3, PythonStep
    <3> QED BY <1>1, <1>4, <2>3, <3>1 DEF t
  <2>4. CASE t # "#" /\ t \notin Triples
    <3>1. r.opened = s.opened /\ r.code = s.code \cup {t} /\ r.mode = "code" /\ s.tame
      BY <1>2, <2>1, <2>4, PythonStep
    <3>2. Free(L, {"#"}, a, i + 1) /\ Free(L, Triples, a, i + 1)
      BY <1>0, <1>1, <1>4, <2>4
    <3>3. Stretch(L, a, i + 1, r, before)
      BY <1>0, <1>1, <3>1, <3>2 DEF Stretch
    <3> QED BY <3>1, <3>3
  <2> QED BY <2>2, <2>3, <2>4
<1> QED BY <1>3, <1>4

LEMMA StringStep ==
  ASSUME NEW s \in Seen, s.mode \in Triples, NEW t \in STRING, NEW r, r = PythonToken(s, t)
  PROVE  /\ r.opened = s.opened /\ r.code = s.code /\ (r.tame <=> s.tame)
         /\ r.mode = IF t = s.mode THEN "code" ELSE s.mode
BY PythonStep

\* A new stretch begins behind the token that ends a string.
LEMMA StretchBegins ==
  ASSUME NEW L, NEW i \in Nat, NEW s, NEW before, s.mode = "code", s.code = before
  PROVE  Stretch(L, i, i, s, before)
BY FreeStart DEF Stretch

LEMMA RowStep ==
  ASSUME NEW L, NEW d \in {"none"} \cup Triples, NEW i \in Nat, Len(L) \in Nat, i < Len(L),
         L[i + 1] \in STRING, NEW s \in Seen, Row(L, d, i, s),
         NEW r, r = PythonToken(s, L[i + 1]), r.tame
  PROVE  Row(L, d, i + 1, r) /\ s.tame
<1> DEFINE t == L[i + 1]
<1>0. /\ t \in STRING /\ r = PythonToken(s, t) /\ t = L[i + 1] /\ i + 1 \in Nat
      /\ \A ts : Free(L, ts, 0, i + 1) <=> Free(L, ts, 0, i) /\ t \notin ts
      /\ Len(L) \in Nat /\ i + 1 \in 1 .. Len(L) /\ 0 .. i \subseteq 0 .. i + 1
  BY FreeNext
<1> HIDE DEF t
<1>1. CASE Within(L, d, i, s)
  <2>1. d \in Triples /\ Free(L, {d}, 0, i) /\ s.mode = d /\ s.opened = 0 /\ s.code = {}
    BY <1>1 DEF Within
  <2>9. /\ r.opened = s.opened /\ r.code = s.code /\ (r.tame <=> s.tame)
         /\ r.mode = IF t = s.mode THEN "code" ELSE s.mode
    BY <1>0, <2>1, StringStep
  <2>2. /\ r.opened = 0 /\ r.code = {} /\ s.tame
        /\ r.mode = IF t = d THEN "code" ELSE d
    BY <2>1, <2>9
  <2>3. CASE t = d
    <3>1. Stretch(L, i + 1, i + 1, r, {})
      BY <1>0, <2>2, <2>3, StretchBegins
    <3>2. Resumes(L, d, i + 1) /\ Unopened(L, i + 1, i + 1, r)
      BY <1>0, <2>1, <2>2, <2>3, <3>1, TriplesApart DEF Resumes, Unopened
    <3>3. i + 1 \in 0 .. i + 1
      OBVIOUS
    <3> QED BY <2>2, <3>2, <3>3 DEF Row
  <2>4. CASE t # d
    <3>1. Within(L, d, i + 1, r)
      BY <1>0, <2>1, <2>2, <2>4, TriplesApart DEF Within
    <3> QED BY <2>2, <3>1 DEF Row
  <2> QED BY <2>3, <2>4
<1>2. CASE \E a \in 0 .. i : Resumes(L, d, a) /\ Unopened(L, a, i, s)
  <2>1. PICK a \in 0 .. i : Resumes(L, d, a) /\ Unopened(L, a, i, s)
    BY <1>2
  <2>2. s.opened = 0 /\ Stretch(L, a, i, s, {})
    BY <2>1 DEF Unopened
  <2>3. /\ s.tame
        /\ \/ r.opened = s.opened /\ Stretch(L, a, i + 1, r, {})
           \/ /\ Free(L, {"#"}, a, i) /\ Free(L, Triples, a, i) /\ L[i + 1] \in Triples
              /\ s.opened = 0 /\ r.opened = 1 /\ r.mode = L[i + 1] /\ r.code = s.code
    BY <1>0, <2>2, StretchStep
  <2>4. CASE r.opened = s.opened /\ Stretch(L, a, i + 1, r, {})
    <3>1. Unopened(L, a, i + 1, r) /\ a \in 0 .. i + 1
      BY <2>2, <2>4 DEF Unopened
    <3> QED BY <2>1, <2>3, <3>1 DEF Row
  <2>5. CASE /\ Free(L, {"#"}, a, i) /\ Free(L, Triples, a, i) /\ L[i + 1] \in Triples
             /\ s.opened = 0 /\ r.opened = 1 /\ r.mode = L[i + 1] /\ r.code = s.code
    <3>1. (i + 1) - 1 = i /\ i + 1 \in a + 1 .. i + 1 /\ a \in 0 .. i + 1
      OBVIOUS
    <3>2. Free(L, {L[i + 1]}, i + 1, i + 1)
      BY FreeStart
    <3>3. s.code = Said(L, a, i)
      BY <2>2 DEF Stretch
    <3>4. InString(L, a, i + 1, i + 1, r)
      BY <2>5, <3>1, <3>2, <3>3 DEF InString, Opens
    <3> QED BY <2>1, <2>3, <3>1, <3>4 DEF Row
  <2> QED BY <2>3, <2>4, <2>5
<1>3. CASE \E a \in 0 .. i : \E q \in a + 1 .. i : Resumes(L, d, a) /\ InString(L, a, q, i, s)
  <2>0. PICK a \in 0 .. i : \E q \in a + 1 .. i : Resumes(L, d, a) /\ InString(L, a, q, i, s)
    BY <1>3
  <2>1. PICK q \in a + 1 .. i : Resumes(L, d, a) /\ InString(L, a, q, i, s)
    BY <2>0
  <2>2. /\ Opens(L, a, q) /\ Free(L, {L[q]}, q, i) /\ L[q] \in Triples
        /\ s.opened = 1 /\ s.mode = L[q] /\ s.code = Said(L, a, q - 1)
    BY <2>1 DEF InString, Opens
  <2>9. /\ r.opened = s.opened /\ r.code = s.code /\ (r.tame <=> s.tame)
         /\ r.mode = IF t = s.mode THEN "code" ELSE s.mode
    BY <1>0, <2>2, StringStep
  <2>3. /\ r.opened = 1 /\ r.code = Said(L, a, q - 1) /\ s.tame
        /\ r.mode = IF t = L[q] THEN "code" ELSE L[q]
    BY <2>2, <2>9
  <2>4. a \in 0 .. i + 1 /\ q \in a + 1 .. i + 1 /\ q \in Nat /\ q <= i
    OBVIOUS
  <2>5. CASE t = L[q]
    <3>1. Stretch(L, i + 1, i + 1, r, Said(L, a, q - 1))
      BY <1>0, <2>3, <2>5, StretchBegins
    <3>2. (i + 1) - 1 = i /\ i + 1 \in q + 1 .. i + 1
      BY <2>4
    <3>3. PastString(L, a, q, i + 1, i + 1, r)
      BY <1>0, <2>2, <2>3, <2>5, <3>1, <3>2 DEF PastString, Closes
    <3> QED BY <2>1, <2>3, <2>4, <3>2, <3>3 DEF Row
  <2>6. CASE t # L[q]
    <3>1. Free(L, {L[q]}, q, i + 1)
      BY <1>0, <2>2, <2>4, <2>6, FreeNext
    <3>2. InString(L, a, q, i + 1, r)
      BY <2>2, <2>3, <2>6, <3>1 DEF InString
    <3> QED BY <2>1, <2>3, <2>4, <3>2 DEF Row
  <2> QED BY <2>5, <2>6
<1>4. CASE \E a \in 0 .. i : \E q \in a + 1 .. i : \E c \in q + 1 .. i :
             Resumes(L, d, a) /\ PastString(L, a, q, c, i, s)
  <2>0. PICK a \in 0 .. i : \E q \in a + 1 .. i : \E c \in q + 1 .. i :
             Resumes(L, d, a) /\ PastString(L, a, q, c, i, s)
    BY <1>4
  <2>9. PICK q \in a + 1 .. i : \E c \in q + 1 .. i :
             Resumes(L, d, a) /\ PastString(L, a, q, c, i, s)
    BY <2>0
  <2>1. PICK c \in q + 1 .. i : Resumes(L, d, a) /\ PastString(L, a, q, c, i, s)
    BY <2>9
  <2>2. /\ Opens(L, a, q) /\ Closes(L, q, c)
        /\ s.opened = 1 /\ Stretch(L, c, i, s, Said(L, a, q - 1))
    BY <2>1 DEF PastString
  <2>3. a \in 0 .. i + 1 /\ q \in a + 1 .. i + 1 /\ c \in q + 1 .. i + 1 /\ c \in Nat /\ c <= i
    OBVIOUS
  <2>4. s.tame /\ r.opened = s.opened /\ Stretch(L, c, i + 1, r, Said(L, a, q - 1))
    BY <1>0, <2>2, <2>3, StretchStep
  <2>5. PastString(L, a, q, c, i + 1, r)
    BY <2>2, <2>4 DEF PastString
  <2> QED BY <2>1, <2>3, <2>4, <2>5 DEF Row
<1> HIDE DEF t
<1> QED BY <1>1, <1>2, <1>3, <1>4 DEF Row

\* A reader that comes to the end of a line undeceived has seen all of it as said.
LEMMA LineIsRow ==
  ASSUME NEW before \in Seen, NEW L \in Seq(STRING), NEW d \in {"none"} \cup Triples,
         d = "none" => before.mode \in {"code", "note"}, d # "none" => before.mode = d,
         PythonLine(before, L).tame
  PROVE  /\ PythonLine(before, L) \in Seen /\ before.tame
         /\ Row(L, d, Len(L), PythonLine(before, L))
<1>1. PICK f \in [0 .. Len(L) -> Seen] :
           /\ f[0] = LineBegun(before)
           /\ \A k \in 0 .. Len(L) - 1 : f[k + 1] = PythonToken(f[k], L[k + 1])
           /\ PythonLine(before, L) = f[Len(L)]
  BY PythonLineReads
<1>2. Len(L) \in Nat
  BY LenProperties
<1>3. Row(L, d, 0, f[0])
  <2>1. f[0].opened = 0 /\ f[0].code = {} /\ f[0].mode = IF before.mode = "note" THEN "code" ELSE before.mode
    BY <1>1, BegunIsSeen
  <2>2. Free(L, {d}, 0, 0)
    BY FreeStart
  <2>3. CASE d = "none"
    <3>1. f[0].mode = "code"
      BY <2>1, <2>3
    <3>2. Stretch(L, 0, 0, f[0], {})
      BY <2>1, <3>1, StretchBegins
    <3>3. 0 \in 0 .. 0 /\ Resumes(L, d, 0) /\ Unopened(L, 0, 0, f[0])
      BY <2>1, <2>3, <3>2 DEF Resumes, Unopened
    <3> QED BY <3>3 DEF Row
  <2>4. CASE d # "none"
    <3>1. f[0].mode = d
      BY <2>1, <2>4, TriplesApart
    <3>2. Within(L, d, 0, f[0])
      BY <2>1, <2>2, <2>4, <3>1 DEF Within
    <3> QED BY <3>2 DEF Row
  <2> QED BY <2>3, <2>4
<1> DEFINE S == {k \in Nat : (k <= Len(L) /\ f[k].tame) => before.tame /\ Row(L, d, k, f[k])}
<1>4. 0 \in S
  BY <1>1, <1>3, BegunIsSeen
<1>5. ASSUME NEW k \in Nat, k \in S PROVE k + 1 \in S
  <2> SUFFICES ASSUME k + 1 <= Len(L), f[k + 1].tame PROVE before.tame /\ Row(L, d, k + 1, f[k + 1])
    OBVIOUS
  <2>1. k \in 0 .. Len(L) - 1 /\ k < Len(L) /\ L[k + 1] \in STRING
    BY <1>2, ElementOfSeq
  <2>2. f[k] \in Seen /\ f[k + 1] = PythonToken(f[k], L[k + 1])
    BY <1>1, <1>2, <2>1
  <2>3. f[k].tame
    <3>1. f[k + 1].tame => f[k].tame
      <4> DEFINE u == f[k] v == f[k + 1] t == L[k + 1]
      <4>1. u \in Seen /\ v = PythonToken(u, t) /\ t \in STRING
        BY <2>1, <2>2
      <4>2. u.mode \in {"code", "note"} \cup Triples
        BY <4>1 DEF Seen
      <4> HIDE DEF u, v, t
      <4>3. v.tame => u.tame
        BY <4>1, <4>2, PythonStep
      <4> QED BY <4>3 DEF u, v
    <3> QED BY <3>1
  <2>4. before.tame /\ Row(L, d, k, f[k])
    BY <1>5, <2>1, <2>3
  <2> QED BY <2>1, <2>2, <2>4, RowStep
<1> HIDE DEF S
<1>6. Len(L) \in S
  BY <1>2, <1>4, <1>5, Induction
<1> QED BY <1>1, <1>2, <1>6 DEF S

-----------------------------------------------------------------------------
(* Python: what the rules make of a line that has been seen like that.     *)

LEMMA LeftIs ==
  ASSUME NEW S, NEW L \in Seq(S), NEW i \in 1 .. Len(L) + 1
  PROVE  /\ Left(L, i) \in Seq(S) /\ Len(Left(L, i)) = i - 1
         /\ \A j \in 1 .. i - 1 : Left(L, i)[j] = L[j]
<1>1. Len(L) \in Nat
  BY LenProperties
<1>2. 1 \in 1 .. Len(L) + 1 /\ i - 1 \in 1 - 1 .. Len(L)
  BY <1>1
<1>3. /\ SubSeq(L, 1, i - 1) \in Seq(S)
      /\ Len(SubSeq(L, 1, i - 1)) = IF 1 <= i - 1 THEN (i - 1) - 1 + 1 ELSE 0
      /\ \A j \in 1 .. (i - 1) - 1 + 1 : SubSeq(L, 1, i - 1)[j] = L[1 + j - 1]
  BY <1>1, <1>2, SubSeqProperties
<1>4. \A j \in 1 .. i - 1 : 1 + j - 1 = j /\ j \in 1 .. (i - 1) - 1 + 1
  BY <1>1
<1>5. (IF 1 <= i - 1 THEN (i - 1) - 1 + 1 ELSE 0) = i - 1
  BY <1>1
<1> QED BY <1>3, <1>4, <1>5 DEF Left

LEMMA RightIs ==
  ASSUME NEW S, NEW L \in Seq(S), NEW i \in 0 .. Len(L)
  PROVE  /\ Right(L, i) \in Seq(S) /\ Len(Right(L, i)) = Len(L) - i
         /\ \A j \in 1 .. Len(L) - i : Right(L, i)[j] = L[i + j]
<1>1. Len(L) \in Nat
  BY LenProperties
<1>2. i + 1 \in 1 .. Len(L) + 1 /\ Len(L) \in (i + 1) - 1 .. Len(L)
  BY <1>1
<1>3. /\ SubSeq(L, i + 1, Len(L)) \in Seq(S)
      /\ Len(SubSeq(L, i + 1, Len(L))) = IF i + 1 <= Len(L) THEN Len(L) - (i + 1) + 1 ELSE 0
      /\ \A j \in 1 .. Len(L) - (i + 1) + 1 : SubSeq(L, i + 1, Len(L))[j] = L[(i + 1) + j - 1]
  BY <1>1, <1>2, SubSeqProperties
<1>4. \A j \in 1 .. Len(L) - i : (i + 1) + j - 1 = i + j /\ j \in 1 .. Len(L) - (i + 1) + 1
  BY <1>1
<1>5. (IF i + 1 <= Len(L) THEN Len(L) - (i + 1) + 1 ELSE 0) = Len(L) - i
  BY <1>1
<1> QED BY <1>3, <1>4, <1>5 DEF Right

LEMMA FirstAt ==
  ASSUME NEW L, Len(L) \in Nat, DOMAIN L = 1 .. Len(L), NEW ts
  PROVE  /\ At(L, ts) = {} <=> Free(L, ts, 0, Len(L))
         /\ \A p \in 1 .. Len(L) : L[p] \in ts /\ Free(L, ts, 0, p - 1) =>
              At(L, ts) # {} /\ Min(At(L, ts)) = p
         /\ At(L, ts) # {} => /\ Min(At(L, ts)) \in 1 .. Len(L) /\ L[Min(At(L, ts))] \in ts
                              /\ Free(L, ts, 0, Min(At(L, ts)) - 1)
<1> DEFINE A == At(L, ts)
<1>1. A \subseteq Nat /\ \A i : i \in A <=> i \in 1 .. Len(L) /\ L[i] \in ts
  BY DEF At
<1>2. A = {} <=> Free(L, ts, 0, Len(L))
  BY <1>1 DEF Free
<1>3. A # {} => Min(A) \in A /\ \A y \in A : Min(A) <= y
  BY <1>1, MinIsLeast
<1> HIDE DEF A
<1>4. A # {} => Free(L, ts, 0, Min(A) - 1)
  <2> SUFFICES ASSUME A # {}, NEW j \in 0 + 1 .. Min(A) - 1 PROVE L[j] \notin ts
    BY DEF Free
  <2>1. j \in 1 .. Len(L) /\ j < Min(A)
    BY <1>1, <1>3
  <2>2. j \notin A
    BY <1>1, <1>3, <2>1
  <2> QED BY <1>1, <2>1, <2>2
<1>5. ASSUME NEW p \in 1 .. Len(L), L[p] \in ts, Free(L, ts, 0, p - 1)
      PROVE  A # {} /\ Min(A) = p
  <2>1. p \in A
    BY <1>1, <1>5
  <2>2. Min(A) \in A /\ Min(A) <= p /\ Min(A) \in 1 .. Len(L) /\ L[Min(A)] \in ts
    BY <1>1, <1>3, <2>1
  <2>3. ~(Min(A) < p)
    BY <1>5, <2>2 DEF Free
  <2> QED BY <2>1, <2>2, <2>3
<1>6. A # {} => Min(A) \in 1 .. Len(L) /\ L[Min(A)] \in ts
  BY <1>1, <1>3
<1> QED BY <1>2, <1>4, <1>5, <1>6 DEF A

\* R is what follows token a of L.
IsTail(R, L, a) ==
    Len(R) = Len(L) - a /\ \A j \in 1 .. Len(L) - a : R[j] = L[a + j]

LEMMA FreeTail ==
  ASSUME NEW L, Len(L) \in Nat, NEW a \in 0 .. Len(L), NEW R, IsTail(R, L, a),
         NEW ts, NEW x \in Nat, NEW y \in Nat, x <= y, y <= Len(L) - a
  PROVE  Free(R, ts, x, y) <=> Free(L, ts, a + x, a + y)
<1>1. ASSUME Free(R, ts, x, y), NEW j \in a + x + 1 .. a + y PROVE L[j] \notin ts
  <2>1. j - a \in x + 1 .. y /\ j - a \in 1 .. Len(L) - a /\ a + (j - a) = j
    OBVIOUS
  <2> QED BY <1>1, <2>1 DEF Free, IsTail
<1>2. ASSUME Free(L, ts, a + x, a + y), NEW j \in x + 1 .. y PROVE R[j] \notin ts
  <2>1. a + j \in a + x + 1 .. a + y /\ j \in 1 .. Len(L) - a
    OBVIOUS
  <2> QED BY <1>2, <2>1 DEF Free, IsTail
<1> QED BY <1>1, <1>2 DEF Free

LEMMA SaidTail ==
  ASSUME NEW L, Len(L) \in Nat, NEW a \in 0 .. Len(L), NEW R, IsTail(R, L, a),
         NEW x \in Nat, NEW y \in Nat, x <= y, y <= Len(L) - a
  PROVE  Said(R, x, y) = Said(L, a + x, a + y)
<1>1. ASSUME NEW k \in x + 1 .. y, Free(R, {"#"}, x, k) PROVE R[k] \in Said(L, a + x, a + y)
  <2>1. a + k \in a + x + 1 .. a + y /\ k \in 1 .. Len(L) - a /\ k \in Nat /\ x <= k /\ k <= Len(L) - a
    OBVIOUS
  <2>2. R[k] = L[a + k]
    BY <2>1 DEF IsTail
  <2>3. Free(L, {"#"}, a + x, a + k)
    BY <1>1, <2>1, FreeTail
  <2> QED BY <2>1, <2>2, <2>3 DEF Said
<1>2. ASSUME NEW j \in a + x + 1 .. a + y, Free(L, {"#"}, a + x, j) PROVE L[j] \in Said(R, x, y)
  <2>1. /\ j - a \in x + 1 .. y /\ j - a \in 1 .. Len(L) - a /\ a + (j - a) = j
        /\ j - a \in Nat /\ x <= j - a /\ j - a <= Len(L) - a
    OBVIOUS
  <2>2. R[j - a] = L[j]
    BY <2>1 DEF IsTail
  <2>3. Free(R, {"#"}, x, j - a)
    BY <1>2, <2>1, FreeTail
  <2> QED BY <2>1, <2>2, <2>3 DEF Said
<1> QED BY <1>1, <1>2 DEF Said

LEMMA FreeJoined ==
  ASSUME NEW X \in Seq(STRING), NEW Y \in Seq(STRING), NEW ts
  PROVE  Free(X \o Y, ts, 0, Len(X \o Y)) <=> Free(X, ts, 0, Len(X)) /\ Free(Y, ts, 0, Len(Y))
<1>1. /\ Len(X) \in Nat /\ Len(Y) \in Nat /\ Len(X \o Y) = Len(X) + Len(Y)
      /\ \A i \in 1 .. Len(X) + Len(Y) : (X \o Y)[i] = IF i <= Len(X) THEN X[i] ELSE Y[i - Len(X)]
  BY ConcatProperties, LenProperties
<1> DEFINE Z == X \o Y n == Len(X) m == Len(Y)
<1> HIDE DEF Z, n, m
<1>2. /\ Len(Z) = n + m /\ n \in Nat /\ m \in Nat /\ Len(X) = n /\ Len(Y) = m
      /\ \A i \in 1 .. n + m : Z[i] = IF i <= n THEN X[i] ELSE Y[i - n]
  BY <1>1 DEF Z, n, m
<1>3. \A i \in 1 .. n : i \in 1 .. n + m /\ Z[i] = X[i]
  BY <1>2
<1>4. \A i \in 1 .. m : n + i \in 1 .. n + m /\ Z[n + i] = Y[i]
  BY <1>2
<1>5. \A i \in 1 .. n + m : i \in 1 .. n \/ i - n \in 1 .. m
  BY <1>2
<1>6. \A i \in 1 .. n + m : i = n + (i - n)
  BY <1>2
<1>7. Free(Z, ts, 0, Len(Z)) <=> \A i \in 1 .. n + m : Z[i] \notin ts
  BY <1>2 DEF Free
<1>8. Free(X, ts, 0, n) <=> \A i \in 1 .. n : X[i] \notin ts
  BY DEF Free
<1>9. Free(Y, ts, 0, m) <=> \A i \in 1 .. m : Y[i] \notin ts
  BY DEF Free
<1>10. Free(Z, ts, 0, Len(Z)) => Free(X, ts, 0, n) /\ Free(Y, ts, 0, m)
  <2>1. ASSUME Free(Z, ts, 0, Len(Z)) PROVE Free(X, ts, 0, n)
    BY <1>3, <1>7, <1>8, <2>1
  <2>2. ASSUME Free(Z, ts, 0, Len(Z)), NEW i \in 1 .. m PROVE Y[i] \notin ts
    <3>1. Z[n + i] \notin ts
      BY <1>4, <1>7, <2>2
    <3> QED BY <1>4, <3>1
  <2> QED BY <1>9, <2>1, <2>2
<1>11. ASSUME Free(X, ts, 0, n), Free(Y, ts, 0, m), NEW i \in 1 .. n + m
       PROVE  Z[i] \notin ts
  BY <1>3, <1>4, <1>5, <1>6, <1>8, <1>9, <1>11
<1> QED BY <1>2, <1>7, <1>10, <1>11 DEF Z

LEMMA SaidJoined ==
  ASSUME NEW X \in Seq(STRING), NEW Y \in Seq(STRING), Free(X, {"#"}, 0, Len(X))
  PROVE  Said(X \o Y, 0, Len(X \o Y)) = Said(X, 0, Len(X)) \cup Said(Y, 0, Len(Y))
<1>1. /\ Len(X) \in Nat /\ Len(Y) \in Nat /\ Len(X \o Y) = Len(X) + Len(Y)
      /\ \A i \in 1 .. Len(X) + Len(Y) : (X \o Y)[i] = IF i <= Len(X) THEN X[i] ELSE Y[i - Len(X)]
  BY ConcatProperties, LenProperties
<1> DEFINE Z == X \o Y n == Len(X) m == Len(Y)
<1> HIDE DEF Z, n, m
<1>2. /\ Len(Z) = n + m /\ n \in Nat /\ m \in Nat /\ Len(X) = n /\ Len(Y) = m
      /\ \A i \in 1 .. n + m : Z[i] = IF i <= n THEN X[i] ELSE Y[i - n]
  BY <1>1 DEF Z, n, m
<1>3. \A i \in 1 .. n : i \in 1 .. n + m /\ Z[i] = X[i]
  BY <1>2
<1>4. \A i \in 1 .. m : n + i \in 1 .. n + m /\ Z[n + i] = Y[i]
  BY <1>2
<1>5. IsTail(Y, Z, n) /\ n \in 0 .. Len(Z) /\ Len(Z) - n = m
  BY <1>2, <1>4 DEF IsTail
<1>6. Said(Y, 0, m) = Said(Z, n, n + m)
  <2>0. Len(Z) \in Nat /\ 0 \in Nat /\ 0 <= m /\ m <= Len(Z) - n
    BY <1>2
  <2>1. Said(Y, 0, m) = Said(Z, n + 0, n + m)
    BY <1>2, <1>5, <2>0, SaidTail
  <2> QED BY <1>2, <2>1
<1>7. \A k \in 1 .. n : Free(Z, {"#"}, 0, k) /\ Free(X, {"#"}, 0, k)
  BY <1>2, <1>3 DEF Free
<1>8. \A k \in n + 1 .. n + m : Free(Z, {"#"}, 0, k) <=> Free(Z, {"#"}, n, k)
  <2> SUFFICES ASSUME NEW k \in n + 1 .. n + m PROVE Free(Z, {"#"}, 0, k) <=> Free(Z, {"#"}, n, k)
    OBVIOUS
  <2>1. \A j \in 1 .. n : Z[j] \notin {"#"}
    BY <1>2, <1>3 DEF Free
  <2>2. \A j \in 1 .. k : j \in 1 .. n \/ j \in n + 1 .. k
    BY <1>2
  <2>3. \A j \in n + 1 .. k : j \in 1 .. k
    BY <1>2
  <2>4. Free(Z, {"#"}, 0, k) <=> \A j \in 1 .. k : Z[j] \notin {"#"}
    BY DEF Free
  <2>5. Free(Z, {"#"}, n, k) <=> \A j \in n + 1 .. k : Z[j] \notin {"#"}
    BY DEF Free
  <2> QED BY <2>1, <2>2, <2>3, <2>4, <2>5
<1>9. Said(X, 0, n) = {X[k] : k \in 1 .. n}
  BY <1>7 DEF Said
<1>10. Said(Z, 0, n + m) \subseteq Said(X, 0, n) \cup Said(Z, n, n + m)
  <2> SUFFICES ASSUME NEW k \in 1 .. n + m, Free(Z, {"#"}, 0, k)
               PROVE  Z[k] \in Said(X, 0, n) \cup Said(Z, n, n + m)
    BY DEF Said
  <2>1. CASE k \in 1 .. n
    BY <1>3, <1>9, <2>1
  <2>2. CASE k \in n + 1 .. n + m
    BY <1>8, <2>2 DEF Said
  <2> QED BY <1>2, <2>1, <2>2
<1>11. Said(X, 0, n) \subseteq Said(Z, 0, n + m)
  <2> SUFFICES ASSUME NEW k \in 1 .. n PROVE X[k] \in Said(Z, 0, n + m)
    BY <1>9
  <2>1. k \in 0 + 1 .. n + m /\ Free(Z, {"#"}, 0, k) /\ Z[k] = X[k]
    BY <1>3, <1>7
  <2> QED BY <2>1 DEF Said
<1>12. Said(Z, n, n + m) \subseteq Said(Z, 0, n + m)
  <2> SUFFICES ASSUME NEW k \in n + 1 .. n + m, Free(Z, {"#"}, n, k) PROVE Z[k] \in Said(Z, 0, n + m)
    BY DEF Said
  <2>1. k \in 0 + 1 .. n + m /\ Free(Z, {"#"}, 0, k)
    BY <1>2, <1>8
  <2> QED BY <2>1 DEF Said
<1> QED BY <1>2, <1>6, <1>10, <1>11, <1>12 DEF Z

\* The needles of a line in which no string is left: what stands before the comment sign.
LEMMA MarksAreSaid ==
  ASSUME NEW R \in Seq(STRING), Free(R, Triples, 0, Len(R))
  PROVE  ToMarks(CutAt(R, {"#"})) = Said(R, 0, Len(R))
<1>0. Len(R) \in Nat /\ DOMAIN R = 1 .. Len(R)
  BY LenProperties
<1>1. ASSUME NEW C \in Seq(STRING), NEW n \in 0 .. Len(R), Len(C) = n, \A j \in 1 .. n : C[j] = R[j]
      PROVE  ToMarks(C) = {R[j] : j \in 1 .. n}
  <2>1. DOMAIN C = 1 .. n
    BY <1>1, LenProperties
  <2>2. CASE n = 0
    <3>1. C = <<>>
      BY <1>1, <2>2, EmptySeq
    <3>2. 1 .. n = {}
      BY <2>2
    <3> QED BY <3>1, <3>2 DEF ToMarks
  <2>3. CASE n # 0
    <3>1. 1 \in 1 .. n /\ 1 \in 0 + 1 .. Len(R) /\ C[1] = R[1]
      BY <1>0, <1>1, <2>3
    <3>2. C # <<>>
      BY <1>1, <2>3, EmptySeq
    <3>3. C[1] \notin Triples
      BY <3>1 DEF Free
    <3>4. ToMarks(C) = {C[j] : j \in 1 .. n}
      BY <2>1, <3>2, <3>3 DEF ToMarks
    <3> QED BY <1>1, <3>4
  <2> QED BY <2>2, <2>3
<1>2. CASE At(R, {"#"}) = {}
  <2>1. Free(R, {"#"}, 0, Len(R))
    BY <1>0, <1>2, FirstAt
  <2>2. \A k \in 1 .. Len(R) : Free(R, {"#"}, 0, k)
    BY <1>0, <2>1 DEF Free
  <2>3. Said(R, 0, Len(R)) = {R[j] : j \in 1 .. Len(R)}
    BY <2>2 DEF Said
  <2>4. CutAt(R, {"#"}) = R
    BY <1>2 DEF CutAt
  <2>5. ToMarks(R) = {R[j] : j \in 1 .. Len(R)}
    BY <1>0, <1>1
  <2> QED BY <2>3, <2>4, <2>5
<1>3. CASE At(R, {"#"}) # {}
  <2> DEFINE p == Min(At(R, {"#"}))
  <2>1. p \in 1 .. Len(R) /\ R[p] = "#" /\ Free(R, {"#"}, 0, p - 1)
    BY <1>0, <1>3, FirstAt
  <2>2. CutAt(R, {"#"}) = Left(R, p)
    BY <1>3 DEF CutAt
  <2> HIDE DEF p
  <2>3. p \in 1 .. Len(R) + 1 /\ p - 1 \in 0 .. Len(R)
    BY <1>0, <2>1
  <2>4. /\ Left(R, p) \in Seq(STRING) /\ Len(Left(R, p)) = p - 1
        /\ \A j \in 1 .. p - 1 : Left(R, p)[j] = R[j]
    BY <2>3, LeftIs
  <2>5. ToMarks(Left(R, p)) = {R[j] : j \in 1 .. p - 1}
    BY <1>1, <2>3, <2>4
  <2>6. \A k \in 1 .. Len(R) : Free(R, {"#"}, 0, k) <=> k \in 1 .. p - 1
    BY <1>0, <2>1 DEF Free
  <2>7. {k \in 1 .. Len(R) : Free(R, {"#"}, 0, k)} = 1 .. p - 1
    BY <1>0, <2>3, <2>6
  <2>8. Said(R, 0, Len(R)) = {R[j] : j \in {k \in 1 .. Len(R) : Free(R, {"#"}, 0, k)}}
    BY DEF Said
  <2> QED BY <2>2, <2>5, <2>7, <2>8
<1> QED BY <1>2, <1>3

\* What the rules have at the end of a line: the string that is open, and the code.
DocAfter(L, d) ==
    IF L = <<>> THEN d ELSE IF Unclosed(L, d) THEN d ELSE Opened(Resumed(L, d)).doc
CodeOf(L, d) == IF Unclosed(L, d) THEN <<>> ELSE CutAt(Opened(Resumed(L, d)).code, {"#"})

LEMMA SaidOfSame ==
  ASSUME NEW C, NEW R, NEW n \in Nat, \A j \in 1 .. n : C[j] = R[j]
  PROVE  /\ \A ts : Free(C, ts, 0, n) <=> Free(R, ts, 0, n)
         /\ Said(C, 0, n) = Said(R, 0, n)
<1>1. \A ts, k : k \in 0 .. n => (Free(C, ts, 0, k) <=> Free(R, ts, 0, k))
  BY DEF Free
<1>2. \A k \in 1 .. n : k \in 0 .. n
  OBVIOUS
<1>3. {k \in 1 .. n : Free(C, {"#"}, 0, k)} = {k \in 1 .. n : Free(R, {"#"}, 0, k)}
  BY <1>1, <1>2
<1>4. n \in 0 .. n
  OBVIOUS
<1>5. Said(C, 0, n) = {C[j] : j \in {k \in 1 .. n : Free(C, {"#"}, 0, k)}}
  BY DEF Said
<1>6. Said(R, 0, n) = {R[j] : j \in {k \in 1 .. n : Free(R, {"#"}, 0, k)}}
  BY DEF Said
<1> QED BY <1>1, <1>3, <1>4, <1>5, <1>6

LEMMA ResumedIs ==
  ASSUME NEW L \in Seq(STRING), NEW d, NEW a \in 0 .. Len(L), Resumes(L, d, a)
  PROVE  /\ ~Unclosed(L, d) /\ Resumed(L, d) \in Seq(STRING) /\ IsTail(Resumed(L, d), L, a)
         /\ L = <<>> => d = "none"
<1>1. Len(L) \in Nat /\ DOMAIN L = 1 .. Len(L)
  BY LenProperties
<1>2. CASE d = "none"
  <2>1. a = 0
    BY <1>2 DEF Resumes
  <2>2. Resumed(L, d) = L
    BY <1>2 DEF Resumed
  <2>3. IsTail(L, L, a)
    BY <1>1, <2>1 DEF IsTail
  <2> QED BY <1>2, <2>2, <2>3 DEF Unclosed
<1>3. CASE d # "none"
  <2>1. a \in 1 .. Len(L) /\ L[a] = d /\ Free(L, {d}, 0, a - 1)
    BY <1>3 DEF Resumes
  <2>2. At(L, {d}) # {} /\ Min(At(L, {d})) = a
    BY <1>1, <2>1, FirstAt
  <2>3. Resumed(L, d) = Right(L, a)
    BY <1>3, <2>2 DEF Resumed
  <2>4. IsTail(Right(L, a), L, a) /\ Right(L, a) \in Seq(STRING)
    BY RightIs DEF IsTail
  <2>5. L # <<>>
    BY <1>1, <2>1, EmptySeq
  <2> QED BY <1>3, <2>2, <2>3, <2>4, <2>5 DEF Unclosed
<1> QED BY <1>2, <1>3

LEMMA TailOfTail ==
  ASSUME NEW L, Len(L) \in Nat, NEW a \in 0 .. Len(L), NEW R \in Seq(STRING), IsTail(R, L, a),
         NEW q \in a .. Len(L)
  PROVE  /\ q - a \in 0 .. Len(R)
         /\ Right(R, q - a) \in Seq(STRING) /\ IsTail(Right(R, q - a), L, q)
<1>1. Len(R) = Len(L) - a /\ \A j \in 1 .. Len(L) - a : R[j] = L[a + j]
  BY DEF IsTail
<1>2. q - a \in 0 .. Len(R)
  BY <1>1
<1>3. /\ Right(R, q - a) \in Seq(STRING) /\ Len(Right(R, q - a)) = Len(R) - (q - a)
      /\ \A j \in 1 .. Len(R) - (q - a) : Right(R, q - a)[j] = R[(q - a) + j]
  BY <1>2, RightIs
<1>4. Len(R) - (q - a) = Len(L) - q
  BY <1>1
<1>5. \A j \in 1 .. Len(L) - q : (q - a) + j \in 1 .. Len(L) - a /\ a + ((q - a) + j) = q + j
  OBVIOUS
<1> QED BY <1>1, <1>2, <1>3, <1>4, <1>5 DEF IsTail

LEMMA EndUnopened ==
  ASSUME NEW L, Len(L) \in Nat, NEW a \in 0 .. Len(L), NEW R \in Seq(STRING), IsTail(R, L, a),
         Free(L, Triples, a, Len(L))
  PROVE  /\ Opened(R) = [code |-> R, doc |-> "none"]
         /\ ToMarks(CutAt(R, {"#"})) = Said(L, a, Len(L))
<1>1. /\ Len(R) = Len(L) - a /\ Len(R) \in Nat /\ DOMAIN R = 1 .. Len(R)
      /\ 0 \in Nat /\ 0 <= Len(R) /\ Len(R) <= Len(L) - a /\ a + 0 = a /\ a + Len(R) = Len(L)
  BY LenProperties DEF IsTail
<1>2. Free(R, Triples, 0, Len(R)) <=> Free(L, Triples, a + 0, a + Len(R))
  BY <1>1, FreeTail
<1>3. Said(R, 0, Len(R)) = Said(L, a + 0, a + Len(R))
  BY <1>1, SaidTail
<1>4. Free(R, Triples, 0, Len(R))
  BY <1>1, <1>2
<1>5. At(R, Triples) = {}
  BY <1>1, <1>4, FirstAt
<1>6. ToMarks(CutAt(R, {"#"})) = Said(R, 0, Len(R))
  BY <1>4, MarksAreSaid
<1> QED BY <1>1, <1>3, <1>5, <1>6 DEF Opened

\* A string is opened at token q: the code before it.
LEMMA StartOfString ==
  ASSUME NEW L, Len(L) \in Nat, NEW a \in 0 .. Len(L), NEW R \in Seq(STRING), IsTail(R, L, a),
         NEW q \in a + 1 .. Len(L), Opens(L, a, q)
  PROVE  /\ At(R, Triples) # {} /\ Min(At(R, Triples)) = q - a /\ R[q - a] = L[q]
         /\ Left(R, q - a) \in Seq(STRING) /\ Len(Left(R, q - a)) = (q - a) - 1
         /\ Free(Left(R, q - a), Triples, 0, (q - a) - 1)
         /\ Free(Left(R, q - a), {"#"}, 0, (q - a) - 1)
         /\ Said(Left(R, q - a), 0, (q - a) - 1) = Said(L, a, q - 1)
<1> DEFINE p == q - a
<1>1. /\ Len(R) = Len(L) - a /\ Len(R) \in Nat /\ DOMAIN R = 1 .. Len(R)
      /\ \A j \in 1 .. Len(L) - a : R[j] = L[a + j]
  BY LenProperties DEF IsTail
<1>2. /\ p \in 1 .. Len(R) /\ p \in 1 .. Len(R) + 1 /\ p - 1 \in Nat /\ a + (p - 1) = q - 1 /\ a + 0 = a
      /\ 0 \in Nat /\ 0 <= p - 1 /\ p - 1 <= Len(L) - a /\ a + p = q
  BY <1>1
<1>3. L[q] \in Triples /\ Free(L, Triples, a, q - 1) /\ Free(L, {"#"}, a, q - 1)
  BY DEF Opens
<1> HIDE DEF p
<1>4. R[p] = L[q]
  BY <1>1, <1>2
<1>5. \A ts : Free(R, ts, 0, p - 1) <=> Free(L, ts, a + 0, a + (p - 1))
  BY <1>2, FreeTail
<1>6. Said(R, 0, p - 1) = Said(L, a + 0, a + (p - 1))
  BY <1>2, SaidTail
<1>7. At(R, Triples) # {} /\ Min(At(R, Triples)) = p
  <2>1. Free(R, Triples, 0, p - 1)
    BY <1>2, <1>3, <1>5
  <2>2. R[p] \in Triples
    BY <1>3, <1>4
  <2> QED BY <1>1, <1>2, <2>1, <2>2, FirstAt
<1>8. /\ Left(R, p) \in Seq(STRING) /\ Len(Left(R, p)) = p - 1
      /\ \A j \in 1 .. p - 1 : Left(R, p)[j] = R[j]
  BY <1>2, LeftIs
<1>9. /\ \A ts : Free(Left(R, p), ts, 0, p - 1) <=> Free(R, ts, 0, p - 1)
      /\ Said(Left(R, p), 0, p - 1) = Said(R, 0, p - 1)
  BY <1>2, <1>8, SaidOfSame
<1> QED BY <1>2, <1>3, <1>4, <1>5, <1>6, <1>7, <1>8, <1>9 DEF p

LEMMA EndInString ==
  ASSUME NEW L, Len(L) \in Nat, NEW a \in 0 .. Len(L), NEW R \in Seq(STRING), IsTail(R, L, a),
         NEW q \in a + 1 .. Len(L), Opens(L, a, q), Free(L, {L[q]}, q, Len(L))
  PROVE  /\ Opened(R).doc = L[q]
         /\ ToMarks(CutAt(Opened(R).code, {"#"})) = Said(L, a, q - 1)
<1> DEFINE p == q - a X == Left(R, p) Y == Right(R, p)
<1>1. /\ At(R, Triples) # {} /\ Min(At(R, Triples)) = p /\ R[p] = L[q]
      /\ X \in Seq(STRING) /\ Len(X) = p - 1
      /\ Free(X, Triples, 0, p - 1) /\ Said(X, 0, p - 1) = Said(L, a, q - 1)
  BY StartOfString
<1>2. Y \in Seq(STRING) /\ IsTail(Y, L, q)
  BY TailOfTail
<1> HIDE DEF p
<1>3. /\ Len(Y) = Len(L) - q /\ Len(Y) \in Nat /\ DOMAIN Y = 1 .. Len(Y) /\ q \in 0 .. Len(L)
      /\ 0 \in Nat /\ 0 <= Len(Y) /\ Len(Y) <= Len(L) - q /\ q + 0 = q /\ q + Len(Y) = Len(L)
  BY <1>2, LenProperties DEF IsTail
<1> HIDE DEF X, Y
<1>4. Free(Y, {L[q]}, 0, Len(Y)) <=> Free(L, {L[q]}, q + 0, q + Len(Y))
  BY <1>2, <1>3, FreeTail
<1>5. At(Y, {R[p]}) = {}
  <2>1. Free(Y, {R[p]}, 0, Len(Y))
    BY <1>1, <1>3, <1>4
  <2> QED BY <1>3, <2>1, FirstAt
<1>6. Opened(R) = [code |-> X, doc |-> R[p]]
  BY <1>1, <1>5 DEF Opened, X, Y
<1>7. ToMarks(CutAt(X, {"#"})) = Said(X, 0, Len(X))
  BY <1>1, MarksAreSaid
<1> QED BY <1>1, <1>6, <1>7

LEMMA EndPastString ==
  ASSUME NEW L, Len(L) \in Nat, NEW a \in 0 .. Len(L), NEW R \in Seq(STRING), IsTail(R, L, a),
         NEW q \in a + 1 .. Len(L), NEW c \in q + 1 .. Len(L), Opens(L, a, q), Closes(L, q, c),
         Free(L, Triples, c, Len(L))
  PROVE  /\ Opened(R).doc = "none"
         /\ ToMarks(CutAt(Opened(R).code, {"#"})) = Said(L, a, q - 1) \cup Said(L, c, Len(L))
<1> DEFINE p == q - a X == Left(R, p) Y == Right(R, p) e == c - q W == Right(Y, e)
<1>1. /\ At(R, Triples) # {} /\ Min(At(R, Triples)) = p /\ R[p] = L[q]
      /\ X \in Seq(STRING) /\ Len(X) = p - 1
      /\ Free(X, Triples, 0, p - 1) /\ Free(X, {"#"}, 0, p - 1)
      /\ Said(X, 0, p - 1) = Said(L, a, q - 1)
  BY StartOfString
<1>2. Y \in Seq(STRING) /\ IsTail(Y, L, q)
  BY TailOfTail
<1> HIDE DEF p
<1>3. /\ Len(Y) = Len(L) - q /\ Len(Y) \in Nat /\ DOMAIN Y = 1 .. Len(Y) /\ q \in 0 .. Len(L)
      /\ c \in q .. Len(L)
  BY <1>2, LenProperties DEF IsTail
<1> HIDE DEF X, Y
<1>4. W \in Seq(STRING) /\ IsTail(W, L, c)
  BY <1>2, <1>3, TailOfTail
<1> HIDE DEF W
<1>5. /\ e \in 1 .. Len(Y) /\ e - 1 \in Nat /\ 0 \in Nat /\ 0 <= e - 1 /\ e - 1 <= Len(L) - q
      /\ q + 0 = q /\ q + (e - 1) = c - 1 /\ q + e = c /\ c \in 0 .. Len(L)
  BY <1>3
<1> HIDE DEF e
<1>6. Y[e] = R[p]
  <2>1. Y[e] = L[c]
    BY <1>2, <1>3, <1>5 DEF IsTail
  <2> QED BY <1>1, <2>1 DEF Closes
<1>7. Free(Y, {L[q]}, 0, e - 1) <=> Free(L, {L[q]}, q + 0, q + (e - 1))
  BY <1>2, <1>3, <1>5, FreeTail
<1>8. At(Y, {R[p]}) # {} /\ Min(At(Y, {R[p]})) = e
  <2>1. Free(Y, {R[p]}, 0, e - 1)
    BY <1>1, <1>5, <1>7 DEF Closes
  <2>2. Y[e] \in {R[p]}
    BY <1>6
  <2> QED BY <1>3, <1>5, <2>1, <2>2, FirstAt
<1>9. Opened(R) = [code |-> X \o W, doc |-> "none"]
  BY <1>1, <1>8 DEF Opened, X, Y, W
<1>10. /\ Len(W) = Len(L) - c /\ Len(W) \in Nat
       /\ 0 <= Len(W) /\ Len(W) <= Len(L) - c /\ c + 0 = c /\ c + Len(W) = Len(L)
  <2>1. Len(W) = Len(L) - c
    BY <1>4 DEF IsTail
  <2>2. Len(W) \in Nat
    BY <1>4, LenProperties
  <2> QED BY <1>5, <2>1, <2>2
<1>11. Free(W, Triples, 0, Len(W)) <=> Free(L, Triples, c + 0, c + Len(W))
  BY <1>4, <1>5, <1>10, FreeTail
<1>12. Said(W, 0, Len(W)) = Said(L, c + 0, c + Len(W))
  BY <1>4, <1>5, <1>10, SaidTail
<1>13. Free(X \o W, Triples, 0, Len(X \o W))
  BY <1>1, <1>4, <1>10, <1>11, FreeJoined
<1>14. X \o W \in Seq(STRING)
  BY <1>1, <1>4, ConcatProperties
<1>15. ToMarks(CutAt(X \o W, {"#"})) = Said(X \o W, 0, Len(X \o W))
  BY <1>13, <1>14, MarksAreSaid
<1>16. Said(X \o W, 0, Len(X \o W)) = Said(X, 0, Len(X)) \cup Said(W, 0, Len(W))
  BY <1>1, <1>4, SaidJoined
<1> QED BY <1>1, <1>9, <1>10, <1>12, <1>15, <1>16

\* At the end of a line the reader and the rules are in the same string, and have the same code.
LEMMA LineEnds ==
  ASSUME NEW L \in Seq(STRING), NEW d \in {"none"} \cup Triples, NEW s, Row(L, d, Len(L), s)
  PROVE  /\ ToMarks(CodeOf(L, d)) = s.code
         /\ DocAfter(L, d) = "none" => s.mode \in {"code", "note"}
         /\ DocAfter(L, d) # "none" => s.mode = DocAfter(L, d)
<1>0. Len(L) \in Nat /\ DOMAIN L = 1 .. Len(L)
  BY LenProperties
<1>1. CASE Within(L, d, Len(L), s)
  <2>1. d # "none" /\ Free(L, {d}, 0, Len(L)) /\ s.mode = d /\ s.code = {}
    BY <1>1 DEF Within
  <2>2. At(L, {d}) = {}
    BY <1>0, <2>1, FirstAt
  <2>3. Unclosed(L, d)
    BY <2>1, <2>2 DEF Unclosed
  <2>4. CodeOf(L, d) = <<>> /\ DocAfter(L, d) = d
    BY <2>3 DEF CodeOf, DocAfter
  <2>5. ToMarks(<<>>) = {}
    BY DEF ToMarks
  <2> QED BY <2>1, <2>4, <2>5
<1>2. ASSUME NEW a \in 0 .. Len(L), Resumes(L, d, a)
      PROVE  /\ Resumed(L, d) \in Seq(STRING) /\ IsTail(Resumed(L, d), L, a)
             /\ CodeOf(L, d) = CutAt(Opened(Resumed(L, d)).code, {"#"})
             /\ L # <<>> => DocAfter(L, d) = Opened(Resumed(L, d)).doc
             /\ L = <<>> => DocAfter(L, d) = "none"
  BY <1>2, ResumedIs DEF CodeOf, DocAfter
<1>3. ASSUME NEW q \in Nat, NEW a \in Nat, q \in a + 1 .. Len(L) PROVE L # <<>>
  BY <1>0, <1>3, EmptySeq
<1>4. CASE \E a \in 0 .. Len(L) : Resumes(L, d, a) /\ Unopened(L, a, Len(L), s)
  <2>1. PICK a \in 0 .. Len(L) : Resumes(L, d, a) /\ Unopened(L, a, Len(L), s)
    BY <1>4
  <2>2. Free(L, Triples, a, Len(L)) /\ s.mode \in {"code", "note"} /\ s.code = {} \cup Said(L, a, Len(L))
    BY <2>1 DEF Unopened, Stretch
  <2> DEFINE R == Resumed(L, d)
  <2>3. /\ R \in Seq(STRING) /\ IsTail(R, L, a) /\ CodeOf(L, d) = CutAt(Opened(R).code, {"#"})
        /\ DocAfter(L, d) \in {"none", Opened(R).doc}
    BY <1>2, <2>1
  <2> HIDE DEF R
  <2>4. /\ Opened(R) = [code |-> R, doc |-> "none"]
        /\ ToMarks(CutAt(R, {"#"})) = Said(L, a, Len(L))
    BY <1>0, <2>2, <2>3, EndUnopened
  <2>5. Opened(R).doc = "none" /\ Opened(R).code = R
    BY <2>4
  <2> QED BY <2>2, <2>3, <2>4, <2>5
<1>5. CASE \E a \in 0 .. Len(L) : \E q \in a + 1 .. Len(L) : Resumes(L, d, a) /\ InString(L, a, q, Len(L), s)
  <2>0. PICK a \in 0 .. Len(L) : \E q \in a + 1 .. Len(L) : Resumes(L, d, a) /\ InString(L, a, q, Len(L), s)
    BY <1>5
  <2>1. PICK q \in a + 1 .. Len(L) : Resumes(L, d, a) /\ InString(L, a, q, Len(L), s)
    BY <2>0
  <2>2. /\ Opens(L, a, q) /\ Free(L, {L[q]}, q, Len(L)) /\ L[q] \in Triples
        /\ s.mode = L[q] /\ s.code = Said(L, a, q - 1)
    BY <2>1 DEF InString, Opens
  <2> DEFINE R == Resumed(L, d)
  <2>3. L # <<>>
    BY <1>0, EmptySeq
  <2>4. /\ R \in Seq(STRING) /\ IsTail(R, L, a) /\ CodeOf(L, d) = CutAt(Opened(R).code, {"#"})
        /\ DocAfter(L, d) = Opened(R).doc
    BY <1>2, <2>1, <2>3
  <2> HIDE DEF R
  <2>5. /\ Opened(R).doc = L[q]
        /\ ToMarks(CutAt(Opened(R).code, {"#"})) = Said(L, a, q - 1)
    BY <1>0, <2>2, <2>4, EndInString
  <2>6. L[q] # "none"
    BY <2>2, TriplesApart
  <2> QED BY <2>2, <2>4, <2>5, <2>6
<1>6. CASE \E a \in 0 .. Len(L) : \E q \in a + 1 .. Len(L) : \E c \in q + 1 .. Len(L) :
             Resumes(L, d, a) /\ PastString(L, a, q, c, Len(L), s)
  <2>0. PICK a \in 0 .. Len(L) : \E q \in a + 1 .. Len(L) : \E c \in q + 1 .. Len(L) :
             Resumes(L, d, a) /\ PastString(L, a, q, c, Len(L), s)
    BY <1>6
  <2>9. PICK q \in a + 1 .. Len(L) : \E c \in q + 1 .. Len(L) :
             Resumes(L, d, a) /\ PastString(L, a, q, c, Len(L), s)
    BY <2>0
  <2>1. PICK c \in q + 1 .. Len(L) : Resumes(L, d, a) /\ PastString(L, a, q, c, Len(L), s)
    BY <2>9
  <2>2. /\ Opens(L, a, q) /\ Closes(L, q, c) /\ Free(L, Triples, c, Len(L))
        /\ s.mode \in {"code", "note"} /\ s.code = Said(L, a, q - 1) \cup Said(L, c, Len(L))
    BY <2>1 DEF PastString, Stretch
  <2> DEFINE R == Resumed(L, d)
  <2>3. L # <<>>
    BY <1>0, EmptySeq
  <2>4. /\ R \in Seq(STRING) /\ IsTail(R, L, a) /\ CodeOf(L, d) = CutAt(Opened(R).code, {"#"})
        /\ DocAfter(L, d) = Opened(R).doc
    BY <1>2, <2>1, <2>3
  <2> HIDE DEF R
  <2>5. /\ Opened(R).doc = "none"
        /\ ToMarks(CutAt(Opened(R).code, {"#"})) = Said(L, a, q - 1) \cup Said(L, c, Len(L))
    BY <1>0, <2>2, <2>4, EndPastString
  <2> QED BY <2>2, <2>4, <2>5
<1> QED BY <1>1, <1>4, <1>5, <1>6 DEF Row

-----------------------------------------------------------------------------
(* Python: line after line.                                                *)

Docs == {"none"} \cup Triples

LEMMA DocAfterIs ==
  ASSUME NEW L \in Seq(STRING), NEW d \in Docs
  PROVE  DocAfter(L, d) \in Docs
<1>1. Len(L) \in Nat /\ DOMAIN L = 1 .. Len(L)
  BY LenProperties
<1>2. CASE L = <<>> \/ Unclosed(L, d)
  BY <1>2 DEF DocAfter
<1>3. CASE L # <<>> /\ ~Unclosed(L, d)
  <2> DEFINE R == Resumed(L, d)
  <2>1. R \in Seq(STRING)
    <3>1. CASE d = "none"
      BY <3>1 DEF Resumed
    <3>2. CASE d # "none"
      <4>1. At(L, {d}) # {}
        BY <1>3, <3>2 DEF Unclosed
      <4>9. Min(At(L, {d})) \in 1 .. Len(L)
        BY <1>1, <4>1, FirstAt
      <4>2. Min(At(L, {d})) \in 0 .. Len(L)
        BY <1>1, <4>9
      <4>3. R = Right(L, Min(At(L, {d})))
        BY <3>2, <4>1 DEF Resumed
      <4> QED BY <4>2, <4>3, RightIs
    <3> QED BY <3>1, <3>2
  <2>2. DocAfter(L, d) = Opened(R).doc
    BY <1>3 DEF DocAfter
  <2> HIDE DEF R
  <2>3. Len(R) \in Nat /\ DOMAIN R = 1 .. Len(R)
    BY <2>1, LenProperties
  <2>4. At(R, Triples) # {} => R[Min(At(R, Triples))] \in Triples
    BY <2>3, FirstAt
  <2>5. Opened(R).doc \in {"none", R[Min(At(R, Triples))]} /\ (At(R, Triples) = {} => Opened(R).doc = "none")
    BY DEF Opened
  <2> QED BY <2>2, <2>4, <2>5 DEF Docs
<1> QED BY <1>2, <1>3

\* A file of lines that are sequences.
LinesOf(ls) == Len(ls) \in Nat /\ \A n \in 1 .. Len(ls) : ls[n] \in Seq(STRING)

DocReading(f, ls) ==
    f = [n \in 0 .. Len(ls) |-> IF n = 0 THEN "none" ELSE DocAfter(ls[n], f[n - 1])]

LEMMA DocReadingExists ==
  ASSUME NEW ls, LinesOf(ls)
  PROVE  \E f \in [0 .. Len(ls) -> Docs] : DocReading(f, ls)
<1> DEFINE T == Nat \ {0}
           step == [p \in Docs \X T |->
                      IF p[2] \in 1 .. Len(ls) THEN DocAfter(ls[p[2]], p[1]) ELSE p[1]]
<1>0. Len(ls) \in Nat /\ \A i \in 1 .. Len(ls) : ls[i] \in Seq(STRING)
  BY DEF LinesOf
<1>1. \A s \in Docs, i \in 1 .. Len(ls) : DocAfter(ls[i], s) \in Docs
  BY <1>0, DocAfterIs
<1>2. step \in [Docs \X T -> Docs]
  <2>1. ASSUME NEW p \in Docs \X T
        PROVE  (IF p[2] \in 1 .. Len(ls) THEN DocAfter(ls[p[2]], p[1]) ELSE p[1]) \in Docs
    BY <1>1
  <2> QED BY <2>1
<1>3. \A s \in Docs, i \in 1 .. Len(ls) : step[<<s, i>>] = DocAfter(ls[i], s)
  OBVIOUS
<1> HIDE DEF step
<1>4. "none" \in Docs
  BY DEF Docs
<1>5. PICK f \in [0 .. Len(ls) -> Docs] : Follows(f, "none", step, Len(ls))
  BY <1>0, <1>2, <1>4, FollowsExists
<1>6. f = [i \in 0 .. Len(ls) |-> IF i = 0 THEN "none" ELSE step[<<f[i - 1], i>>]]
  BY <1>5 DEF Follows
<1>7. ASSUME NEW i \in 0 .. Len(ls)
      PROVE  (IF i = 0 THEN "none" ELSE step[<<f[i - 1], i>>])
               = (IF i = 0 THEN "none" ELSE DocAfter(ls[i], f[i - 1]))
  <2>1. CASE i = 0
    BY <2>1
  <2>2. CASE i # 0
    <3>1. i \in 1 .. Len(ls) /\ i - 1 \in 0 .. Len(ls)
      BY <1>0, <2>2
    <3>2. f[i - 1] \in Docs
      BY <1>5, <3>1
    <3> QED BY <1>3, <2>2, <3>1, <3>2
  <2> QED BY <2>1, <2>2
<1>8. f = [i \in 0 .. Len(ls) |-> IF i = 0 THEN "none" ELSE DocAfter(ls[i], f[i - 1])]
  <2> DEFINE g == [i \in 0 .. Len(ls) |-> IF i = 0 THEN "none" ELSE DocAfter(ls[i], f[i - 1])]
  <2>1. f = g
    BY <1>6, <1>7
  <2> QED BY <2>1
<1> QED BY <1>5, <1>8 DEF DocReading

LEMMA DocReads ==
  ASSUME NEW ls, LinesOf(ls)
  PROVE  /\ PythonDoc(ls)[0] = "none"
         /\ \A n \in 0 .. Len(ls) - 1 : PythonDoc(ls)[n + 1] = DocAfter(ls[n + 1], PythonDoc(ls)[n])
<1> DEFINE f == CHOOSE g : DocReading(g, ls)
<1>0. Len(ls) \in Nat
  BY DEF LinesOf
<1>1. \E g : DocReading(g, ls)
  BY DocReadingExists
<1>2. DocReading(f, ls)
  BY <1>1, Zenon
<1>3. PythonDoc(ls) = f
  BY DEF PythonDoc, DocReading, DocAfter
<1> HIDE DEF f
<1> DEFINE Do(s, i) == DocAfter(ls[i], s)
<1>4. f = [i \in 0 .. Len(ls) |-> IF i = 0 THEN "none" ELSE Do(f[i - 1], i)]
  BY <1>2 DEF DocReading
<1> HIDE DEF Do
<1>5. f[0] = "none"
  BY <1>0, <1>4
<1>6. ASSUME NEW k \in 0 .. Len(ls) - 1 PROVE f[k + 1] = Do(f[k], k + 1)
  <2>1. k + 1 \in 0 .. Len(ls) /\ k + 1 # 0 /\ (k + 1) - 1 = k
    BY <1>0
  <2> QED BY <1>4, <2>1
<1> QED BY <1>3, <1>5, <1>6 DEF Do

FileBegun == [mode |-> "code", opened |-> 0, tame |-> TRUE, code |-> {}]
FileReading(f, ls) ==
    f = [n \in 0 .. Len(ls) |-> IF n = 0 THEN FileBegun ELSE PythonLine(f[n - 1], ls[n])]

LEMMA LineIsSeen ==
  ASSUME NEW s \in Seen, NEW L \in Seq(STRING)
  PROVE  PythonLine(s, L) \in Seen
<1>1. Len(L) \in 0 .. Len(L)
  BY LenProperties
<1> QED BY <1>1, PythonLineReads

LEMMA FileReadingExists ==
  ASSUME NEW ls, LinesOf(ls)
  PROVE  \E f \in [0 .. Len(ls) -> Seen] : FileReading(f, ls)
<1> DEFINE T == Nat \ {0}
           step == [p \in Seen \X T |->
                      IF p[2] \in 1 .. Len(ls) THEN PythonLine(p[1], ls[p[2]]) ELSE p[1]]
<1>0. Len(ls) \in Nat /\ \A i \in 1 .. Len(ls) : ls[i] \in Seq(STRING)
  BY DEF LinesOf
<1>1. \A s \in Seen, i \in 1 .. Len(ls) : PythonLine(s, ls[i]) \in Seen
  BY <1>0, LineIsSeen
<1>2. step \in [Seen \X T -> Seen]
  <2>1. ASSUME NEW p \in Seen \X T
        PROVE  (IF p[2] \in 1 .. Len(ls) THEN PythonLine(p[1], ls[p[2]]) ELSE p[1]) \in Seen
    BY <1>1
  <2> QED BY <2>1
<1>3. \A s \in Seen, i \in 1 .. Len(ls) : step[<<s, i>>] = PythonLine(s, ls[i])
  OBVIOUS
<1> HIDE DEF step
<1>4. FileBegun \in Seen
  BY DEF FileBegun, Seen
<1>5. PICK f \in [0 .. Len(ls) -> Seen] : Follows(f, FileBegun, step, Len(ls))
  BY <1>0, <1>2, <1>4, FollowsExists
<1>6. f = [i \in 0 .. Len(ls) |-> IF i = 0 THEN FileBegun ELSE step[<<f[i - 1], i>>]]
  BY <1>5 DEF Follows
<1>7. ASSUME NEW i \in 0 .. Len(ls)
      PROVE  (IF i = 0 THEN FileBegun ELSE step[<<f[i - 1], i>>])
               = (IF i = 0 THEN FileBegun ELSE PythonLine(f[i - 1], ls[i]))
  <2>1. CASE i = 0
    BY <2>1
  <2>2. CASE i # 0
    <3>1. i \in 1 .. Len(ls) /\ i - 1 \in 0 .. Len(ls)
      BY <1>0, <2>2
    <3>2. f[i - 1] \in Seen
      BY <1>5, <3>1
    <3> QED BY <1>3, <2>2, <3>1, <3>2
  <2> QED BY <2>1, <2>2
<1>8. f = [i \in 0 .. Len(ls) |-> IF i = 0 THEN FileBegun ELSE PythonLine(f[i - 1], ls[i])]
  <2> DEFINE g == [i \in 0 .. Len(ls) |-> IF i = 0 THEN FileBegun ELSE PythonLine(f[i - 1], ls[i])]
  <2>1. f = g
    BY <1>6, <1>7
  <2> QED BY <2>1
<1> QED BY <1>5, <1>8 DEF FileReading

LEMMA FileReads ==
  ASSUME NEW ls, LinesOf(ls)
  PROVE  /\ PythonTruth(ls)[0] = FileBegun
         /\ \A n \in 0 .. Len(ls) - 1 : PythonTruth(ls)[n + 1] = PythonLine(PythonTruth(ls)[n], ls[n + 1])
<1> DEFINE f == CHOOSE g : FileReading(g, ls)
<1>0. Len(ls) \in Nat
  BY DEF LinesOf
<1>1. \E g : FileReading(g, ls)
  BY FileReadingExists
<1>2. FileReading(f, ls)
  BY <1>1, Zenon
<1>3. PythonTruth(ls) = f
  BY DEF PythonTruth, FileReading, FileBegun
<1> HIDE DEF f
<1> DEFINE Do(s, i) == PythonLine(s, ls[i])
<1>4. f = [i \in 0 .. Len(ls) |-> IF i = 0 THEN FileBegun ELSE Do(f[i - 1], i)]
  BY <1>2 DEF FileReading
<1> HIDE DEF Do
<1>5. f[0] = FileBegun
  BY <1>0, <1>4
<1>6. ASSUME NEW k \in 0 .. Len(ls) - 1 PROVE f[k + 1] = Do(f[k], k + 1)
  <2>1. k + 1 \in 0 .. Len(ls) /\ k + 1 # 0 /\ (k + 1) - 1 = k
    BY <1>0
  <2> QED BY <1>4, <2>1
<1> QED BY <1>3, <1>5, <1>6 DEF Do

\* The reader and the rules agree on what is open, and on the code of the line that has ended.
Agree(s, d) == /\ s \in Seen /\ d \in Docs
               /\ d = "none" => s.mode \in {"code", "note"}
               /\ d # "none" => s.mode = d

LEMMA StaysTame ==
  ASSUME NEW s \in Seen, NEW t \in STRING, PythonToken(s, t).tame
  PROVE  s.tame
<1> DEFINE r == PythonToken(s, t)
<1>1. s.mode \in {"code", "note"} \cup Triples
  BY DEF Seen
<1>2. r.tame /\ r = PythonToken(s, t)
  OBVIOUS
<1> HIDE DEF r
<1> QED BY <1>1, <1>2, PythonStep

LEMMA TameBefore ==
  ASSUME NEW s \in Seen, NEW L \in Seq(STRING), PythonLine(s, L).tame
  PROVE  s.tame
<1>1. PICK f \in [0 .. Len(L) -> Seen] :
           /\ f[0] = LineBegun(s)
           /\ \A k \in 0 .. Len(L) - 1 : f[k + 1] = PythonToken(f[k], L[k + 1])
           /\ PythonLine(s, L) = f[Len(L)]
  BY PythonLineReads
<1>2. Len(L) \in Nat
  BY LenProperties
<1> DEFINE S == {k \in Nat : (k <= Len(L) /\ f[k].tame) => s.tame}
<1>3. 0 \in S
  BY <1>1, BegunIsSeen
<1>4. ASSUME NEW k \in Nat, k \in S PROVE k + 1 \in S
  <2> SUFFICES ASSUME k + 1 <= Len(L), f[k + 1].tame PROVE s.tame
    OBVIOUS
  <2>1. k \in 0 .. Len(L) - 1 /\ L[k + 1] \in STRING
    BY <1>2, ElementOfSeq
  <2>2. f[k] \in Seen /\ f[k + 1] = PythonToken(f[k], L[k + 1])
    BY <1>1, <1>2, <2>1
  <2>3. f[k].tame
    BY <2>1, <2>2, StaysTame
  <2> QED BY <1>4, <2>1, <2>3
<1> HIDE DEF S
<1>5. Len(L) \in S
  BY <1>2, <1>3, <1>4, Induction
<1> QED BY <1>1, <1>2, <1>5 DEF S

LEMMA LineAgrees ==
  ASSUME NEW s, NEW d, Agree(s, d), NEW L \in Seq(STRING), PythonLine(s, L).tame
  PROVE  Agree(PythonLine(s, L), DocAfter(L, d)) /\ ToMarks(CodeOf(L, d)) = PythonLine(s, L).code
<1>1. /\ s \in Seen /\ d \in {"none"} \cup Triples
      /\ d = "none" => s.mode \in {"code", "note"}
      /\ d # "none" => s.mode = d
  BY DEF Agree, Docs
<1>2. PythonLine(s, L) \in Seen /\ Row(L, d, Len(L), PythonLine(s, L))
  BY <1>1, LineIsRow
<1> DEFINE r == PythonLine(s, L)
<1> HIDE DEF r
<1>3. r \in Seen /\ Row(L, d, Len(L), r)
  BY <1>2 DEF r
<1>4. /\ ToMarks(CodeOf(L, d)) = r.code
      /\ DocAfter(L, d) = "none" => r.mode \in {"code", "note"}
      /\ DocAfter(L, d) # "none" => r.mode = DocAfter(L, d)
  BY <1>1, <1>3, LineEnds
<1>5. DocAfter(L, d) \in Docs
  BY <1>1, DocAfterIs DEF Docs
<1>6. Agree(r, DocAfter(L, d))
  BY <1>3, <1>4, <1>5 DEF Agree
<1> QED BY <1>4, <1>6 DEF r

LEMMA FileAgrees ==
  ASSUME NEW ls, LinesOf(ls), PythonTruth(ls)[Len(ls)].tame
  PROVE  \A n \in 1 .. Len(ls) : ToMarks(PythonCode(ls, n)) = PythonTruth(ls)[n].code
<1> DEFINE truth == PythonTruth(ls) doc == PythonDoc(ls) M == Len(ls)
<1>0. M \in Nat /\ \A n \in 1 .. M : ls[n] \in Seq(STRING)
  BY DEF LinesOf
<1>1. /\ truth[0] = FileBegun /\ doc[0] = "none"
      /\ \A n \in 0 .. M - 1 : truth[n + 1] = PythonLine(truth[n], ls[n + 1])
      /\ \A n \in 0 .. M - 1 : doc[n + 1] = DocAfter(ls[n + 1], doc[n])
  BY FileReads, DocReads
<1>2. truth[M].tame
  OBVIOUS
<1>3. \A n \in 1 .. M : PythonCode(ls, n) = CodeOf(ls[n], doc[n - 1])
  BY DEF PythonCode, CodeOf
<1> HIDE DEF truth, doc, M
<1>4. \A n \in 0 .. M : truth[n] \in Seen
  <2> DEFINE S == {n \in Nat : n <= M => truth[n] \in Seen}
  <2>1. 0 \in S
    <3>1. FileBegun \in Seen
      BY DEF FileBegun, Seen
    <3> QED BY <1>1, <3>1
  <2>2. ASSUME NEW n \in Nat, n \in S PROVE n + 1 \in S
    <3> SUFFICES ASSUME n + 1 <= M PROVE truth[n + 1] \in Seen
      OBVIOUS
    <3>1. n \in 0 .. M - 1 /\ n + 1 \in 1 .. M /\ truth[n] \in Seen
      BY <1>0, <2>2
    <3> QED BY <1>0, <1>1, <3>1, LineIsSeen
  <2> HIDE DEF S
  <2>3. \A n \in Nat : n \in S
    BY <2>1, <2>2, Induction
  <2> QED BY <2>3 DEF S
<1>5. \A n \in 0 .. M : truth[n].tame
  <2> DEFINE S == {n \in Nat : n <= M => truth[M - n].tame}
  <2>1. 0 \in S
    BY <1>0, <1>2
  <2>2. ASSUME NEW n \in Nat, n \in S PROVE n + 1 \in S
    <3> SUFFICES ASSUME n + 1 <= M PROVE truth[M - (n + 1)].tame
      OBVIOUS
    <3> DEFINE k == M - (n + 1)
    <3>1. k \in 0 .. M - 1 /\ k + 1 = M - n /\ k \in 0 .. M /\ k + 1 \in 1 .. M /\ truth[k + 1].tame
      BY <1>0, <2>2
    <3> HIDE DEF k
    <3>2. truth[k].tame
      BY <1>0, <1>1, <1>4, <3>1, TameBefore
    <3> QED BY <3>2 DEF k
  <2> HIDE DEF S
  <2>3. \A n \in Nat : n \in S
    BY <2>1, <2>2, Induction
  <2>4. ASSUME NEW n \in 0 .. M PROVE truth[n].tame
    <3>1. M - n \in Nat /\ M - n <= M /\ M - (M - n) = n
      BY <1>0
    <3> QED BY <2>3, <3>1 DEF S
  <2> QED BY <2>4
<1>6. \A n \in 0 .. M : Agree(truth[n], doc[n])
  <2> DEFINE S == {n \in Nat : n <= M => Agree(truth[n], doc[n])}
  <2>1. 0 \in S
    <3>1. truth[0].mode = "code"
      BY <1>1 DEF FileBegun
    <3> QED BY <1>0, <1>1, <1>4, <3>1 DEF Agree, Docs
  <2>2. ASSUME NEW n \in Nat, n \in S PROVE n + 1 \in S
    <3> SUFFICES ASSUME n + 1 <= M PROVE Agree(truth[n + 1], doc[n + 1])
      OBVIOUS
    <3>1. n \in 0 .. M - 1 /\ n + 1 \in 1 .. M /\ n + 1 \in 0 .. M /\ Agree(truth[n], doc[n])
      BY <1>0, <2>2
    <3>2. PythonLine(truth[n], ls[n + 1]).tame
      BY <1>1, <1>5, <3>1
    <3>3. Agree(PythonLine(truth[n], ls[n + 1]), DocAfter(ls[n + 1], doc[n]))
      BY <1>0, <3>1, <3>2, LineAgrees
    <3> QED BY <1>1, <3>1, <3>3
  <2> HIDE DEF S
  <2>3. \A n \in Nat : n \in S
    BY <2>1, <2>2, Induction
  <2> QED BY <2>3 DEF S
<1>7. ASSUME NEW n \in 1 .. M PROVE ToMarks(PythonCode(ls, n)) = truth[n].code
  <2>1. n - 1 \in 0 .. M - 1 /\ n - 1 \in 0 .. M /\ (n - 1) + 1 = n /\ n \in 0 .. M
    BY <1>0
  <2>2. truth[n] = PythonLine(truth[n - 1], ls[n])
    BY <1>1, <2>1
  <2>3. PythonLine(truth[n - 1], ls[n]).tame
    BY <1>5, <2>1, <2>2
  <2>4. Agree(truth[n - 1], doc[n - 1]) /\ ls[n] \in Seq(STRING)
    BY <1>0, <1>6, <2>1
  <2>5. ToMarks(CodeOf(ls[n], doc[n - 1])) = PythonLine(truth[n - 1], ls[n]).code
    BY <2>3, <2>4, LineAgrees
  <2> QED BY <1>3, <2>2, <2>5
<1> QED BY <1>7 DEF truth, M

\* The lines of a file of a sequenced kind are sequences of tokens.
LEMMA LinesAreTokens == ASSUME Typed, kind \in Sequenced PROVE LinesOf(lines) /\ DOMAIN lines = 1 .. Len(lines)
<1>1. ~Commentable /\ Vocabulary[kind] \subseteq Seq(STRING)
  BY TokensAssumption DEF Typed, Commentable
<1>2. Written = Vocabulary[kind]
  BY <1>1 DEF Written
<1> QED BY <1>1, <1>2, LinesOfType DEF LinesOf

\* Of every Python file with at most one long string begun on a line, and none in a comment:
\* the lines the rules are asked about are the lines of code (python_code_lines).
THEOREM CodeIsNoDocstring == Spec => []PythonLinesAreCode
<1>1. Typed => PythonLinesAreCode
  <2> SUFFICES ASSUME Typed, kind = "python", PythonTruth(lines)[Len(lines)].tame
               PROVE  \A n \in DOMAIN lines : ToMarks(PythonCode(lines, n)) = PythonTruth(lines)[n].code
    BY DEF PythonLinesAreCode
  <2>1. kind \in Sequenced
    BY DEF Sequenced
  <2>2. LinesOf(lines) /\ DOMAIN lines = 1 .. Len(lines)
    BY <2>1, LinesAreTokens
  <2> QED BY <2>2, FileAgrees
<1> QED BY <1>1, LinesAreWritten, PTL

-----------------------------------------------------------------------------
(* SQL: the readers.                                                       *)

Statement == [line : Nat, text : Seq(STRING)]
Sofar == [done : Seq(Statement), open : Statement]
Bare == [block : BOOLEAN, text : Seq(STRING)]
Lexed == [dollar : BOOLEAN, block : BOOLEAN, text : Seq(STRING)]
SqlSeen == [mode : {"code", "note", "block", "dollar"}, line : Nat, ended : BOOLEAN,
            fresh : BOOLEAN, tame : BOOLEAN, done : Seq(Statement), open : Statement]
None == [line |-> 0, text |-> <<>>]

LEMMA NoneIs == None \in Statement /\ None.text = <<>> /\ None.line = 0
<1>1. <<>> \in Seq(STRING)
  BY EmptySeq
<1> QED BY <1>1 DEF None, Statement

LEMMA UncommentStep ==
  ASSUME NEW s \in Bare, NEW t \in STRING, NEW r, r = Uncomment(s, t)
  PROVE  /\ r \in Bare
         /\ s.block => r.text = s.text /\ (r.block <=> t # "*/")
         /\ ~s.block /\ t = "/*" => r.text = s.text /\ r.block
         /\ ~s.block /\ t # "/*" => r.text = Append(s.text, t) /\ ~r.block
<1>0. s.block \in BOOLEAN /\ s.text \in Seq(STRING)
  BY DEF Bare
<1>1. CASE s.block
  <2>1. r = [s EXCEPT !.block = t # "*/"]
    BY <1>1 DEF Uncomment
  <2>2. r = [block |-> t # "*/", text |-> s.text]
    BY <2>1 DEF Bare
  <2>3. r \in Bare
    BY <1>0, <2>2 DEF Bare
  <2>4. r.text = s.text
    BY <2>2
  <2>5. r.block = (t # "*/")
    BY <2>2
  <2>6. r.block <=> t # "*/"
    BY <2>5, Zenon
  <2> HIDE DEF Bare
  <2> QED BY <1>1, <2>3, <2>4, <2>6
<1>2. CASE ~s.block /\ t = "/*"
  <2>1. r = [s EXCEPT !.block = TRUE]
    BY <1>2 DEF Uncomment
  <2>2. r = [block |-> TRUE, text |-> s.text]
    BY <2>1 DEF Bare
  <2>3. r \in Bare
    BY <1>0, <2>2 DEF Bare
  <2> QED BY <1>2, <2>2, <2>3
<1>3. CASE ~s.block /\ t # "/*"
  <2>1. r = [s EXCEPT !.text = Append(s.text, t)]
    BY <1>3 DEF Uncomment
  <2>2. r = [block |-> s.block, text |-> Append(s.text, t)]
    BY <2>1 DEF Bare
  <2>3. Append(s.text, t) \in Seq(STRING)
    BY <1>0, AppendProperties
  <2>4. r \in Bare
    BY <1>0, <2>2, <2>3 DEF Bare
  <2> QED BY <1>3, <2>2, <2>4
<1> QED BY <1>0, <1>1, <1>2, <1>3

LEMMA CutAtIs == ASSUME NEW L \in Seq(STRING), NEW ts PROVE CutAt(L, ts) \in Seq(STRING)
<1>1. Len(L) \in Nat /\ DOMAIN L = 1 .. Len(L)
  BY LenProperties
<1>2. CASE At(L, ts) = {}
  BY <1>2 DEF CutAt
<1>3. CASE At(L, ts) # {}
  <2>1. Min(At(L, ts)) \in 1 .. Len(L)
    BY <1>1, <1>3, FirstAt
  <2>2. Min(At(L, ts)) \in 1 .. Len(L) + 1
    BY <1>1, <2>1
  <2>3. CutAt(L, ts) = Left(L, Min(At(L, ts)))
    BY <1>3 DEF CutAt
  <2> QED BY <2>2, <2>3, LeftIs
<1> QED BY <1>2, <1>3

LEMMA UndollaredIs == ASSUME NEW L \in Seq(STRING) PROVE Undollared(L) \in Seq(STRING)
BY CutAtIs DEF Undollared

LEMMA LongerIs ==
  ASSUME NEW s \in SqlSeen, NEW t \in STRING
  PROVE  /\ Longer(s, t) \in Statement
         /\ Longer(s, t).line = IF s.open.text = <<>> THEN s.line ELSE s.open.line
         /\ Longer(s, t).text = Append(s.open.text, t)
<1>1. s.line \in Nat /\ s.open.line \in Nat /\ s.open.text \in Seq(STRING)
  BY DEF SqlSeen, Statement
<1>2. Append(s.open.text, t) \in Seq(STRING)
  BY <1>1, AppendProperties
<1>3. (IF s.open.text = <<>> THEN s.line ELSE s.open.line) \in Nat
  BY <1>1
<1> QED BY <1>2, <1>3 DEF Longer, Statement

LEMMA AddLineIs ==
  ASSUME NEW s \in Sofar, NEW n \in Nat, NEW x \in Seq(STRING)
  PROVE  AddLine(s, n, x) \in Sofar
<1> DEFINE open == [line |-> IF s.open.text = <<>> THEN n ELSE s.open.line, text |-> s.open.text \o x]
<1>1. s.done \in Seq(Statement) /\ s.open \in Statement /\ s.open.line \in Nat /\ s.open.text \in Seq(STRING)
  BY DEF Sofar, Statement
<1>2. s.open.text \o x \in Seq(STRING)
  BY <1>1, ConcatProperties
<1>3. open \in Statement
  BY <1>1, <1>2 DEF Statement
<1>4. AddLine(s, n, x) = IF x = <<>> THEN s
                         ELSE IF At(x, {";"}) # {} THEN [done |-> Append(s.done, open), open |-> None]
                         ELSE [s EXCEPT !.open = open]
  BY DEF AddLine, None
<1> HIDE DEF open
<1>5. Append(s.done, open) \in Seq(Statement)
  BY <1>1, <1>3, AppendProperties
<1>6. [done |-> Append(s.done, open), open |-> None] \in Sofar
  BY <1>5, NoneIs DEF Sofar
<1>7. [s EXCEPT !.open = open] \in Sofar
  BY <1>3 DEF Sofar
<1> QED BY <1>4, <1>6, <1>7

\* A step of the reader, mode by mode.
LEMMA DollarStep ==
  ASSUME NEW s \in SqlSeen, NEW t \in STRING, NEW r, r = SqlToken(s, t), s.mode = "dollar"
  PROVE  /\ r \in SqlSeen /\ r.line = s.line /\ r.done = s.done /\ r.open = s.open
         /\ (r.fresh <=> s.fresh)
         /\ t = "$$" => r.mode = "code" /\ r.ended /\ (r.tame <=> s.tame /\ ~s.fresh)
         /\ t # "$$" => r.mode = "dollar" /\ (r.ended <=> s.ended) /\ (r.tame <=> s.tame)
<1>1. CASE t = "$$"
  <2>1. r = [s EXCEPT !.mode = "code", !.ended = TRUE, !.tame = s.tame /\ ~s.fresh]
    BY <1>1 DEF SqlToken
  <2>2. r \in SqlSeen
    BY <2>1 DEF SqlSeen
  <2>3. /\ r.line = s.line /\ r.done = s.done /\ r.open = s.open /\ (r.fresh <=> s.fresh)
        /\ r.mode = "code" /\ r.ended /\ (r.tame <=> s.tame /\ ~s.fresh)
    BY <2>1 DEF SqlSeen
  <2> HIDE DEF SqlSeen
  <2> QED BY <1>1, <2>2, <2>3
<1>2. CASE t # "$$"
  <2>1. r = s
    BY <1>2 DEF SqlToken
  <2> QED BY <1>2, <2>1
<1> QED BY <1>1, <1>2

LEMMA BlockStep ==
  ASSUME NEW s \in SqlSeen, NEW t \in STRING, NEW r, r = SqlToken(s, t), s.mode = "block"
  PROVE  /\ r \in SqlSeen /\ r.line = s.line /\ r.done = s.done /\ r.open = s.open
         /\ (r.fresh <=> s.fresh) /\ (r.ended <=> s.ended)
         /\ t = "*/" => r.mode = "code" /\ (r.tame <=> s.tame)
         /\ t # "*/" => r.mode = "block" /\ (r.tame <=> s.tame /\ t \notin {"$$", "/*"})
<1>1. CASE t = "*/"
  <2>1. r = [s EXCEPT !.mode = "code"]
    BY <1>1 DEF SqlToken
  <2>2. r \in SqlSeen
    BY <2>1 DEF SqlSeen
  <2>3. /\ r.line = s.line /\ r.done = s.done /\ r.open = s.open /\ (r.fresh <=> s.fresh)
        /\ r.mode = "code" /\ (r.ended <=> s.ended) /\ (r.tame <=> s.tame)
    BY <2>1 DEF SqlSeen
  <2> QED BY <1>1, <2>2, <2>3
<1>2. CASE t # "*/"
  <2>1. r = [s EXCEPT !.tame = s.tame /\ t \notin {"$$", "/*"}]
    BY <1>2 DEF SqlToken
  <2>2. r \in SqlSeen
    BY <2>1 DEF SqlSeen
  <2>3. /\ r.line = s.line /\ r.done = s.done /\ r.open = s.open /\ (r.fresh <=> s.fresh)
        /\ r.mode = "block" /\ (r.ended <=> s.ended) /\ (r.tame <=> s.tame /\ t \notin {"$$", "/*"})
    BY <2>1 DEF SqlSeen
  <2> QED BY <1>2, <2>2, <2>3
<1> QED BY <1>1, <1>2

LEMMA NoteStep ==
  ASSUME NEW s \in SqlSeen, NEW t \in STRING, NEW r, r = SqlToken(s, t), s.mode = "note"
  PROVE  /\ r \in SqlSeen /\ r.line = s.line /\ r.done = s.done /\ r.open = s.open
         /\ (r.fresh <=> s.fresh) /\ (r.ended <=> s.ended)
         /\ r.mode = "note" /\ (r.tame <=> s.tame /\ t \notin {"$$", "/*", "*/"})
<1>1. r = [s EXCEPT !.tame = s.tame /\ t \notin {"$$", "/*", "*/"}]
  BY DEF SqlToken
<1>2. r \in SqlSeen
  BY <1>1 DEF SqlSeen
<1>3. /\ r.line = s.line /\ r.done = s.done /\ r.open = s.open /\ (r.fresh <=> s.fresh)
      /\ r.mode = "note" /\ (r.ended <=> s.ended) /\ (r.tame <=> s.tame /\ t \notin {"$$", "/*", "*/"})
  BY <1>1 DEF SqlSeen
<1> QED BY <1>2, <1>3

LEMMA EndedStep ==
  ASSUME NEW s \in SqlSeen, NEW t \in STRING, NEW r, r = SqlToken(s, t), s.mode = "code", s.ended
  PROVE  r \in SqlSeen /\ ~r.tame
<1>1. r = [s EXCEPT !.tame = s.tame /\ FALSE]
  BY DEF SqlToken
<1>2. r \in SqlSeen
  BY <1>1 DEF SqlSeen
<1>3. ~r.tame
  BY <1>1 DEF SqlSeen
<1> QED BY <1>2, <1>3

LEMMA CodeDollar ==
  ASSUME NEW s \in SqlSeen, NEW t \in STRING, NEW r, r = SqlToken(s, t), s.mode = "code", ~s.ended,
         t = "$$"
  PROVE  r \in SqlSeen /\ r.line = s.line /\ r.done = s.done /\ r.open = s.open /\ r.fresh
         /\ r.mode = "dollar" /\ ~r.ended /\ (r.tame <=> s.tame)
<1>1. r = [s EXCEPT !.mode = "dollar", !.fresh = TRUE]
  BY DEF SqlToken
<1>2. r \in SqlSeen
  BY <1>1 DEF SqlSeen
<1>3. /\ r.line = s.line /\ r.done = s.done /\ r.open = s.open /\ r.fresh
      /\ r.mode = "dollar" /\ ~r.ended /\ (r.tame <=> s.tame)
  BY <1>1 DEF SqlSeen
<1> QED BY <1>2, <1>3

LEMMA CodeBlock ==
  ASSUME NEW s \in SqlSeen, NEW t \in STRING, NEW r, r = SqlToken(s, t), s.mode = "code", ~s.ended,
         t = "/*"
  PROVE  r \in SqlSeen /\ r.line = s.line /\ r.done = s.done /\ r.open = s.open /\ (r.fresh <=> s.fresh)
         /\ r.mode = "block" /\ ~r.ended /\ (r.tame <=> s.tame)
<1>1. r = [s EXCEPT !.mode = "block"]
  BY DEF SqlToken
<1>2. r \in SqlSeen
  BY <1>1 DEF SqlSeen
<1>3. /\ r.line = s.line /\ r.done = s.done /\ r.open = s.open /\ (r.fresh <=> s.fresh)
      /\ r.mode = "block" /\ ~r.ended /\ (r.tame <=> s.tame)
  BY <1>1 DEF SqlSeen
<1> QED BY <1>2, <1>3

LEMMA CodeNote ==
  ASSUME NEW s \in SqlSeen, NEW t \in STRING, NEW r, r = SqlToken(s, t), s.mode = "code", ~s.ended,
         t = "--"
  PROVE  r \in SqlSeen /\ r.line = s.line /\ r.done = s.done /\ r.open = s.open /\ (r.fresh <=> s.fresh)
         /\ r.mode = "note" /\ ~r.ended /\ (r.tame <=> s.tame)
<1>1. r = [s EXCEPT !.mode = "note"]
  BY DEF SqlToken
<1>2. r \in SqlSeen
  BY <1>1 DEF SqlSeen
<1>3. /\ r.line = s.line /\ r.done = s.done /\ r.open = s.open /\ (r.fresh <=> s.fresh)
      /\ r.mode = "note" /\ ~r.ended /\ (r.tame <=> s.tame)
  BY <1>1 DEF SqlSeen
<1> QED BY <1>2, <1>3

LEMMA CodeEnds ==
  ASSUME NEW s \in SqlSeen, NEW t \in STRING, NEW r, r = SqlToken(s, t), s.mode = "code", ~s.ended,
         t = ";"
  PROVE  r \in SqlSeen /\ r.line = s.line /\ r.done = Append(s.done, Longer(s, t)) /\ r.open = None
         /\ (r.fresh <=> s.fresh) /\ r.mode = "code" /\ r.ended /\ (r.tame => s.tame)
<1> DEFINE u == Longer(s, t)
<1>0. u \in Statement /\ u = Longer(s, t) /\ s.done \in Seq(Statement)
  BY LongerIs DEF SqlSeen
<1>1. r = [s EXCEPT !.done = Append(s.done, u), !.ended = TRUE, !.open = None,
                    !.tame = s.tame /\ s.open.text # <<>>]
  BY DEF SqlToken, None
<1> HIDE DEF u
<1>2. Append(s.done, u) \in Seq(Statement)
  BY <1>0, AppendProperties
<1>3. r \in SqlSeen
  BY <1>1, <1>2, NoneIs DEF SqlSeen
<1>4. /\ r.line = s.line /\ r.done = Append(s.done, u) /\ r.open = None /\ (r.fresh <=> s.fresh)
      /\ r.mode = "code" /\ r.ended /\ (r.tame => s.tame)
  BY <1>1 DEF SqlSeen
<1> QED BY <1>0, <1>3, <1>4

LEMMA CodeWord ==
  ASSUME NEW s \in SqlSeen, NEW t \in STRING, NEW r, r = SqlToken(s, t), s.mode = "code", ~s.ended,
         t # "$$", t # "/*", t # "--", t # ";"
  PROVE  r \in SqlSeen /\ r.line = s.line /\ r.done = s.done /\ r.open = Longer(s, t)
         /\ (r.fresh <=> s.fresh) /\ r.mode = s.mode /\ ~r.ended /\ (r.tame <=> s.tame)
<1> DEFINE u == Longer(s, t)
<1>0. u \in Statement /\ u = Longer(s, t) /\ s.done \in Seq(Statement)
  BY LongerIs DEF SqlSeen
<1>1. r = [s EXCEPT !.open = u]
  BY DEF SqlToken
<1> HIDE DEF u
<1>2. r \in SqlSeen
  BY <1>0, <1>1 DEF SqlSeen
<1>3. /\ r.line = s.line /\ r.done = s.done /\ r.open = u /\ (r.fresh <=> s.fresh)
      /\ r.mode = "code" /\ ~r.ended /\ (r.tame <=> s.tame)
  BY <1>1 DEF SqlSeen
<1> QED BY <1>0, <1>2, <1>3

LEMMA CodeStays ==
  ASSUME NEW s \in SqlSeen, NEW t \in STRING, s.mode = "code", ~s.ended,
         t # "$$", t # "/*", t # "--", t # ";"
  PROVE  SqlToken(s, t).mode = "code"
BY CodeWord

LEMMA SqlTokenIs ==
  ASSUME NEW s \in SqlSeen, NEW t \in STRING
  PROVE  SqlToken(s, t) \in SqlSeen /\ (SqlToken(s, t).tame => s.tame)
<1> DEFINE r == SqlToken(s, t)
<1>1. s.mode \in {"code", "note", "block", "dollar"} /\ s.ended \in BOOLEAN
  BY DEF SqlSeen
<1>2. r = SqlToken(s, t)
  OBVIOUS
<1> HIDE DEF r
<1>3. CASE s.mode = "dollar"
  BY <1>2, <1>3, DollarStep
<1>4. CASE s.mode = "block"
  BY <1>2, <1>4, BlockStep
<1>5. CASE s.mode = "note"
  BY <1>2, <1>5, NoteStep
<1>6. CASE s.mode = "code" /\ s.ended
  BY <1>2, <1>6, EndedStep
<1>7. CASE s.mode = "code" /\ ~s.ended
  <2>1. CASE t = "$$"
    BY <1>2, <1>7, <2>1, CodeDollar
  <2>2. CASE t = "/*"
    BY <1>2, <1>7, <2>2, CodeBlock
  <2>3. CASE t = "--"
    BY <1>2, <1>7, <2>3, CodeNote
  <2>4. CASE t = ";"
    BY <1>2, <1>7, <2>4, CodeEnds
  <2>5. CASE t \notin {"$$", "/*", "--", ";"}
    <3>1. t # "$$" /\ t # "/*" /\ t # "--" /\ t # ";"
      BY <2>5
    <3> QED BY <1>2, <1>7, <3>1, CodeWord
  <2> QED BY <2>1, <2>2, <2>3, <2>4, <2>5
<1> QED BY <1>1, <1>3, <1>4, <1>5, <1>6, <1>7 DEF r

-----------------------------------------------------------------------------
(* SQL: readers of a line and of a file.                                   *)

UncommentedReading(f, line, block) ==
    f = [i \in 0 .. Len(line) |-> IF i = 0 THEN [block |-> block, text |-> <<>>] ELSE Uncomment(f[i - 1], line[i])]

LEMMA UncommentedReads ==
  ASSUME NEW line \in Seq(STRING), NEW block \in BOOLEAN
  PROVE  \E f \in [0 .. Len(line) -> Bare] :
           /\ f[0] = [block |-> block, text |-> <<>>]
           /\ \A k \in 0 .. Len(line) - 1 : f[k + 1] = Uncomment(f[k], line[k + 1])
           /\ Uncommented(block, line) = f[Len(line)]
<1> DEFINE T == Nat \ {0}
           step == [p \in Bare \X T |-> IF p[2] \in 1 .. Len(line) THEN Uncomment(p[1], line[p[2]]) ELSE p[1]]
<1>1. Len(line) \in Nat
  BY LenProperties
<1>2. \A s \in Bare, i \in 1 .. Len(line) : Uncomment(s, line[i]) \in Bare
  <2>1. ASSUME NEW s \in Bare, NEW i \in 1 .. Len(line) PROVE Uncomment(s, line[i]) \in Bare
    <3>1. line[i] \in STRING
      BY ElementOfSeq
    <3> QED BY <3>1, UncommentStep
  <2> QED BY <2>1
<1>3. [block |-> block, text |-> <<>>] \in Bare
  <2>1. <<>> \in Seq(STRING)
    BY EmptySeq
  <2> QED BY <2>1 DEF Bare
<1>4. step \in [Bare \X T -> Bare]
  <2>1. ASSUME NEW p \in Bare \X T
        PROVE  (IF p[2] \in 1 .. Len(line) THEN Uncomment(p[1], line[p[2]]) ELSE p[1]) \in Bare
    BY <1>2
  <2> QED BY <2>1
<1>5. \A s \in Bare, i \in 1 .. Len(line) : step[<<s, i>>] = Uncomment(s, line[i])
  OBVIOUS
<1> HIDE DEF step
<1>6. PICK f \in [0 .. Len(line) -> Bare] : Follows(f, [block |-> block, text |-> <<>>], step, Len(line))
  BY <1>1, <1>3, <1>4, FollowsExists
<1>7. f = [i \in 0 .. Len(line) |-> IF i = 0 THEN [block |-> block, text |-> <<>>] ELSE step[<<f[i - 1], i>>]]
  BY <1>6 DEF Follows
<1>8. ASSUME NEW i \in 0 .. Len(line)
      PROVE  (IF i = 0 THEN [block |-> block, text |-> <<>>] ELSE step[<<f[i - 1], i>>])
               = (IF i = 0 THEN [block |-> block, text |-> <<>>] ELSE Uncomment(f[i - 1], line[i]))
  <2>1. CASE i = 0
    BY <2>1
  <2>2. CASE i # 0
    <3>1. i \in 1 .. Len(line) /\ i - 1 \in 0 .. Len(line)
      BY <1>1, <2>2
    <3>2. f[i - 1] \in Bare
      BY <1>6, <3>1
    <3> QED BY <1>5, <2>2, <3>1, <3>2
  <2> QED BY <2>1, <2>2
<1>9. \E g : UncommentedReading(g, line, block)
  <2> DEFINE h == [i \in 0 .. Len(line) |-> IF i = 0 THEN [block |-> block, text |-> <<>>] ELSE Uncomment(f[i - 1], line[i])]
  <2>1. f = h
    BY <1>7, <1>8
  <2> QED BY <2>1 DEF UncommentedReading
<1> HIDE DEF step
<1> DEFINE r == CHOOSE g : UncommentedReading(g, line, block)
<1>10. UncommentedReading(r, line, block)
  BY <1>9, Zenon
<1>11. Uncommented(block, line) = r[Len(line)]
  BY DEF UncommentedReading, Uncommented
<1> HIDE DEF r
<1> DEFINE Do(s, i) == Uncomment(s, line[i])
<1>12. r = [i \in 0 .. Len(line) |-> IF i = 0 THEN [block |-> block, text |-> <<>>] ELSE Do(r[i - 1], i)]
  BY <1>10 DEF UncommentedReading
<1> HIDE DEF Do
<1>13. r[0] = [block |-> block, text |-> <<>>]
  BY <1>1, <1>12
<1>14. ASSUME NEW k \in 0 .. Len(line) - 1 PROVE r[k + 1] = Do(r[k], k + 1)
  <2>1. k + 1 \in 0 .. Len(line) /\ k + 1 # 0 /\ (k + 1) - 1 = k
    BY <1>1
  <2> QED BY <1>12, <2>1
<1>15. r \in [0 .. Len(line) -> Bare]
  <2> DEFINE K == {k \in Nat : k <= Len(line) => r[k] \in Bare}
  <2>1. 0 \in K
    BY <1>3, <1>13
  <2>2. ASSUME NEW k \in Nat, k \in K PROVE k + 1 \in K
    <3> SUFFICES ASSUME k + 1 <= Len(line) PROVE r[k + 1] \in Bare
      OBVIOUS
    <3>1. k \in 0 .. Len(line) - 1 /\ k + 1 \in 1 .. Len(line) /\ r[k] \in Bare
      BY <1>1, <2>2
    <3> QED BY <1>2, <1>14, <3>1 DEF Do
  <2> HIDE DEF K
  <2>3. \A k \in Nat : k \in K
    BY <2>1, <2>2, Induction
  <2>4. \A k \in 0 .. Len(line) : r[k] \in Bare
    BY <2>3 DEF K
  <2>5. r = [i \in 0 .. Len(line) |-> r[i]]
    BY <1>12
  <2> QED BY <2>4, <2>5
<1> QED BY <1>11, <1>13, <1>14, <1>15 DEF Do

\* A line as the reader begins it.
SqlBegun(s, n) == [s EXCEPT !.mode = NoteEnded(s.mode), !.line = n, !.ended = FALSE, !.fresh = FALSE]

LEMMA SqlBegunIs ==
  ASSUME NEW s \in SqlSeen, NEW n \in Nat, NEW r, r = SqlBegun(s, n)
  PROVE  /\ r \in SqlSeen /\ r.line = n /\ ~r.ended /\ ~r.fresh /\ (r.tame <=> s.tame)
         /\ r.done = s.done /\ r.open = s.open
         /\ s.mode = "note" => r.mode = "code"
         /\ s.mode # "note" => r.mode = s.mode
<1>1. r = [s EXCEPT !.mode = IF s.mode = "note" THEN "code" ELSE s.mode, !.line = n,
                    !.ended = FALSE, !.fresh = FALSE]
  BY DEF SqlBegun, NoteEnded
<1>2. r \in SqlSeen
  BY <1>1 DEF SqlSeen
<1>3. /\ r.line = n /\ ~r.ended /\ ~r.fresh /\ (r.tame <=> s.tame)
      /\ r.done = s.done /\ r.open = s.open
  BY <1>1 DEF SqlSeen
<1>4. r.mode = IF s.mode = "note" THEN "code" ELSE s.mode
  BY <1>1 DEF SqlSeen
<1> QED BY <1>2, <1>3, <1>4

SqlTokensReading(f, line, before, n) ==
    f = [i \in 0 .. Len(line) |-> IF i = 0 THEN SqlBegun(before, n) ELSE SqlToken(f[i - 1], line[i])]

LEMMA SqlTokensReads ==
  ASSUME NEW line \in Seq(STRING), NEW before \in SqlSeen, NEW n \in Nat
  PROVE  \E f \in [0 .. Len(line) -> SqlSeen] :
           /\ f[0] = SqlBegun(before, n)
           /\ \A k \in 0 .. Len(line) - 1 : f[k + 1] = SqlToken(f[k], line[k + 1])
           /\ SqlTokens(before, n, line) = f[Len(line)]
<1> DEFINE T == Nat \ {0}
           step == [p \in SqlSeen \X T |-> IF p[2] \in 1 .. Len(line) THEN SqlToken(p[1], line[p[2]]) ELSE p[1]]
<1>1. Len(line) \in Nat
  BY LenProperties
<1>2. \A s \in SqlSeen, i \in 1 .. Len(line) : SqlToken(s, line[i]) \in SqlSeen
  <2>1. ASSUME NEW s \in SqlSeen, NEW i \in 1 .. Len(line) PROVE SqlToken(s, line[i]) \in SqlSeen
    <3>1. line[i] \in STRING
      BY ElementOfSeq
    <3> QED BY <3>1, SqlTokenIs
  <2> QED BY <2>1
<1>3. SqlBegun(before, n) \in SqlSeen
  BY SqlBegunIs
<1>4. step \in [SqlSeen \X T -> SqlSeen]
  <2>1. ASSUME NEW p \in SqlSeen \X T
        PROVE  (IF p[2] \in 1 .. Len(line) THEN SqlToken(p[1], line[p[2]]) ELSE p[1]) \in SqlSeen
    BY <1>2
  <2> QED BY <2>1
<1>5. \A s \in SqlSeen, i \in 1 .. Len(line) : step[<<s, i>>] = SqlToken(s, line[i])
  OBVIOUS
<1> HIDE DEF step
<1>6. PICK f \in [0 .. Len(line) -> SqlSeen] : Follows(f, SqlBegun(before, n), step, Len(line))
  BY <1>1, <1>3, <1>4, FollowsExists
<1>7. f = [i \in 0 .. Len(line) |-> IF i = 0 THEN SqlBegun(before, n) ELSE step[<<f[i - 1], i>>]]
  BY <1>6 DEF Follows
<1>8. ASSUME NEW i \in 0 .. Len(line)
      PROVE  (IF i = 0 THEN SqlBegun(before, n) ELSE step[<<f[i - 1], i>>])
               = (IF i = 0 THEN SqlBegun(before, n) ELSE SqlToken(f[i - 1], line[i]))
  <2>1. CASE i = 0
    BY <2>1
  <2>2. CASE i # 0
    <3>1. i \in 1 .. Len(line) /\ i - 1 \in 0 .. Len(line)
      BY <1>1, <2>2
    <3>2. f[i - 1] \in SqlSeen
      BY <1>6, <3>1
    <3> QED BY <1>5, <2>2, <3>1, <3>2
  <2> QED BY <2>1, <2>2
<1>9. \E g : SqlTokensReading(g, line, before, n)
  <2> DEFINE h == [i \in 0 .. Len(line) |-> IF i = 0 THEN SqlBegun(before, n) ELSE SqlToken(f[i - 1], line[i])]
  <2>1. f = h
    BY <1>7, <1>8
  <2> QED BY <2>1 DEF SqlTokensReading
<1> HIDE DEF step
<1> DEFINE r == CHOOSE g : SqlTokensReading(g, line, before, n)
<1>10. SqlTokensReading(r, line, before, n)
  BY <1>9, Zenon
<1>11. SqlTokens(before, n, line) = r[Len(line)]
  BY DEF SqlTokensReading, SqlTokens, SqlBegun
<1> HIDE DEF r
<1> DEFINE Do(s, i) == SqlToken(s, line[i])
<1>12. r = [i \in 0 .. Len(line) |-> IF i = 0 THEN SqlBegun(before, n) ELSE Do(r[i - 1], i)]
  BY <1>10 DEF SqlTokensReading
<1> HIDE DEF Do
<1>13. r[0] = SqlBegun(before, n)
  BY <1>1, <1>12
<1>14. ASSUME NEW k \in 0 .. Len(line) - 1 PROVE r[k + 1] = Do(r[k], k + 1)
  <2>1. k + 1 \in 0 .. Len(line) /\ k + 1 # 0 /\ (k + 1) - 1 = k
    BY <1>1
  <2> QED BY <1>12, <2>1
<1>15. r \in [0 .. Len(line) -> SqlSeen]
  <2> DEFINE K == {k \in Nat : k <= Len(line) => r[k] \in SqlSeen}
  <2>1. 0 \in K
    BY <1>3, <1>13
  <2>2. ASSUME NEW k \in Nat, k \in K PROVE k + 1 \in K
    <3> SUFFICES ASSUME k + 1 <= Len(line) PROVE r[k + 1] \in SqlSeen
      OBVIOUS
    <3>1. k \in 0 .. Len(line) - 1 /\ k + 1 \in 1 .. Len(line) /\ r[k] \in SqlSeen
      BY <1>1, <2>2
    <3> QED BY <1>2, <1>14, <3>1 DEF Do
  <2> HIDE DEF K
  <2>3. \A k \in Nat : k \in K
    BY <2>1, <2>2, Induction
  <2>4. \A k \in 0 .. Len(line) : r[k] \in SqlSeen
    BY <2>3 DEF K
  <2>5. r = [i \in 0 .. Len(line) |-> r[i]]
    BY <1>12
  <2> QED BY <2>4, <2>5
<1> QED BY <1>11, <1>13, <1>14, <1>15 DEF Do

LEMMA LexLineIs ==
  ASSUME NEW s \in Lexed, NEW L \in Seq(STRING)
  PROVE  LexLine(s, L) \in Lexed
<1>0. s.block \in BOOLEAN /\ Undollared(L) \in Seq(STRING) /\ <<>> \in Seq(STRING)
  BY UndollaredIs, EmptySeq DEF Lexed
<1> DEFINE U == Undollared(L)
<1>1. Len(U) \in 0 .. Len(U)
  BY <1>0, LenProperties
<1>2. Uncommented(s.block, U) \in Bare
  <2>1. PICK f \in [0 .. Len(U) -> Bare] : Uncommented(s.block, U) = f[Len(U)]
    BY <1>0, UncommentedReads
  <2> HIDE DEF U
  <2> QED BY <1>1, <2>1
<1> DEFINE u == Uncommented(s.block, U)
<1>3. LexLine(s, L) = IF s.dollar THEN [dollar |-> ~Odd(L), block |-> s.block, text |-> <<>>]
                      ELSE [dollar |-> Odd(L), block |-> u.block, text |-> CutAt(u.text, {"--"})]
  BY DEF LexLine
<1>4. u \in Bare
  BY <1>2
<1> HIDE DEF u, U
<1>5. u.block \in BOOLEAN /\ u.text \in Seq(STRING)
  BY <1>4 DEF Bare
<1>6. CutAt(u.text, {"--"}) \in Seq(STRING)
  BY <1>5, CutAtIs
<1>7. Odd(L) \in BOOLEAN
  BY DEF Odd
<1> QED BY <1>0, <1>3, <1>5, <1>6, <1>7 DEF Lexed

LinesReading(f, ls) ==
    f = [i \in 0 .. Len(ls) |-> IF i = 0 THEN [dollar |-> FALSE, block |-> FALSE, text |-> <<>>] ELSE LexLine(f[i - 1], ls[i])]

LEMMA LinesReads ==
  ASSUME NEW ls, LinesOf(ls)
  PROVE  \E f \in [0 .. Len(ls) -> Lexed] :
           /\ f[0] = [dollar |-> FALSE, block |-> FALSE, text |-> <<>>]
           /\ \A k \in 0 .. Len(ls) - 1 : f[k + 1] = LexLine(f[k], ls[k + 1])
           /\ ExecutableLines(ls) = f
<1> DEFINE T == Nat \ {0}
           step == [p \in Lexed \X T |-> IF p[2] \in 1 .. Len(ls) THEN LexLine(p[1], ls[p[2]]) ELSE p[1]]
<1>1. Len(ls) \in Nat
  BY DEF LinesOf
<1>2. \A s \in Lexed, i \in 1 .. Len(ls) : LexLine(s, ls[i]) \in Lexed
  BY LexLineIs DEF LinesOf
<1>3. [dollar |-> FALSE, block |-> FALSE, text |-> <<>>] \in Lexed
  <2>1. <<>> \in Seq(STRING)
    BY EmptySeq
  <2> QED BY <2>1 DEF Lexed
<1>4. step \in [Lexed \X T -> Lexed]
  <2>1. ASSUME NEW p \in Lexed \X T
        PROVE  (IF p[2] \in 1 .. Len(ls) THEN LexLine(p[1], ls[p[2]]) ELSE p[1]) \in Lexed
    BY <1>2
  <2> QED BY <2>1
<1>5. \A s \in Lexed, i \in 1 .. Len(ls) : step[<<s, i>>] = LexLine(s, ls[i])
  OBVIOUS
<1> HIDE DEF step
<1>6. PICK f \in [0 .. Len(ls) -> Lexed] : Follows(f, [dollar |-> FALSE, block |-> FALSE, text |-> <<>>], step, Len(ls))
  BY <1>1, <1>3, <1>4, FollowsExists
<1>7. f = [i \in 0 .. Len(ls) |-> IF i = 0 THEN [dollar |-> FALSE, block |-> FALSE, text |-> <<>>] ELSE step[<<f[i - 1], i>>]]
  BY <1>6 DEF Follows
<1>8. ASSUME NEW i \in 0 .. Len(ls)
      PROVE  (IF i = 0 THEN [dollar |-> FALSE, block |-> FALSE, text |-> <<>>] ELSE step[<<f[i - 1], i>>])
               = (IF i = 0 THEN [dollar |-> FALSE, block |-> FALSE, text |-> <<>>] ELSE LexLine(f[i - 1], ls[i]))
  <2>1. CASE i = 0
    BY <2>1
  <2>2. CASE i # 0
    <3>1. i \in 1 .. Len(ls) /\ i - 1 \in 0 .. Len(ls)
      BY <1>1, <2>2
    <3>2. f[i - 1] \in Lexed
      BY <1>6, <3>1
    <3> QED BY <1>5, <2>2, <3>1, <3>2
  <2> QED BY <2>1, <2>2
<1>9. \E g : LinesReading(g, ls)
  <2> DEFINE h == [i \in 0 .. Len(ls) |-> IF i = 0 THEN [dollar |-> FALSE, block |-> FALSE, text |-> <<>>] ELSE LexLine(f[i - 1], ls[i])]
  <2>1. f = h
    BY <1>7, <1>8
  <2> QED BY <2>1 DEF LinesReading
<1> HIDE DEF step
<1> DEFINE r == CHOOSE g : LinesReading(g, ls)
<1>10. LinesReading(r, ls)
  BY <1>9, Zenon
<1>11. ExecutableLines(ls) = r
  BY DEF LinesReading, ExecutableLines
<1> HIDE DEF r
<1> DEFINE Do(s, i) == LexLine(s, ls[i])
<1>12. r = [i \in 0 .. Len(ls) |-> IF i = 0 THEN [dollar |-> FALSE, block |-> FALSE, text |-> <<>>] ELSE Do(r[i - 1], i)]
  BY <1>10 DEF LinesReading
<1> HIDE DEF Do
<1>13. r[0] = [dollar |-> FALSE, block |-> FALSE, text |-> <<>>]
  BY <1>1, <1>12
<1>14. ASSUME NEW k \in 0 .. Len(ls) - 1 PROVE r[k + 1] = Do(r[k], k + 1)
  <2>1. k + 1 \in 0 .. Len(ls) /\ k + 1 # 0 /\ (k + 1) - 1 = k
    BY <1>1
  <2> QED BY <1>12, <2>1
<1>15. r \in [0 .. Len(ls) -> Lexed]
  <2> DEFINE K == {k \in Nat : k <= Len(ls) => r[k] \in Lexed}
  <2>1. 0 \in K
    BY <1>3, <1>13
  <2>2. ASSUME NEW k \in Nat, k \in K PROVE k + 1 \in K
    <3> SUFFICES ASSUME k + 1 <= Len(ls) PROVE r[k + 1] \in Lexed
      OBVIOUS
    <3>1. k \in 0 .. Len(ls) - 1 /\ k + 1 \in 1 .. Len(ls) /\ r[k] \in Lexed
      BY <1>1, <2>2
    <3> QED BY <1>2, <1>14, <3>1 DEF Do
  <2> HIDE DEF K
  <2>3. \A k \in Nat : k \in K
    BY <2>1, <2>2, Induction
  <2>4. \A k \in 0 .. Len(ls) : r[k] \in Lexed
    BY <2>3 DEF K
  <2>5. r = [i \in 0 .. Len(ls) |-> r[i]]
    BY <1>12
  <2> QED BY <2>4, <2>5
<1> QED BY <1>11, <1>13, <1>14, <1>15 DEF Do

StatementsReading(f, ls) ==
    f = [i \in 0 .. Len(ls) |-> IF i = 0 THEN [done |-> <<>>, open |-> None] ELSE AddLine(f[i - 1], i, ExecutableLines(ls)[i].text)]

LEMMA StatementsReads ==
  ASSUME NEW ls, LinesOf(ls)
  PROVE  \E f \in [0 .. Len(ls) -> Sofar] :
           /\ f[0] = [done |-> <<>>, open |-> None]
           /\ \A k \in 0 .. Len(ls) - 1 : f[k + 1] = AddLine(f[k], k + 1, ExecutableLines(ls)[k + 1].text)
           /\ Statements(ls) = Ended(f[Len(ls)])
<1> DEFINE T == Nat \ {0}
           step == [p \in Sofar \X T |-> IF p[2] \in 1 .. Len(ls) THEN AddLine(p[1], p[2], ExecutableLines(ls)[p[2]].text) ELSE p[1]]
<1>1. Len(ls) \in Nat
  BY DEF LinesOf
<1>2. \A s \in Sofar, i \in 1 .. Len(ls) : AddLine(s, i, ExecutableLines(ls)[i].text) \in Sofar
  <2>1. ASSUME NEW i \in 1 .. Len(ls) PROVE ExecutableLines(ls)[i].text \in Seq(STRING) /\ i \in Nat
    <3>1. i \in 0 .. Len(ls) /\ i \in Nat
      BY <1>1
    <3>2. ExecutableLines(ls)[i] \in Lexed
      BY <3>1, LinesReads
    <3> QED BY <3>1, <3>2 DEF Lexed
  <2> QED BY <2>1, AddLineIs
<1>3. [done |-> <<>>, open |-> None] \in Sofar
  <2>1. <<>> \in Seq(Statement)
    BY EmptySeq
  <2> QED BY <2>1, NoneIs DEF Sofar
<1>4. step \in [Sofar \X T -> Sofar]
  <2>1. ASSUME NEW p \in Sofar \X T
        PROVE  (IF p[2] \in 1 .. Len(ls) THEN AddLine(p[1], p[2], ExecutableLines(ls)[p[2]].text) ELSE p[1]) \in Sofar
    BY <1>2
  <2> QED BY <2>1
<1>5. \A s \in Sofar, i \in 1 .. Len(ls) : step[<<s, i>>] = AddLine(s, i, ExecutableLines(ls)[i].text)
  OBVIOUS
<1> HIDE DEF step
<1>6. PICK f \in [0 .. Len(ls) -> Sofar] : Follows(f, [done |-> <<>>, open |-> None], step, Len(ls))
  BY <1>1, <1>3, <1>4, FollowsExists
<1>7. f = [i \in 0 .. Len(ls) |-> IF i = 0 THEN [done |-> <<>>, open |-> None] ELSE step[<<f[i - 1], i>>]]
  BY <1>6 DEF Follows
<1>8. ASSUME NEW i \in 0 .. Len(ls)
      PROVE  (IF i = 0 THEN [done |-> <<>>, open |-> None] ELSE step[<<f[i - 1], i>>])
               = (IF i = 0 THEN [done |-> <<>>, open |-> None] ELSE AddLine(f[i - 1], i, ExecutableLines(ls)[i].text))
  <2>1. CASE i = 0
    BY <2>1
  <2>2. CASE i # 0
    <3>1. i \in 1 .. Len(ls) /\ i - 1 \in 0 .. Len(ls)
      BY <1>1, <2>2
    <3>2. f[i - 1] \in Sofar
      BY <1>6, <3>1
    <3> QED BY <1>5, <2>2, <3>1, <3>2
  <2> QED BY <2>1, <2>2
<1>9. \E g : StatementsReading(g, ls)
  <2> DEFINE h == [i \in 0 .. Len(ls) |-> IF i = 0 THEN [done |-> <<>>, open |-> None] ELSE AddLine(f[i - 1], i, ExecutableLines(ls)[i].text)]
  <2>1. f = h
    BY <1>7, <1>8
  <2> QED BY <2>1 DEF StatementsReading
<1> HIDE DEF step
<1> DEFINE r == CHOOSE g : StatementsReading(g, ls)
<1>10. StatementsReading(r, ls)
  BY <1>9, Zenon
<1>11. Statements(ls) = Ended(r[Len(ls)])
  BY DEF StatementsReading, Statements, None
<1> HIDE DEF r
<1> DEFINE Do(s, i) == AddLine(s, i, ExecutableLines(ls)[i].text)
<1>12. r = [i \in 0 .. Len(ls) |-> IF i = 0 THEN [done |-> <<>>, open |-> None] ELSE Do(r[i - 1], i)]
  BY <1>10 DEF StatementsReading
<1> HIDE DEF Do
<1>13. r[0] = [done |-> <<>>, open |-> None]
  BY <1>1, <1>12
<1>14. ASSUME NEW k \in 0 .. Len(ls) - 1 PROVE r[k + 1] = Do(r[k], k + 1)
  <2>1. k + 1 \in 0 .. Len(ls) /\ k + 1 # 0 /\ (k + 1) - 1 = k
    BY <1>1
  <2> QED BY <1>12, <2>1
<1>15. r \in [0 .. Len(ls) -> Sofar]
  <2> DEFINE K == {k \in Nat : k <= Len(ls) => r[k] \in Sofar}
  <2>1. 0 \in K
    BY <1>3, <1>13
  <2>2. ASSUME NEW k \in Nat, k \in K PROVE k + 1 \in K
    <3> SUFFICES ASSUME k + 1 <= Len(ls) PROVE r[k + 1] \in Sofar
      OBVIOUS
    <3>1. k \in 0 .. Len(ls) - 1 /\ k + 1 \in 1 .. Len(ls) /\ r[k] \in Sofar
      BY <1>1, <2>2
    <3> QED BY <1>2, <1>14, <3>1 DEF Do
  <2> HIDE DEF K
  <2>3. \A k \in Nat : k \in K
    BY <2>1, <2>2, Induction
  <2>4. \A k \in 0 .. Len(ls) : r[k] \in Sofar
    BY <2>3 DEF K
  <2>5. r = [i \in 0 .. Len(ls) |-> r[i]]
    BY <1>12
  <2> QED BY <2>4, <2>5
<1> QED BY <1>11, <1>13, <1>14, <1>15 DEF Do

\* Before the first line.
SqlStart == [mode |-> "code", line |-> 0, ended |-> FALSE, fresh |-> FALSE, tame |-> TRUE,
             done |-> <<>>, open |-> None]

SqlFileReading(f, ls) ==
    f = [i \in 0 .. Len(ls) |-> IF i = 0 THEN SqlStart ELSE SqlTokens(f[i - 1], i, ls[i])]

LEMMA SqlFileReads ==
  ASSUME NEW ls, LinesOf(ls)
  PROVE  \E f \in [0 .. Len(ls) -> SqlSeen] :
           /\ f[0] = SqlStart
           /\ \A k \in 0 .. Len(ls) - 1 : f[k + 1] = SqlTokens(f[k], k + 1, ls[k + 1])
           /\ SqlTruth(ls) = f[Len(ls)]
<1> DEFINE T == Nat \ {0}
           step == [p \in SqlSeen \X T |-> IF p[2] \in 1 .. Len(ls) THEN SqlTokens(p[1], p[2], ls[p[2]]) ELSE p[1]]
<1>1. Len(ls) \in Nat
  BY DEF LinesOf
<1>2. \A s \in SqlSeen, i \in 1 .. Len(ls) : SqlTokens(s, i, ls[i]) \in SqlSeen
  <2>1. ASSUME NEW s \in SqlSeen, NEW i \in 1 .. Len(ls) PROVE SqlTokens(s, i, ls[i]) \in SqlSeen
    <3>1. ls[i] \in Seq(STRING) /\ i \in Nat
      BY <1>1 DEF LinesOf
    <3>2. Len(ls[i]) \in 0 .. Len(ls[i])
      BY <3>1, LenProperties
    <3>3. PICK f \in [0 .. Len(ls[i]) -> SqlSeen] : SqlTokens(s, i, ls[i]) = f[Len(ls[i])]
      BY <3>1, SqlTokensReads
    <3> QED BY <3>2, <3>3
  <2> QED BY <2>1
<1>3. SqlStart \in SqlSeen
  <2>1. <<>> \in Seq(Statement)
    BY EmptySeq
  <2> QED BY <2>1, NoneIs DEF SqlSeen, SqlStart
<1>4. step \in [SqlSeen \X T -> SqlSeen]
  <2>1. ASSUME NEW p \in SqlSeen \X T
        PROVE  (IF p[2] \in 1 .. Len(ls) THEN SqlTokens(p[1], p[2], ls[p[2]]) ELSE p[1]) \in SqlSeen
    BY <1>2
  <2> QED BY <2>1
<1>5. \A s \in SqlSeen, i \in 1 .. Len(ls) : step[<<s, i>>] = SqlTokens(s, i, ls[i])
  OBVIOUS
<1> HIDE DEF step
<1>6. PICK f \in [0 .. Len(ls) -> SqlSeen] : Follows(f, SqlStart, step, Len(ls))
  BY <1>1, <1>3, <1>4, FollowsExists
<1>7. f = [i \in 0 .. Len(ls) |-> IF i = 0 THEN SqlStart ELSE step[<<f[i - 1], i>>]]
  BY <1>6 DEF Follows
<1>8. ASSUME NEW i \in 0 .. Len(ls)
      PROVE  (IF i = 0 THEN SqlStart ELSE step[<<f[i - 1], i>>])
               = (IF i = 0 THEN SqlStart ELSE SqlTokens(f[i - 1], i, ls[i]))
  <2>1. CASE i = 0
    BY <2>1
  <2>2. CASE i # 0
    <3>1. i \in 1 .. Len(ls) /\ i - 1 \in 0 .. Len(ls)
      BY <1>1, <2>2
    <3>2. f[i - 1] \in SqlSeen
      BY <1>6, <3>1
    <3> QED BY <1>5, <2>2, <3>1, <3>2
  <2> QED BY <2>1, <2>2
<1>9. \E g : SqlFileReading(g, ls)
  <2> DEFINE h == [i \in 0 .. Len(ls) |-> IF i = 0 THEN SqlStart ELSE SqlTokens(f[i - 1], i, ls[i])]
  <2>1. f = h
    BY <1>7, <1>8
  <2> QED BY <2>1 DEF SqlFileReading
<1> HIDE DEF step
<1> DEFINE r == CHOOSE g : SqlFileReading(g, ls)
<1>10. SqlFileReading(r, ls)
  BY <1>9, Zenon
<1>11. SqlTruth(ls) = r[Len(ls)]
  BY DEF SqlFileReading, SqlTruth, None, SqlStart
<1> HIDE DEF r
<1> DEFINE Do(s, i) == SqlTokens(s, i, ls[i])
<1>12. r = [i \in 0 .. Len(ls) |-> IF i = 0 THEN SqlStart ELSE Do(r[i - 1], i)]
  BY <1>10 DEF SqlFileReading
<1> HIDE DEF Do
<1>13. r[0] = SqlStart
  BY <1>1, <1>12
<1>14. ASSUME NEW k \in 0 .. Len(ls) - 1 PROVE r[k + 1] = Do(r[k], k + 1)
  <2>1. k + 1 \in 0 .. Len(ls) /\ k + 1 # 0 /\ (k + 1) - 1 = k
    BY <1>1
  <2> QED BY <1>12, <2>1
<1>15. r \in [0 .. Len(ls) -> SqlSeen]
  <2> DEFINE K == {k \in Nat : k <= Len(ls) => r[k] \in SqlSeen}
  <2>1. 0 \in K
    BY <1>3, <1>13
  <2>2. ASSUME NEW k \in Nat, k \in K PROVE k + 1 \in K
    <3> SUFFICES ASSUME k + 1 <= Len(ls) PROVE r[k + 1] \in SqlSeen
      OBVIOUS
    <3>1. k \in 0 .. Len(ls) - 1 /\ k + 1 \in 1 .. Len(ls) /\ r[k] \in SqlSeen
      BY <1>1, <2>2
    <3> QED BY <1>2, <1>14, <3>1 DEF Do
  <2> HIDE DEF K
  <2>3. \A k \in Nat : k \in K
    BY <2>1, <2>2, Induction
  <2>4. \A k \in 0 .. Len(ls) : r[k] \in SqlSeen
    BY <2>3 DEF K
  <2>5. r = [i \in 0 .. Len(ls) |-> r[i]]
    BY <1>12
  <2> QED BY <2>4, <2>5
<1> QED BY <1>11, <1>13, <1>14, <1>15 DEF Do

-----------------------------------------------------------------------------
(* SQL: a text that grows by a token.                                      *)

LEMMA Appended ==
  ASSUME NEW X \in Seq(STRING), NEW t \in STRING
  PROVE  /\ Len(X) \in Nat /\ DOMAIN X = 1 .. Len(X)
         /\ Append(X, t) \in Seq(STRING) /\ DOMAIN Append(X, t) = 1 .. Len(X) + 1
         /\ Len(Append(X, t)) = Len(X) + 1 /\ Append(X, t) # <<>>
         /\ \A i \in 1 .. Len(X) : Append(X, t)[i] = X[i]
         /\ Append(X, t)[Len(X) + 1] = t
<1>1. Len(X) \in Nat /\ DOMAIN X = 1 .. Len(X)
  BY LenProperties
<1>2. Append(X, t) \in Seq(STRING) /\ Len(Append(X, t)) = Len(X) + 1 /\ Append(X, t) # <<>>
  BY AppendProperties
<1>3. \A i \in 1 .. Len(X) : Append(X, t)[i] = X[i]
  BY AppendProperties
<1>5. Append(X, t)[Len(X) + 1] = t
  BY AppendProperties
<1>4. DOMAIN Append(X, t) = 1 .. Len(Append(X, t))
  BY <1>2, LenProperties
<1> QED BY <1>1, <1>2, <1>3, <1>4, <1>5

LEMMA AtAppend ==
  ASSUME NEW X \in Seq(STRING), NEW t \in STRING, NEW ts
  PROVE  /\ t \notin ts => At(Append(X, t), ts) = At(X, ts)
         /\ t \in ts => At(Append(X, t), ts) = At(X, ts) \cup {Len(X) + 1}
         /\ At(Append(X, t), ts) = {} <=> At(X, ts) = {} /\ t \notin ts
<1> DEFINE Y == Append(X, t)
<1>1. /\ Len(X) \in Nat /\ DOMAIN X = 1 .. Len(X) /\ DOMAIN Y = 1 .. Len(X) + 1
      /\ Y[Len(X) + 1] = t /\ \A i \in 1 .. Len(X) : Y[i] = X[i]
  BY Appended
<1> HIDE DEF Y
<1>2. At(Y, ts) = {i \in 1 .. Len(X) + 1 : Y[i] \in ts} /\ At(X, ts) = {i \in 1 .. Len(X) : X[i] \in ts}
  BY <1>1 DEF At
<1>3. 1 .. Len(X) + 1 = (1 .. Len(X)) \cup {Len(X) + 1} /\ Len(X) + 1 \notin 1 .. Len(X)
  BY <1>1
<1> QED BY <1>1, <1>2, <1>3 DEF Y

LEMMA CutAppend ==
  ASSUME NEW X \in Seq(STRING), NEW t \in STRING, NEW ts
  PROVE  /\ At(X, ts) = {} => CutAt(X, ts) = X
         /\ At(X, ts) = {} /\ t \notin ts => CutAt(Append(X, t), ts) = Append(X, t)
         /\ At(X, ts) = {} /\ t \in ts => CutAt(Append(X, t), ts) = X
         /\ At(X, ts) # {} => CutAt(Append(X, t), ts) = CutAt(X, ts)
<1> DEFINE Y == Append(X, t)
<1>1. /\ Len(X) \in Nat /\ DOMAIN X = 1 .. Len(X) /\ DOMAIN Y = 1 .. Len(X) + 1 /\ Y \in Seq(STRING)
      /\ Len(Y) = Len(X) + 1 /\ Y[Len(X) + 1] = t /\ \A i \in 1 .. Len(X) : Y[i] = X[i]
  BY Appended
<1>2. (t \notin ts => At(Y, ts) = At(X, ts)) /\ (t \in ts => At(Y, ts) = At(X, ts) \cup {Len(X) + 1})
  BY AtAppend
<1> HIDE DEF Y
<1>3. CASE At(X, ts) = {} /\ t \notin ts
  BY <1>2, <1>3 DEF CutAt, Y
<1>4. CASE At(X, ts) = {} /\ t \in ts
  <2>1. Free(X, ts, 0, Len(X))
    BY <1>1, <1>4, FirstAt
  <2>2. Free(Y, ts, 0, Len(X))
    BY <1>1, <2>1 DEF Free
  <2> DEFINE q == Len(X) + 1
  <2>3. Len(Y) = q /\ q - 1 = Len(X) /\ q \in Nat /\ 1 <= q /\ DOMAIN Y = 1 .. Len(Y)
    BY <1>1
  <2>8. Y[q] \in ts
    <3>1. Y[q] = t /\ t \in ts
      BY <1>1, <1>4
    <3> QED BY <3>1
  <2>4. At(Y, ts) # {} /\ Min(At(Y, ts)) = Len(X) + 1
    <3> HIDE DEF q
    <3>1. Free(Y, ts, 0, q - 1)
      BY <2>2, <2>3
    <3>2. q \in 1 .. Len(Y) /\ Len(Y) \in Nat
      BY <2>3
    <3>3. At(Y, ts) # {} /\ Min(At(Y, ts)) = q
      BY <2>3, <2>8, <3>1, <3>2, FirstAt
    <3> QED BY <3>3 DEF q
  <2>5. Len(X) + 1 \in 1 .. Len(Y) + 1
    BY <1>1
  <2>6. /\ Left(Y, Len(X) + 1) \in Seq(STRING) /\ Len(Left(Y, Len(X) + 1)) = (Len(X) + 1) - 1
        /\ \A j \in 1 .. (Len(X) + 1) - 1 : Left(Y, Len(X) + 1)[j] = Y[j]
    BY <1>1, <2>5, LeftIs
  <2>7. Left(Y, Len(X) + 1) = X
    <3> DEFINE Z == Left(Y, Len(X) + 1)
    <3>1. Z \in Seq(STRING) /\ Len(Z) = Len(X)
      BY <2>3, <2>6
    <3>2. \A j \in 1 .. Len(Z) : Z[j] = X[j]
      BY <1>1, <2>3, <2>6, <3>1
    <3> HIDE DEF Z
    <3>3. Z = X
      BY <3>1, <3>2, SeqEqual
    <3> QED BY <3>3 DEF Z
  <2>9. CutAt(Y, ts) = X /\ CutAt(X, ts) = X
    BY <1>4, <2>4, <2>7 DEF CutAt
  <2> QED BY <1>4, <2>9 DEF Y
<1>5. CASE At(X, ts) # {}
  <2> DEFINE m == Min(At(X, ts))
  <2>1. m \in 1 .. Len(X) /\ X[m] \in ts /\ Free(X, ts, 0, m - 1)
    BY <1>1, <1>5, FirstAt
  <2> HIDE DEF m
  <2>2. m \in 1 .. Len(Y) /\ Y[m] \in ts /\ Free(Y, ts, 0, m - 1)
    BY <1>1, <2>1 DEF Free
  <2>3. Len(Y) \in Nat /\ DOMAIN Y = 1 .. Len(Y)
    BY <1>1
  <2>4. At(Y, ts) # {} /\ Min(At(Y, ts)) = m
    BY <2>2, <2>3, FirstAt
  <2>5. m \in 1 .. Len(X) + 1 /\ m \in 1 .. Len(Y) + 1
    BY <1>1, <2>1
  <2>6. /\ Left(X, m) \in Seq(STRING) /\ Len(Left(X, m)) = m - 1
        /\ \A j \in 1 .. m - 1 : Left(X, m)[j] = X[j]
    BY <2>5, LeftIs
  <2>7. /\ Left(Y, m) \in Seq(STRING) /\ Len(Left(Y, m)) = m - 1
        /\ \A j \in 1 .. m - 1 : Left(Y, m)[j] = Y[j]
    BY <1>1, <2>5, LeftIs
  <2>8. Left(Y, m) = Left(X, m)
    <3> DEFINE P == Left(X, m)
               Q == Left(Y, m)
    <3>1. P \in Seq(STRING) /\ Q \in Seq(STRING) /\ Len(Q) = Len(P) /\ Len(Q) = m - 1
      BY <2>6, <2>7
    <3>2. \A j \in 1 .. Len(Q) : Q[j] = P[j]
      BY <1>1, <2>1, <2>6, <2>7, <3>1
    <3> HIDE DEF P, Q
    <3>3. Q = P
      BY <3>1, <3>2, SeqEqual
    <3> QED BY <3>3 DEF P, Q
  <2>9. CutAt(Y, ts) = CutAt(X, ts)
    BY <1>5, <2>4, <2>8 DEF CutAt, m
  <2> QED BY <1>5, <2>9 DEF Y
<1> QED BY <1>3, <1>4, <1>5 DEF CutAt

\* What of a line is left in front of token q is what the tokens before it leave.
LEMMA UncommentedLeft ==
  ASSUME NEW L \in Seq(STRING), NEW block \in BOOLEAN, NEW q \in 1 .. Len(L),
         NEW g \in [0 .. Len(L) -> Bare], g[0] = [block |-> block, text |-> <<>>],
         \A k \in 0 .. Len(L) - 1 : g[k + 1] = Uncomment(g[k], L[k + 1])
  PROVE  Uncommented(block, Left(L, q)) = g[q - 1]
<1> DEFINE M == Left(L, q)
<1>1. Len(L) \in Nat /\ q \in 1 .. Len(L) + 1
  BY LenProperties
<1>2. M \in Seq(STRING) /\ Len(M) = q - 1 /\ \A j \in 1 .. q - 1 : M[j] = L[j]
  BY <1>1, LeftIs
<1> HIDE DEF M
<1>3. PICK f \in [0 .. Len(M) -> Bare] :
        /\ f[0] = [block |-> block, text |-> <<>>]
        /\ \A k \in 0 .. Len(M) - 1 : f[k + 1] = Uncomment(f[k], M[k + 1])
        /\ Uncommented(block, M) = f[Len(M)]
  BY <1>2, UncommentedReads
<1> DEFINE K == {k \in Nat : k <= q - 1 => f[k] = g[k]}
<1>4. 0 \in K
  BY <1>3
<1>5. ASSUME NEW k \in Nat, k \in K PROVE k + 1 \in K
  <2> SUFFICES ASSUME k + 1 <= q - 1 PROVE f[k + 1] = g[k + 1]
    OBVIOUS
  <2>1. k \in 0 .. Len(M) - 1 /\ k \in 0 .. Len(L) - 1 /\ k + 1 \in 1 .. q - 1 /\ f[k] = g[k]
    BY <1>1, <1>2, <1>5
  <2>2. f[k + 1] = Uncomment(f[k], M[k + 1]) /\ g[k + 1] = Uncomment(g[k], L[k + 1])
    BY <1>3, <2>1
  <2> QED BY <1>2, <2>1, <2>2
<1> HIDE DEF K
<1>6. \A k \in Nat : k \in K
  BY <1>4, <1>5, Induction
<1>7. q - 1 \in Nat /\ q - 1 <= q - 1
  BY <1>1
<1>8. f[q - 1] = g[q - 1]
  BY <1>6, <1>7 DEF K
<1> QED BY <1>2, <1>3, <1>8 DEF M

-----------------------------------------------------------------------------
(* SQL: the statements so far.                                             *)

So(s) == [done |-> s.done, open |-> s.open]
Grown(before, n, x) == [line |-> IF before.open.text = <<>> THEN n ELSE before.open.line,
                        text |-> before.open.text \o x]

LEMMA ConcatNotEmpty ==
  ASSUME NEW p \in Seq(STRING), NEW x \in Seq(STRING), x # <<>>
  PROVE  p \o x # <<>>
BY ConcatEqualIffEmpty

LEMMA AppendToConcat ==
  ASSUME NEW p \in Seq(STRING), NEW x \in Seq(STRING), NEW t \in STRING
  PROVE  Append(p \o x, t) = p \o Append(x, t)
<1> DEFINE c == p \o x
           y == Append(x, t)
           d == p \o y
           a == Append(c, t)
<1>1. Len(p) \in Nat /\ Len(x) \in Nat
  BY LenProperties
<1>2. c \in Seq(STRING) /\ Len(c) = Len(p) + Len(x)
      /\ \A i \in 1 .. Len(p) + Len(x) : c[i] = IF i <= Len(p) THEN p[i] ELSE x[i - Len(p)]
  BY ConcatProperties
<1>3. y \in Seq(STRING) /\ Len(y) = Len(x) + 1 /\ (\A i \in 1 .. Len(x) : y[i] = x[i]) /\ y[Len(x) + 1] = t
  BY Appended
<1> HIDE DEF c, y
<1>4. d \in Seq(STRING) /\ Len(d) = Len(p) + Len(y)
      /\ \A i \in 1 .. Len(p) + Len(y) : d[i] = IF i <= Len(p) THEN p[i] ELSE y[i - Len(p)]
  BY <1>3, ConcatProperties
<1>5. a \in Seq(STRING) /\ Len(a) = Len(c) + 1 /\ (\A i \in 1 .. Len(c) : a[i] = c[i]) /\ a[Len(c) + 1] = t
  BY <1>2, Appended
<1> HIDE DEF d, a
<1>6. ASSUME NEW i \in 1 .. Len(a) PROVE a[i] = d[i]
  <2>1. i \in 1 .. Len(p) + Len(x) \/ i = Len(p) + Len(x) + 1
    BY <1>1, <1>2, <1>5
  <2>2. CASE i \in 1 .. Len(p) + Len(x)
    <3>1. a[i] = IF i <= Len(p) THEN p[i] ELSE x[i - Len(p)]
      BY <1>2, <1>5, <2>2
    <3>2. i \in 1 .. Len(p) + Len(y)
      BY <1>1, <1>3, <2>2
    <3>3. d[i] = IF i <= Len(p) THEN p[i] ELSE y[i - Len(p)]
      BY <1>4, <3>2
    <3>4. i <= Len(p) \/ i - Len(p) \in 1 .. Len(x)
      BY <1>1, <2>2
    <3> QED BY <1>3, <3>1, <3>3, <3>4
  <2>3. CASE i = Len(p) + Len(x) + 1
    <3>1. a[i] = t
      BY <1>2, <1>5, <2>3
    <3>2. i \in 1 .. Len(p) + Len(y) /\ ~(i <= Len(p)) /\ i - Len(p) = Len(x) + 1
      BY <1>1, <1>3, <2>3
    <3>3. d[i] = y[i - Len(p)]
      BY <1>4, <3>2
    <3> QED BY <1>3, <3>1, <3>2, <3>3
  <2> QED BY <2>1, <2>2, <2>3
<1>7. Len(a) = Len(d)
  BY <1>1, <1>2, <1>3, <1>4, <1>5
<1>8. a = d
  BY <1>4, <1>5, <1>6, <1>7, SeqEqual
<1> QED BY <1>8 DEF a, d, c, y

LEMMA SoIs == ASSUME NEW s \in SqlSeen PROVE So(s) \in Sofar /\ So(s).done = s.done /\ So(s).open = s.open
BY DEF SqlSeen, So, Sofar

LEMMA AddLineGrows ==
  ASSUME NEW b \in Sofar, NEW n \in Nat, NEW x \in Seq(STRING)
  PROVE  /\ x = <<>> => AddLine(b, n, x) = b
         /\ At(x, {";"}) # {} => AddLine(b, n, x) = [done |-> Append(b.done, Grown(b, n, x)), open |-> None]
         /\ x # <<>> /\ At(x, {";"}) = {} => AddLine(b, n, x) = [done |-> b.done, open |-> Grown(b, n, x)]
<1>1. AddLine(b, n, x) = IF x = <<>> THEN b
                         ELSE IF At(x, {";"}) # {} THEN [done |-> Append(b.done, Grown(b, n, x)), open |-> None]
                         ELSE [b EXCEPT !.open = Grown(b, n, x)]
  BY DEF AddLine, None, Grown
<1>2. At(<<>>, {";"}) = {}
  BY DEF At
<1>3. [b EXCEPT !.open = Grown(b, n, x)] = [done |-> b.done, open |-> Grown(b, n, x)]
  BY DEF Sofar
<1> QED BY <1>1, <1>2, <1>3

\* The open statement grows by a token as the line does.
LEMMA GrownNext ==
  ASSUME NEW b \in Sofar, NEW n \in Nat, NEW x \in Seq(STRING), At(x, {";"}) = {},
         NEW s \in SqlSeen, s.line = n, So(s) = AddLine(b, n, x), NEW t \in STRING
  PROVE  /\ Longer(s, t) = Grown(b, n, Append(x, t)) /\ s.done = b.done
         /\ t = ";" => AddLine(b, n, Append(x, t)) = [done |-> Append(s.done, Longer(s, t)), open |-> None]
         /\ t # ";" => AddLine(b, n, Append(x, t)) = [done |-> s.done, open |-> Longer(s, t)]
<1> DEFINE y == Append(x, t)
<1>1. y \in Seq(STRING) /\ y # <<>>
  BY Appended
<1>2. (t = ";" => At(y, {";"}) # {}) /\ (t # ";" => At(y, {";"}) = {})
  <2>1. At(y, {";"}) = {} <=> At(x, {";"}) = {} /\ t \notin {";"}
    BY AtAppend
  <2> QED BY <2>1
<1>3. b.open \in Statement /\ b.open.text \in Seq(STRING) /\ b.open.line \in Nat
  BY DEF Sofar, Statement
<1>4. s.done = So(s).done /\ s.open = So(s).open
  BY SoIs
<1>5. Longer(s, t) = [line |-> IF s.open.text = <<>> THEN n ELSE s.open.line, text |-> Append(s.open.text, t)]
  BY DEF Longer
<1>6. Append(b.open.text \o x, t) = b.open.text \o y /\ (x = <<>> => b.open.text \o x = b.open.text)
  <2>1. Append(b.open.text \o x, t) = b.open.text \o y
    BY <1>3, AppendToConcat
  <2>2. b.open.text \o <<>> = b.open.text
    BY <1>3, ConcatEmptySeq
  <2> QED BY <2>1, <2>2
<1>7. Longer(s, t) = Grown(b, n, y) /\ s.done = b.done
  <2>1. CASE x = <<>>
    <3>1. So(s) = b
      BY <2>1, AddLineGrows
    <3>2. s.done = b.done /\ s.open = b.open
      BY <1>4, <3>1
    <3>3. Append(s.open.text, t) = b.open.text \o y
      BY <1>6, <2>1, <3>2
    <3> QED BY <1>5, <3>2, <3>3 DEF Grown
  <2>2. CASE x # <<>>
    <3> DEFINE w == Grown(b, n, x)
    <3>1. So(s) = [done |-> b.done, open |-> w]
      BY <2>2, AddLineGrows
    <3>0. w.text = b.open.text \o x /\ w.line = (IF b.open.text = <<>> THEN n ELSE b.open.line)
      BY DEF Grown
    <3> HIDE DEF w
    <3>2. s.done = b.done /\ s.open = w
      BY <3>1 DEF So
    <3>3. s.open.text = b.open.text \o x /\ s.open.line = (IF b.open.text = <<>> THEN n ELSE b.open.line)
      BY <3>0, <3>2
    <3>4. s.open.text # <<>>
      <4> DEFINE p == b.open.text
      <4>1. p \in Seq(STRING)
        BY <1>3
      <4> HIDE DEF p
      <4>2. p \o x # <<>>
        BY <2>2, <4>1, ConcatNotEmpty
      <4> QED BY <3>3, <4>2 DEF p
    <3>5. Append(s.open.text, t) = b.open.text \o y
      BY <1>6, <3>3
    <3> QED BY <1>5, <3>2, <3>3, <3>4, <3>5 DEF Grown
  <2> QED BY <2>1, <2>2
<1>8. At(y, {";"}) # {} => AddLine(b, n, y) = [done |-> Append(b.done, Grown(b, n, y)), open |-> None]
  BY <1>1, AddLineGrows
<1>9. y # <<>> /\ At(y, {";"}) = {} => AddLine(b, n, y) = [done |-> b.done, open |-> Grown(b, n, y)]
  BY <1>1, AddLineGrows
<1> HIDE DEF y
<1>10. t = ";" => AddLine(b, n, y) = [done |-> Append(s.done, Longer(s, t)), open |-> None]
  BY <1>2, <1>7, <1>8
<1>11. t # ";" => AddLine(b, n, y) = [done |-> s.done, open |-> Longer(s, t)]
  BY <1>1, <1>2, <1>7, <1>9
<1> QED BY <1>7, <1>10, <1>11 DEF y

-----------------------------------------------------------------------------
(* SQL: what the reader has seen of a line.                                *)

\* Outside dollar quotes, where the rules have left u of the line: the statements are those
\* before the line, "b", with what is left.
OpenRow(s, u, b, n) ==
    /\ s.mode # "dollar" /\ s.line = n /\ ~s.fresh
    /\ s.mode = "block" <=> u.block
    /\ s.mode = "note" <=> At(u.text, {"--"}) # {}
    /\ s.ended <=> At(CutAt(u.text, {"--"}), {";"}) # {}
    /\ So(s) = AddLine(b, n, CutAt(u.text, {"--"}))

\* Still a dollar quote that was opened where the rules had left u.
QuotedRow(s, u, b, n) ==
    s.mode = "dollar" /\ s.fresh /\ ~u.block /\ So(s) = AddLine(b, n, CutAt(u.text, {"--"}))

LEMMA SameText ==
  ASSUME NEW s, NEW u, NEW b, NEW n, OpenRow(s, u, b, n), NEW r, NEW v, v.text = u.text,
         r.mode # "dollar", r.line = s.line, ~r.fresh, r.mode = "block" <=> v.block,
         r.mode = "note" <=> s.mode = "note", r.ended <=> s.ended, r.done = s.done, r.open = s.open
  PROVE  OpenRow(r, v, b, n)
<1>1. So(r) = So(s)
  BY DEF So
<1> QED BY <1>1 DEF OpenRow

LEMMA OpenStep ==
  ASSUME NEW s \in SqlSeen, NEW u \in Bare, NEW b \in Sofar, NEW n \in Nat, OpenRow(s, u, b, n),
         NEW t \in STRING, NEW r, r = SqlToken(s, t), r.tame, NEW v, v = Uncomment(u, t)
  PROVE  /\ t # "$$" => OpenRow(r, v, b, n)
         /\ t = "$$" => QuotedRow(r, u, b, n)
<1>0. /\ s.mode \in {"code", "note", "block"} /\ s.line = n /\ ~s.fresh
      /\ u.text \in Seq(STRING) /\ s.done = So(s).done /\ s.open = So(s).open
  BY SoIs DEF OpenRow, SqlSeen, Bare
<1>1. CASE s.mode = "block"
  <2>1. u.block
    BY <1>1 DEF OpenRow
  <2>2. v.text = u.text /\ (v.block <=> t # "*/")
    BY <2>1, UncommentStep
  <2>3. /\ r.line = s.line /\ r.done = s.done /\ r.open = s.open
        /\ (r.fresh <=> s.fresh) /\ (r.ended <=> s.ended)
        /\ t = "*/" => r.mode = "code"
        /\ t # "*/" => r.mode = "block" /\ t # "$$"
    BY <1>1, BlockStep
  <2>4. t # "$$"
    BY <2>3
  <2>5. r.mode # "dollar" /\ (r.mode = "block" <=> v.block) /\ (r.mode = "note" <=> s.mode = "note")
    BY <1>1, <2>2, <2>3
  <2>6. OpenRow(r, v, b, n)
    BY <1>0, <2>2, <2>3, <2>5, SameText
  <2> QED BY <2>4, <2>6
<1>2. CASE s.mode = "note"
  <2>1. ~u.block /\ At(u.text, {"--"}) # {}
    BY <1>2 DEF OpenRow
  <2>2. /\ r.line = s.line /\ r.done = s.done /\ r.open = s.open
        /\ (r.fresh <=> s.fresh) /\ (r.ended <=> s.ended)
        /\ r.mode = "note" /\ t # "$$" /\ t # "/*"
    BY <1>2, NoteStep
  <2>3. v.text = Append(u.text, t) /\ ~v.block
    BY <2>1, <2>2, UncommentStep
  <2>4. At(Append(u.text, t), {"--"}) # {}
    BY <1>0, <2>1, AtAppend
  <2>5. CutAt(Append(u.text, t), {"--"}) = CutAt(u.text, {"--"})
    BY <1>0, <2>1, CutAppend
  <2>6. So(r) = So(s)
    BY <2>2 DEF So
  <2>7. OpenRow(r, v, b, n)
    BY <1>0, <2>2, <2>3, <2>4, <2>5, <2>6 DEF OpenRow
  <2> QED BY <2>2, <2>7
<1>3. CASE s.mode = "code"
  <2>1. ~u.block /\ At(u.text, {"--"}) = {}
    BY <1>3 DEF OpenRow
  <2>2. ~s.ended
    BY <1>3, EndedStep
  <2>3. CutAt(u.text, {"--"}) = u.text
    BY <2>1 DEF CutAt
  <2>4. At(u.text, {";"}) = {} /\ So(s) = AddLine(b, n, u.text)
    BY <2>2, <2>3 DEF OpenRow
  <2>5. CASE t = "$$"
    <3>1. r.mode = "dollar" /\ r.fresh /\ r.done = s.done /\ r.open = s.open
      BY <1>3, <2>2, <2>5, CodeDollar
    <3>2. So(r) = So(s)
      BY <3>1 DEF So
    <3> QED BY <2>1, <2>3, <2>4, <2>5, <3>1, <3>2 DEF QuotedRow
  <2>6. CASE t = "/*"
    <3>1. r.mode = "block" /\ ~r.ended /\ (r.fresh <=> s.fresh) /\ r.done = s.done /\ r.open = s.open /\ r.line = s.line
      BY <1>3, <2>2, <2>6, CodeBlock
    <3>2. v.text = u.text /\ v.block
      BY <2>1, <2>6, UncommentStep
    <3>3. OpenRow(r, v, b, n)
      BY <1>0, <1>3, <2>2, <3>1, <3>2, SameText
    <3> QED BY <2>6, <3>3
  <2>7. CASE t = "--"
    <3>1. r.mode = "note" /\ ~r.ended /\ (r.fresh <=> s.fresh) /\ r.done = s.done /\ r.open = s.open /\ r.line = s.line
      BY <1>3, <2>2, <2>7, CodeNote
    <3>2. v.text = Append(u.text, t) /\ ~v.block
      BY <2>1, <2>7, UncommentStep
    <3>3. CutAt(Append(u.text, t), {"--"}) = u.text
      BY <1>0, <2>1, <2>7, CutAppend
    <3>4. At(Append(u.text, t), {"--"}) # {}
      BY <1>0, <2>7, AtAppend
    <3>5. So(r) = So(s)
      BY <3>1 DEF So
    <3>6. OpenRow(r, v, b, n)
      BY <1>0, <2>4, <3>1, <3>2, <3>3, <3>4, <3>5 DEF OpenRow
    <3> QED BY <2>7, <3>6
  <2>8. CASE t \notin {"$$", "/*", "--"}
    <3>1. v.text = Append(u.text, t) /\ ~v.block
      BY <2>1, <2>8, UncommentStep
    <3>2. CutAt(Append(u.text, t), {"--"}) = Append(u.text, t)
      BY <1>0, <2>1, <2>8, CutAppend
    <3>3. At(Append(u.text, t), {"--"}) = {}
      BY <1>0, <2>1, <2>8, AtAppend
    <3>4. CASE t = ";"
      <4>1. /\ r.mode = "code" /\ r.ended /\ (r.fresh <=> s.fresh) /\ r.line = s.line
            /\ r.done = Append(s.done, Longer(s, t)) /\ r.open = None
        BY <1>3, <2>2, <3>4, CodeEnds
      <4>2. At(Append(u.text, t), {";"}) # {}
        BY <1>0, <3>4, AtAppend
      <4>3. AddLine(b, n, Append(u.text, t)) = [done |-> Append(s.done, Longer(s, t)), open |-> None]
        BY <1>0, <2>4, <3>4, GrownNext
      <4>4. So(r) = AddLine(b, n, Append(u.text, t))
        BY <4>1, <4>3 DEF So
      <4>5. OpenRow(r, v, b, n)
        BY <1>0, <3>1, <3>2, <3>3, <4>1, <4>2, <4>4 DEF OpenRow
      <4> QED BY <2>8, <4>5
    <3>5. CASE t # ";"
      <4>1. /\ r.mode = "code" /\ ~r.ended /\ (r.fresh <=> s.fresh) /\ r.line = s.line
            /\ r.done = s.done /\ r.open = Longer(s, t)
        <5>1. t # "$$" /\ t # "/*" /\ t # "--" /\ t # ";"
          BY <2>8, <3>5
        <5>2. r.mode = "code"
          BY <1>3, <2>2, <5>1, CodeStays
        <5>3. ~r.ended
          BY <1>3, <2>2, <5>1, CodeWord
        <5>4. (r.fresh <=> s.fresh) /\ r.line = s.line /\ r.done = s.done /\ r.open = Longer(s, t)
          BY <1>3, <2>2, <5>1, CodeWord
        <5> QED BY <5>2, <5>3, <5>4
      <4>2. At(Append(u.text, t), {";"}) = {}
        BY <1>0, <2>4, <3>5, AtAppend
      <4>3. AddLine(b, n, Append(u.text, t)) = [done |-> s.done, open |-> Longer(s, t)]
        BY <1>0, <2>4, <3>5, GrownNext
      <4>4. So(r) = AddLine(b, n, Append(u.text, t))
        BY <4>1, <4>3 DEF So
      <4>5. OpenRow(r, v, b, n)
        BY <1>0, <3>1, <3>2, <3>3, <4>1, <4>2, <4>4 DEF OpenRow
      <4> QED BY <2>8, <4>5
    <3> QED BY <3>4, <3>5
  <2> QED BY <2>5, <2>6, <2>7, <2>8
<1> QED BY <1>0, <1>1, <1>2, <1>3

LEMMA QuotedStep ==
  ASSUME NEW s \in SqlSeen, NEW u, NEW b, NEW n, QuotedRow(s, u, b, n),
         NEW t \in STRING, NEW r, r = SqlToken(s, t), r.tame
  PROVE  t # "$$" /\ QuotedRow(r, u, b, n)
<1>1. s.mode = "dollar" /\ s.fresh
  BY DEF QuotedRow
<1>2. r.done = s.done /\ r.open = s.open /\ (r.fresh <=> s.fresh)
  BY <1>1, DollarStep
<1>3. t # "$$"
  BY <1>1, DollarStep
<1>4. r.mode = "dollar"
  BY <1>1, <1>3, DollarStep
<1>5. So(r) = So(s)
  BY <1>2 DEF So
<1> QED BY <1>2, <1>3, <1>4, <1>5 DEF QuotedRow

-----------------------------------------------------------------------------
(* SQL: dollar quotes on a line.                                           *)

LEMMA NoDollar ==
  ASSUME NEW L \in Seq(STRING), \A j \in 1 .. Len(L) : L[j] # "$$"
  PROVE  ~Odd(L) /\ Undollared(L) = L
<1>1. DOMAIN L = 1 .. Len(L)
  BY LenProperties
<1>2. At(L, {"$$"}) = {}
  BY <1>1 DEF At
<1>3. Cardinality(At(L, {"$$"})) = 0
  BY <1>2, FS_EmptySet
<1>4. ~Odd(L)
  BY <1>3 DEF Odd
<1> QED BY <1>4 DEF Undollared

LEMMA OneDollar ==
  ASSUME NEW L \in Seq(STRING), NEW q \in 1 .. Len(L), L[q] = "$$",
         \A j \in 1 .. Len(L) : j # q => L[j] # "$$"
  PROVE  Odd(L) /\ Undollared(L) = Left(L, q)
<1>1. DOMAIN L = 1 .. Len(L) /\ Len(L) \in Nat
  BY LenProperties
<1>2. At(L, {"$$"}) = {q}
  BY <1>1 DEF At
<1>3. Cardinality(At(L, {"$$"})) = 1
  BY <1>2, FS_Singleton
<1>4. Odd(L)
  BY <1>3 DEF Odd
<1>5. Free(L, {"$$"}, 0, q - 1) /\ L[q] \in {"$$"}
  BY <1>1 DEF Free
<1>6. At(L, {"$$"}) # {} /\ Min(At(L, {"$$"})) = q
  BY <1>1, <1>5, FirstAt
<1>7. CutAt(L, {"$$"}) = Left(L, q)
  BY <1>6 DEF CutAt
<1> QED BY <1>4, <1>7 DEF Undollared

\* A line that begins outside dollar quotes.
LEMMA OpenLine ==
  ASSUME NEW s \in SqlSeen, s.mode # "dollar", NEW n \in Nat, NEW L \in Seq(STRING),
         NEW r, r = SqlTokens(s, n, L), r.tame, NEW block \in BOOLEAN, block <=> s.mode = "block",
         NEW u, u = Uncommented(block, Undollared(L))
  PROVE  /\ r.mode = "dollar" <=> Odd(L)
         /\ r.mode = "block" <=> u.block
         /\ So(r) = AddLine(So(s), n, CutAt(u.text, {"--"}))
<1> DEFINE b == So(s)
<1>0. Len(L) \in Nat /\ b \in Sofar
  BY LenProperties, SoIs
<1>1. PICK f \in [0 .. Len(L) -> SqlSeen] :
        /\ f[0] = SqlBegun(s, n)
        /\ \A k \in 0 .. Len(L) - 1 : f[k + 1] = SqlToken(f[k], L[k + 1])
        /\ SqlTokens(s, n, L) = f[Len(L)]
  BY SqlTokensReads
<1>2. PICK g \in [0 .. Len(L) -> Bare] :
        /\ g[0] = [block |-> block, text |-> <<>>]
        /\ \A k \in 0 .. Len(L) - 1 : g[k + 1] = Uncomment(g[k], L[k + 1])
        /\ Uncommented(block, L) = g[Len(L)]
  BY UncommentedReads
<1> DEFINE Outside(k) == (\A j \in 1 .. k : L[j] # "$$") /\ OpenRow(f[k], g[k], b, n)
           Since(k, q) == /\ L[q] = "$$" /\ (\A j \in 1 .. k : j # q => L[j] # "$$")
                          /\ QuotedRow(f[k], g[q - 1], b, n)
           K == {k \in Nat : k <= Len(L) /\ f[k].tame => Outside(k) \/ \E q \in 1 .. k : Since(k, q)}
<1>3. OpenRow(f[0], g[0], b, n)
  <2>1. /\ f[0].line = n /\ ~f[0].ended /\ ~f[0].fresh /\ f[0].done = s.done /\ f[0].open = s.open
        /\ s.mode = "note" => f[0].mode = "code"
        /\ s.mode # "note" => f[0].mode = s.mode
    BY <1>1, SqlBegunIs
  <2>2. So(f[0]) = b
    BY <2>1 DEF So
  <2>3. At(<<>>, {"--"}) = {} /\ At(<<>>, {";"}) = {} /\ <<>> \in Seq(STRING)
    BY EmptySeq DEF At
  <2>4. CutAt(<<>>, {"--"}) = <<>>
    BY <2>3 DEF CutAt
  <2>5. AddLine(b, n, <<>>) = b
    BY <1>0, <2>3, AddLineGrows
  <2>6. g[0].text = <<>> /\ g[0].block = block
    BY <1>2
  <2>7. f[0].mode = "block" <=> g[0].block
    BY <2>1, <2>6
  <2>8. f[0].mode # "dollar" /\ f[0].mode # "note"
    BY <2>1
  <2> HIDE DEF b
  <2> QED BY <2>1, <2>2, <2>3, <2>4, <2>5, <2>6, <2>7, <2>8 DEF OpenRow
<1>4. 0 \in K
  BY <1>3
<1>5. ASSUME NEW k \in Nat, k \in K PROVE k + 1 \in K
  <2> SUFFICES ASSUME k + 1 <= Len(L), f[k + 1].tame
               PROVE  Outside(k + 1) \/ \E q \in 1 .. k + 1 : Since(k + 1, q)
    OBVIOUS
  <2>1. /\ k \in 0 .. Len(L) - 1 /\ k \in 0 .. Len(L) /\ k + 1 \in 1 .. Len(L) /\ k + 1 \in 0 .. Len(L)
        /\ k <= Len(L) /\ 1 .. k + 1 = (1 .. k) \cup {k + 1} /\ k + 1 \in 1 .. k + 1 /\ (k + 1) - 1 = k
    BY <1>0
  <2>2. L[k + 1] \in STRING
    BY <2>1, ElementOfSeq
  <2>3. f[k + 1] = SqlToken(f[k], L[k + 1]) /\ g[k + 1] = Uncomment(g[k], L[k + 1])
    BY <1>1, <1>2, <2>1
  <2>4. f[k] \in SqlSeen /\ g[k] \in Bare
    BY <1>1, <1>2, <2>1
  <2>5. f[k].tame
    BY <2>2, <2>3, <2>4, SqlTokenIs
  <2>6. CASE Outside(k)
    <3> HIDE DEF b
    <3>1. OpenRow(f[k], g[k], b, n)
      BY <2>6
    <3>2. /\ L[k + 1] # "$$" => OpenRow(f[k + 1], g[k + 1], b, n)
          /\ L[k + 1] = "$$" => QuotedRow(f[k + 1], g[k], b, n)
      BY <1>0, <2>2, <2>3, <2>4, <3>1, OpenStep
    <3>3. L[k + 1] # "$$" => Outside(k + 1)
      BY <2>1, <2>6, <3>2
    <3>4. L[k + 1] = "$$" => Since(k + 1, k + 1)
      <4> SUFFICES ASSUME L[k + 1] = "$$" PROVE Since(k + 1, k + 1)
        OBVIOUS
      <4>1. \A j \in 1 .. k + 1 : j # k + 1 => L[j] # "$$"
        BY <2>1, <2>6
      <4>2. QuotedRow(f[k + 1], g[(k + 1) - 1], b, n)
        BY <2>1, <3>2
      <4> QED BY <4>1, <4>2
    <3> QED BY <2>1, <3>3, <3>4
  <2>7. CASE \E q \in 1 .. k : Since(k, q)
    <3> HIDE DEF b
    <3>1. PICK q \in 1 .. k : Since(k, q)
      BY <2>7
    <3>2. QuotedRow(f[k], g[q - 1], b, n)
      BY <3>1
    <3>3. L[k + 1] # "$$" /\ QuotedRow(f[k + 1], g[q - 1], b, n)
      BY <2>2, <2>3, <2>4, <3>2, QuotedStep
    <3>6. q \in 1 .. k + 1 /\ L[q] = "$$" /\ \A j \in 1 .. k + 1 : j # q => L[j] # "$$"
      BY <2>1, <3>1, <3>3
    <3> QED BY <3>3, <3>6
  <2> QED BY <1>5, <2>1, <2>5, <2>6, <2>7
<1> HIDE DEF K, Outside, Since, b
<1>6. \A k \in Nat : k \in K
  BY <1>4, <1>5, Induction
<1>7. r = f[Len(L)] /\ Len(L) <= Len(L)
  BY <1>0, <1>1
<1>8. Outside(Len(L)) \/ \E q \in 1 .. Len(L) : Since(Len(L), q)
  BY <1>0, <1>6, <1>7 DEF K
<1>9. CASE Outside(Len(L))
  <2>1. \A j \in 1 .. Len(L) : L[j] # "$$"
    BY <1>9 DEF Outside
  <2>2. ~Odd(L) /\ Undollared(L) = L
    BY <2>1, NoDollar
  <2>3. u = g[Len(L)]
    BY <1>2, <2>2
  <2>4. OpenRow(r, u, b, n)
    BY <1>7, <1>9, <2>3 DEF Outside
  <2> QED BY <2>2, <2>4 DEF OpenRow, b
<1>10. CASE \E q \in 1 .. Len(L) : Since(Len(L), q)
  <2>1. PICK q \in 1 .. Len(L) : Since(Len(L), q)
    BY <1>10
  <2>2. L[q] = "$$" /\ \A j \in 1 .. Len(L) : j # q => L[j] # "$$"
    BY <2>1 DEF Since
  <2>3. Odd(L) /\ Undollared(L) = Left(L, q)
    BY <2>2, OneDollar
  <2>4. Uncommented(block, Left(L, q)) = g[q - 1]
    BY <1>2, UncommentedLeft
  <2>5. u = g[q - 1]
    BY <2>3, <2>4
  <2>6. QuotedRow(r, u, b, n)
    BY <1>7, <2>1, <2>5 DEF Since
  <2> QED BY <2>3, <2>6 DEF QuotedRow, b
<1> QED BY <1>8, <1>9, <1>10

\* A line that begins within a dollar quote.
LEMMA DollarLine ==
  ASSUME NEW s \in SqlSeen, s.mode = "dollar", NEW n \in Nat, NEW L \in Seq(STRING),
         NEW r, r = SqlTokens(s, n, L), r.tame
  PROVE  /\ r.mode = "dollar" <=> ~Odd(L)
         /\ r.mode # "block" /\ So(r) = So(s)
<1>0. Len(L) \in Nat
  BY LenProperties
<1>1. PICK f \in [0 .. Len(L) -> SqlSeen] :
        /\ f[0] = SqlBegun(s, n)
        /\ \A k \in 0 .. Len(L) - 1 : f[k + 1] = SqlToken(f[k], L[k + 1])
        /\ SqlTokens(s, n, L) = f[Len(L)]
  BY SqlTokensReads
<1> DEFINE Still(k) == /\ \A j \in 1 .. k : L[j] # "$$"
                       /\ f[k].mode = "dollar" /\ ~f[k].fresh
           Behind(k) == /\ k \in 1 .. Len(L) /\ L[k] = "$$" /\ \A j \in 1 .. k : j # k => L[j] # "$$"
                        /\ f[k].mode = "code" /\ f[k].ended
           K == {k \in Nat : k <= Len(L) /\ f[k].tame =>
                    f[k].done = s.done /\ f[k].open = s.open /\ (Still(k) \/ Behind(k))}
<1>2. 0 \in K
  <2>1. ~f[0].fresh /\ f[0].done = s.done /\ f[0].open = s.open
    BY <1>1, SqlBegunIs
  <2>2. f[0].mode = "dollar"
    <3>1. ASSUME NEW w, w = SqlBegun(s, n) PROVE w.mode = "dollar"
      BY <3>1, SqlBegunIs
    <3> QED BY <1>1, <3>1
  <2> QED BY <2>1, <2>2
<1>3. ASSUME NEW k \in Nat, k \in K PROVE k + 1 \in K
  <2> SUFFICES ASSUME k + 1 <= Len(L), f[k + 1].tame
               PROVE  f[k + 1].done = s.done /\ f[k + 1].open = s.open /\ (Still(k + 1) \/ Behind(k + 1))
    OBVIOUS
  <2>1. /\ k \in 0 .. Len(L) - 1 /\ k \in 0 .. Len(L) /\ k + 1 \in 1 .. Len(L)
        /\ k <= Len(L) /\ 1 .. k + 1 = (1 .. k) \cup {k + 1}
    BY <1>0
  <2>2. L[k + 1] \in STRING
    BY <2>1, ElementOfSeq
  <2>3. f[k + 1] = SqlToken(f[k], L[k + 1])
    BY <1>1, <2>1
  <2>4. f[k] \in SqlSeen
    BY <1>1, <2>1
  <2>5. f[k].tame
    BY <2>2, <2>3, <2>4, SqlTokenIs
  <2>6. f[k].done = s.done /\ f[k].open = s.open /\ (Still(k) \/ Behind(k))
    BY <1>3, <2>1, <2>5
  <2>7. CASE Still(k)
    <3>1. /\ f[k + 1].done = f[k].done /\ f[k + 1].open = f[k].open /\ (f[k + 1].fresh <=> f[k].fresh)
          /\ L[k + 1] = "$$" => f[k + 1].mode = "code" /\ f[k + 1].ended
          /\ L[k + 1] # "$$" => f[k + 1].mode = "dollar"
      BY <2>2, <2>3, <2>4, <2>7, DollarStep
    <3>2. L[k + 1] # "$$" => Still(k + 1)
      <4> SUFFICES ASSUME L[k + 1] # "$$" PROVE Still(k + 1)
        OBVIOUS
      <4>1. \A j \in 1 .. k + 1 : L[j] # "$$"
        BY <2>1, <2>7
      <4> QED BY <2>7, <3>1, <4>1
    <3>3. L[k + 1] = "$$" => Behind(k + 1)
      <4> SUFFICES ASSUME L[k + 1] = "$$" PROVE Behind(k + 1)
        OBVIOUS
      <4>1. \A j \in 1 .. k + 1 : j # k + 1 => L[j] # "$$"
        BY <2>1, <2>7
      <4> QED BY <2>1, <3>1, <4>1
    <3> QED BY <2>6, <3>1, <3>2, <3>3
  <2>8. CASE Behind(k)
    BY <2>2, <2>3, <2>4, <2>8, EndedStep
  <2> QED BY <2>6, <2>7, <2>8
<1> HIDE DEF K, Still, Behind
<1>4. \A k \in Nat : k \in K
  BY <1>2, <1>3, Induction
<1>5. r = f[Len(L)] /\ Len(L) <= Len(L)
  BY <1>0, <1>1
<1>6. r.done = s.done /\ r.open = s.open /\ (Still(Len(L)) \/ Behind(Len(L)))
  BY <1>0, <1>4, <1>5 DEF K
<1>7. So(r) = So(s)
  BY <1>6 DEF So
<1>8. CASE Still(Len(L))
  <2>1. (\A j \in 1 .. Len(L) : L[j] # "$$") /\ r.mode = "dollar"
    BY <1>5, <1>8 DEF Still
  <2>2. ~Odd(L)
    BY <2>1, NoDollar
  <2> QED BY <1>7, <2>1, <2>2
<1>9. CASE Behind(Len(L))
  <2>1. /\ Len(L) \in 1 .. Len(L) /\ L[Len(L)] = "$$" /\ r.mode = "code"
        /\ \A j \in 1 .. Len(L) : j # Len(L) => L[j] # "$$"
    BY <1>5, <1>9 DEF Behind
  <2>2. Odd(L)
    BY <2>1, OneDollar
  <2> QED BY <1>7, <2>1, <2>2
<1> QED BY <1>6, <1>8, <1>9

-----------------------------------------------------------------------------
(* SQL: line after line.                                                   *)

LEMMA LineStaysTame ==
  ASSUME NEW s \in SqlSeen, NEW n \in Nat, NEW L \in Seq(STRING), SqlTokens(s, n, L).tame
  PROVE  s.tame
<1>0. Len(L) \in Nat
  BY LenProperties
<1>1. PICK f \in [0 .. Len(L) -> SqlSeen] :
        /\ f[0] = SqlBegun(s, n)
        /\ \A k \in 0 .. Len(L) - 1 : f[k + 1] = SqlToken(f[k], L[k + 1])
        /\ SqlTokens(s, n, L) = f[Len(L)]
  BY SqlTokensReads
<1> DEFINE K == {k \in Nat : k <= Len(L) /\ f[k].tame => s.tame}
<1>2. 0 \in K
  <2>1. f[0].tame <=> s.tame
    BY <1>1, SqlBegunIs
  <2> QED BY <2>1
<1>3. ASSUME NEW k \in Nat, k \in K PROVE k + 1 \in K
  <2> SUFFICES ASSUME k + 1 <= Len(L), f[k + 1].tame PROVE s.tame
    OBVIOUS
  <2>1. k \in 0 .. Len(L) - 1 /\ k \in 0 .. Len(L) /\ k + 1 \in 1 .. Len(L) /\ k <= Len(L)
    BY <1>0
  <2>2. L[k + 1] \in STRING /\ f[k] \in SqlSeen /\ f[k + 1] = SqlToken(f[k], L[k + 1])
    BY <1>1, <2>1, ElementOfSeq
  <2>3. f[k].tame
    BY <2>2, SqlTokenIs
  <2> QED BY <1>3, <2>1, <2>3
<1> HIDE DEF K
<1>4. Len(L) \in K
  BY <1>0, <1>2, <1>3, Induction
<1> QED BY <1>0, <1>1, <1>4 DEF K

\* The rules and the reader are in the same place, with the same statements.
InStep(x, b, s) == (x.dollar <=> s.mode = "dollar") /\ (x.block <=> s.mode = "block") /\ b = So(s)

LEMMA LineInStep ==
  ASSUME NEW x \in Lexed, NEW b \in Sofar, NEW s \in SqlSeen, InStep(x, b, s), NEW n \in Nat,
         NEW L \in Seq(STRING), NEW r, r = SqlTokens(s, n, L), r.tame
  PROVE  InStep(LexLine(x, L), AddLine(b, n, LexLine(x, L).text), r)
<1> DEFINE y == LexLine(x, L)
           u == Uncommented(x.block, Undollared(L))
<1>0. x.dollar \in BOOLEAN /\ x.block \in BOOLEAN /\ (x.dollar <=> s.mode = "dollar")
      /\ (x.block <=> s.mode = "block") /\ b = So(s)
  BY DEF InStep, Lexed
<1>1. CASE x.dollar
  <2>1. y = [dollar |-> ~Odd(L), block |-> x.block, text |-> <<>>]
    BY <1>1 DEF LexLine
  <2> HIDE DEF y
  <2>2. s.mode = "dollar"
    BY <1>0, <1>1
  <2>3. (r.mode = "dollar" <=> ~Odd(L)) /\ r.mode # "block" /\ So(r) = So(s)
    BY <2>2, DollarLine
  <2>4. y.dollar = ~Odd(L) /\ y.block = x.block /\ y.text = <<>>
    BY <2>1
  <2>5. ~x.block
    BY <1>0, <2>2
  <2>6. AddLine(b, n, <<>>) = b
    <3>1. <<>> \in Seq(STRING)
      BY EmptySeq
    <3> QED BY <3>1, AddLineGrows
  <2>7. y.dollar <=> r.mode = "dollar"
    BY <2>3, <2>4
  <2>8. y.block <=> r.mode = "block"
    BY <2>3, <2>4, <2>5
  <2> QED BY <1>0, <2>3, <2>4, <2>6, <2>7, <2>8 DEF InStep, y
<1>2. CASE ~x.dollar
  <2>1. y = [dollar |-> Odd(L), block |-> u.block, text |-> CutAt(u.text, {"--"})]
    BY <1>2 DEF LexLine
  <2>2. s.mode # "dollar"
    BY <1>0, <1>2
  <2>3. u = Uncommented(x.block, Undollared(L))
    OBVIOUS
  <2> HIDE DEF y, u
  <2>4. /\ r.mode = "dollar" <=> Odd(L)
        /\ r.mode = "block" <=> u.block
        /\ So(r) = AddLine(So(s), n, CutAt(u.text, {"--"}))
    BY <1>0, <2>2, <2>3, OpenLine
  <2>5. y.dollar = Odd(L) /\ y.block = u.block /\ y.text = CutAt(u.text, {"--"})
    BY <2>1
  <2>6. (y.dollar <=> r.mode = "dollar") /\ (y.block <=> r.mode = "block")
    BY <2>4, <2>5
  <2>7. AddLine(b, n, y.text) = So(r)
    BY <1>0, <2>4, <2>5
  <2> QED BY <2>6, <2>7 DEF InStep, y
<1> QED BY <1>1, <1>2

LEMMA FileInStep ==
  ASSUME NEW ls, LinesOf(ls), SqlTruth(ls).tame
  PROVE  Statements(ls) = Ended(SqlTruth(ls))
<1>0. Len(ls) \in Nat /\ \A i \in 1 .. Len(ls) : ls[i] \in Seq(STRING)
  BY DEF LinesOf
<1>1. PICK lex \in [0 .. Len(ls) -> Lexed] :
        /\ lex[0] = [dollar |-> FALSE, block |-> FALSE, text |-> <<>>]
        /\ \A k \in 0 .. Len(ls) - 1 : lex[k + 1] = LexLine(lex[k], ls[k + 1])
        /\ ExecutableLines(ls) = lex
  BY LinesReads
<1>2. PICK upto \in [0 .. Len(ls) -> Sofar] :
        /\ upto[0] = [done |-> <<>>, open |-> None]
        /\ \A k \in 0 .. Len(ls) - 1 : upto[k + 1] = AddLine(upto[k], k + 1, ExecutableLines(ls)[k + 1].text)
        /\ Statements(ls) = Ended(upto[Len(ls)])
  BY StatementsReads
<1>3. PICK truth \in [0 .. Len(ls) -> SqlSeen] :
        /\ truth[0] = SqlStart
        /\ \A k \in 0 .. Len(ls) - 1 : truth[k + 1] = SqlTokens(truth[k], k + 1, ls[k + 1])
        /\ SqlTruth(ls) = truth[Len(ls)]
  BY SqlFileReads
<1> DEFINE K == {k \in Nat : k <= Len(ls) /\ truth[k].tame => InStep(lex[k], upto[k], truth[k])}
<1>4. 0 \in K
  <2>1. lex[0].dollar = FALSE /\ lex[0].block = FALSE
    BY <1>1
  <2>2. truth[0].mode = "code" /\ So(truth[0]) = upto[0]
    BY <1>2, <1>3 DEF SqlStart, So
  <2> QED BY <2>1, <2>2 DEF InStep
<1>5. ASSUME NEW k \in Nat, k \in K PROVE k + 1 \in K
  <2> SUFFICES ASSUME k + 1 <= Len(ls), truth[k + 1].tame PROVE InStep(lex[k + 1], upto[k + 1], truth[k + 1])
    OBVIOUS
  <2>1. k \in 0 .. Len(ls) - 1 /\ k \in 0 .. Len(ls) /\ k + 1 \in 1 .. Len(ls) /\ k <= Len(ls) /\ k + 1 \in Nat
    BY <1>0
  <2>2. /\ lex[k + 1] = LexLine(lex[k], ls[k + 1])
        /\ upto[k + 1] = AddLine(upto[k], k + 1, lex[k + 1].text)
        /\ truth[k + 1] = SqlTokens(truth[k], k + 1, ls[k + 1])
    BY <1>1, <1>2, <1>3, <2>1
  <2>3. lex[k] \in Lexed /\ upto[k] \in Sofar /\ truth[k] \in SqlSeen /\ ls[k + 1] \in Seq(STRING)
    BY <1>0, <1>1, <1>2, <1>3, <2>1
  <2>4. truth[k].tame
    BY <2>1, <2>2, <2>3, LineStaysTame
  <2>5. InStep(lex[k], upto[k], truth[k])
    BY <1>5, <2>1, <2>4
  <2> HIDE DEF K
  <2> QED BY <2>1, <2>2, <2>3, <2>5, LineInStep
<1> HIDE DEF K
<1>6. Len(ls) \in K
  BY <1>0, <1>4, <1>5, Induction
<1>7. InStep(lex[Len(ls)], upto[Len(ls)], truth[Len(ls)])
  BY <1>0, <1>3, <1>6 DEF K
<1>8. upto[Len(ls)] = So(truth[Len(ls)])
  BY <1>7 DEF InStep
<1>9. Ended(So(truth[Len(ls)])) = Ended(truth[Len(ls)])
  BY DEF Ended, So
<1> QED BY <1>2, <1>3, <1>8, <1>9

\* Of every migration without comments in comments, with statements that end where their lines
\* do and function bodies on lines of their own: the statements the rules are asked about are
\* the ones the server would run, at their lines (executable_lines, statements).
THEOREM StatementsAreTheServers == Spec => []StatementsAreExecuted
<1>1. Typed => StatementsAreExecuted
  <2> SUFFICES ASSUME Typed, kind = "migration", SqlTruth(lines).tame
               PROVE  Statements(lines) = Ended(SqlTruth(lines))
    BY DEF StatementsAreExecuted
  <2>1. kind \in Sequenced
    BY DEF Sequenced
  <2>2. LinesOf(lines)
    BY <2>1, LinesAreTokens
  <2> QED BY <2>2, FileInStep
<1> QED BY <1>1, LinesAreWritten, PTL

-----------------------------------------------------------------------------
(* SQL: statements of plain lines.                                         *)

LEMMA WordsAre ==
  ASSUME NEW L \in Seq(STRING)
  PROVE  /\ Len(L) \in Nat /\ DOMAIN L = 1 .. Len(L)
         /\ Words(L) = {L[i] : i \in 1 .. Len(L)}
         /\ \A i \in 1 .. Len(L) : L[i] \in Words(L)
         /\ L # <<>> => 1 \in 1 .. Len(L)
<1>1. Len(L) \in Nat /\ DOMAIN L = 1 .. Len(L)
  BY LenProperties
<1>2. Words(L) = {L[i] : i \in 1 .. Len(L)}
  BY <1>1 DEF Words
<1>3. L # <<>> => Len(L) \in Nat \ {0}
  BY EmptySeq
<1>4. L # <<>> => 1 \in 1 .. Len(L)
  BY <1>3
<1> QED BY <1>1, <1>2, <1>4

LEMMA WordsOfEmpty == Words(<<>>) = {}
BY DEF Words

LEMMA WordsOfConcat ==
  ASSUME NEW p \in Seq(STRING), NEW x \in Seq(STRING)
  PROVE  Words(p \o x) = Words(p) \cup Words(x)
<1> DEFINE c == p \o x
<1>1. c \in Seq(STRING) /\ Len(c) = Len(p) + Len(x)
      /\ \A i \in 1 .. Len(p) + Len(x) : c[i] = IF i <= Len(p) THEN p[i] ELSE x[i - Len(p)]
  BY ConcatProperties
<1> HIDE DEF c
<1>2. /\ Len(p) \in Nat /\ Words(p) = {p[i] : i \in 1 .. Len(p)}
      /\ Len(x) \in Nat /\ Words(x) = {x[i] : i \in 1 .. Len(x)}
      /\ Words(c) = {c[i] : i \in 1 .. Len(c)}
  BY <1>1, WordsAre
<1>3. ASSUME NEW w \in Words(c) PROVE w \in Words(p) \cup Words(x)
  <2>1. PICK i \in 1 .. Len(p) + Len(x) : w = c[i]
    BY <1>1, <1>2, <1>3
  <2>2. CASE i <= Len(p)
    <3>1. i \in 1 .. Len(p) /\ w = p[i]
      BY <1>1, <1>2, <2>1, <2>2
    <3> QED BY <1>2, <3>1
  <2>3. CASE ~(i <= Len(p))
    <3>1. i - Len(p) \in 1 .. Len(x) /\ w = x[i - Len(p)]
      BY <1>1, <1>2, <2>1, <2>3
    <3> QED BY <1>2, <3>1
  <2> QED BY <2>2, <2>3
<1>4. ASSUME NEW w \in Words(p) PROVE w \in Words(c)
  <2>1. PICK i \in 1 .. Len(p) : w = p[i]
    BY <1>2, <1>4
  <2>2. i \in 1 .. Len(c) /\ c[i] = w
    BY <1>1, <1>2, <2>1
  <2> QED BY <1>2, <2>2
<1>5. ASSUME NEW w \in Words(x) PROVE w \in Words(c)
  <2>1. PICK i \in 1 .. Len(x) : w = x[i]
    BY <1>2, <1>5
  <2> DEFINE j == Len(p) + i
  <2>2. j \in 1 .. Len(p) + Len(x) /\ ~(j <= Len(p)) /\ j - Len(p) = i
    BY <1>2
  <2> HIDE DEF j
  <2>3. j \in 1 .. Len(c) /\ c[j] = w
    BY <1>1, <2>1, <2>2
  <2> QED BY <1>2, <2>3
<1>6. Words(c) = Words(p) \cup Words(x)
  BY <1>3, <1>4, <1>5
<1> QED BY <1>6 DEF c

PlainLine(L) == Words(L) \cap {"--", "/*", "*/", "$$"} = {}

LEMMA PlainTokens ==
  ASSUME NEW L \in Seq(STRING), PlainLine(L)
  PROVE  \A j \in 1 .. Len(L) : L[j] # "--" /\ L[j] # "/*" /\ L[j] # "*/" /\ L[j] # "$$"
BY WordsAre DEF PlainLine

LEMMA PlainUncommented ==
  ASSUME NEW L \in Seq(STRING), PlainLine(L)
  PROVE  Uncommented(FALSE, L).text = L /\ ~Uncommented(FALSE, L).block
<1>1. Len(L) \in Nat
  BY LenProperties
<1>2. \A j \in 1 .. Len(L) : L[j] # "/*"
  BY PlainTokens
<1>3. PICK g \in [0 .. Len(L) -> Bare] :
        /\ g[0] = [block |-> FALSE, text |-> <<>>]
        /\ \A k \in 0 .. Len(L) - 1 : g[k + 1] = Uncomment(g[k], L[k + 1])
        /\ Uncommented(FALSE, L) = g[Len(L)]
  BY UncommentedReads
<1> DEFINE Same(k) == /\ ~g[k].block /\ Len(g[k].text) = k
                      /\ \A j \in 1 .. k : g[k].text[j] = L[j]
           K == {k \in Nat : k <= Len(L) => Same(k)}
<1>4. 0 \in K
  <2>1. g[0].block = FALSE /\ g[0].text = <<>>
    BY <1>3
  <2>2. Len(<<>>) = 0
    BY EmptySeq
  <2> QED BY <2>1, <2>2
<1>5. ASSUME NEW k \in Nat, k \in K PROVE k + 1 \in K
  <2> SUFFICES ASSUME k + 1 <= Len(L) PROVE Same(k + 1)
    OBVIOUS
  <2>1. k \in 0 .. Len(L) - 1 /\ k \in 0 .. Len(L) /\ k + 1 \in 1 .. Len(L) /\ k <= Len(L)
        /\ 1 .. k + 1 = (1 .. k) \cup {k + 1}
    BY <1>1
  <2>2. Same(k)
    BY <1>5, <2>1
  <2>3. L[k + 1] \in STRING /\ L[k + 1] # "/*" /\ g[k] \in Bare /\ g[k + 1] = Uncomment(g[k], L[k + 1])
    BY <1>2, <1>3, <2>1, ElementOfSeq
  <2>4. g[k + 1].text = Append(g[k].text, L[k + 1]) /\ ~g[k + 1].block
    <3> DEFINE q == g[k]
               w == L[k + 1]
               r == g[k + 1]
    <3>1. q \in Bare /\ w \in STRING /\ w # "/*" /\ r = Uncomment(q, w) /\ ~q.block
      BY <2>2, <2>3
    <3> HIDE DEF q, w, r
    <3>2. r.text = Append(q.text, w) /\ ~r.block
      BY <3>1, UncommentStep
    <3> QED BY <3>2 DEF q, w, r
  <2>5. g[k].text \in Seq(STRING)
    BY <2>3 DEF Bare
  <2>6. /\ Len(g[k + 1].text) = k + 1 /\ \A j \in 1 .. k : g[k + 1].text[j] = g[k].text[j]
        /\ g[k + 1].text[k + 1] = L[k + 1]
    <3> DEFINE X == g[k].text
               t == L[k + 1]
    <3>1. X \in Seq(STRING) /\ t \in STRING /\ Len(X) = k
      BY <2>2, <2>3, <2>5
    <3> HIDE DEF X, t
    <3>2. /\ Len(Append(X, t)) = Len(X) + 1 /\ (\A i \in 1 .. Len(X) : Append(X, t)[i] = X[i])
          /\ Append(X, t)[Len(X) + 1] = t
      BY <3>1, Appended
    <3>3. g[k + 1].text = Append(X, t)
      BY <2>4 DEF X, t
    <3>4. /\ Len(g[k + 1].text) = k + 1 /\ \A j \in 1 .. k : g[k + 1].text[j] = X[j]
          /\ g[k + 1].text[k + 1] = t
      BY <3>1, <3>2, <3>3
    <3> QED BY <3>4 DEF X, t
  <2>7. \A j \in 1 .. k + 1 : g[k + 1].text[j] = L[j]
    BY <2>1, <2>2, <2>6
  <2> QED BY <2>4, <2>6, <2>7
<1> HIDE DEF K, Same
<1>6. Len(L) \in K
  BY <1>1, <1>4, <1>5, Induction
<1>7. Same(Len(L))
  BY <1>1, <1>6 DEF K
<1>8. g[Len(L)].text \in Seq(STRING)
  BY <1>1, <1>3 DEF Bare
<1>9. g[Len(L)].text = L
  <2> DEFINE X == g[Len(L)].text
  <2>1. X \in Seq(STRING) /\ Len(X) = Len(L) /\ \A j \in 1 .. Len(X) : X[j] = L[j]
    BY <1>7, <1>8 DEF Same
  <2> HIDE DEF X
  <2>2. X = L
    BY <2>1, SeqEqual
  <2> QED BY <2>2 DEF X
<1> QED BY <1>3, <1>7, <1>9 DEF Same

LEMMA PlainLexed ==
  ASSUME NEW x \in Lexed, ~x.dollar, ~x.block, NEW L \in Seq(STRING), PlainLine(L)
  PROVE  ~LexLine(x, L).dollar /\ ~LexLine(x, L).block /\ LexLine(x, L).text = L
<1>1. ~Odd(L) /\ Undollared(L) = L
  BY PlainTokens, NoDollar
<1>2. x.block = FALSE
  BY DEF Lexed
<1>3. Uncommented(FALSE, L).text = L /\ ~Uncommented(FALSE, L).block
  BY PlainUncommented
<1>4. At(L, {"--"}) = {}
  BY PlainTokens, WordsAre DEF At
<1>5. CutAt(L, {"--"}) = L
  BY <1>4 DEF CutAt
<1> DEFINE u == Uncommented(FALSE, L)
<1>6. LexLine(x, L) = [dollar |-> Odd(L), block |-> u.block, text |-> CutAt(u.text, {"--"})]
  BY <1>1, <1>2 DEF LexLine
<1>7. u.text = L /\ ~u.block
  BY <1>3
<1> HIDE DEF u
<1>8. LexLine(x, L).dollar = Odd(L) /\ LexLine(x, L).block = u.block /\ LexLine(x, L).text = CutAt(u.text, {"--"})
  BY <1>6
<1> QED BY <1>1, <1>5, <1>7, <1>8

LEMMA PlainFileLexed ==
  ASSUME NEW ls, LinesOf(ls), \A i \in 1 .. Len(ls) : PlainLine(ls[i])
  PROVE  \A i \in 1 .. Len(ls) : ExecutableLines(ls)[i].text = ls[i]
<1>0. Len(ls) \in Nat /\ \A i \in 1 .. Len(ls) : ls[i] \in Seq(STRING)
  BY DEF LinesOf
<1>1. PICK lex \in [0 .. Len(ls) -> Lexed] :
        /\ lex[0] = [dollar |-> FALSE, block |-> FALSE, text |-> <<>>]
        /\ \A k \in 0 .. Len(ls) - 1 : lex[k + 1] = LexLine(lex[k], ls[k + 1])
        /\ ExecutableLines(ls) = lex
  BY LinesReads
<1> DEFINE K == {k \in Nat : k <= Len(ls) =>
                    ~lex[k].dollar /\ ~lex[k].block /\ (k # 0 => lex[k].text = ls[k])}
<1>2. 0 \in K
  BY <1>1
<1>3. ASSUME NEW k \in Nat, k \in K PROVE k + 1 \in K
  <2> SUFFICES ASSUME k + 1 <= Len(ls)
               PROVE  ~lex[k + 1].dollar /\ ~lex[k + 1].block /\ lex[k + 1].text = ls[k + 1]
    OBVIOUS
  <2>1. k \in 0 .. Len(ls) - 1 /\ k \in 0 .. Len(ls) /\ k + 1 \in 1 .. Len(ls) /\ k <= Len(ls)
    BY <1>0
  <2>2. ~lex[k].dollar /\ ~lex[k].block /\ lex[k] \in Lexed
    BY <1>1, <1>3, <2>1
  <2>3. lex[k + 1] = LexLine(lex[k], ls[k + 1]) /\ ls[k + 1] \in Seq(STRING) /\ PlainLine(ls[k + 1])
    BY <1>0, <1>1, <2>1
  <2> HIDE DEF K
  <2> QED BY <2>2, <2>3, PlainLexed
<1> HIDE DEF K
<1>4. \A k \in Nat : k \in K
  BY <1>2, <1>3, Induction
<1>5. ASSUME NEW i \in 1 .. Len(ls) PROVE lex[i].text = ls[i]
  <2>1. i \in Nat /\ i <= Len(ls) /\ i # 0
    BY <1>0
  <2> QED BY <1>4, <2>1 DEF K
<1> QED BY <1>1, <1>5

\* A statement is made of the lines from its own to e, of which only e may end it.
Covers(t, ls, e) ==
    /\ t.line \in 1 .. e
    /\ t.text # <<>> /\ ls[t.line] # <<>> /\ t.text[1] = ls[t.line][1]
    /\ Followed(ls[t.line], 1) => Followed(t.text, 1)
    /\ \A w : w \in Words(t.text) <=> \E j \in t.line .. e : w \in Words(ls[j])
    /\ \A j \in t.line .. e - 1 : ";" \notin Words(ls[j])

Closed(t, ls, n) == \E e \in 1 .. n : Covers(t, ls, e) /\ ";" \in Words(ls[e])
Unfinished(t, ls, n) == t.text # <<>> => Covers(t, ls, n) /\ ";" \notin Words(ls[n])

LEMMA FollowedLonger ==
  ASSUME NEW p \in Seq(STRING), NEW x \in Seq(STRING), Followed(p, 1)
  PROVE  Followed(p \o x, 1)
<1> DEFINE c == p \o x
<1>1. /\ Len(p) \in Nat /\ Len(x) \in Nat /\ DOMAIN p = 1 .. Len(p)
      /\ c \in Seq(STRING) /\ Len(c) = Len(p) + Len(x) /\ DOMAIN c = 1 .. Len(c)
      /\ \A i \in 1 .. Len(p) + Len(x) : c[i] = IF i <= Len(p) THEN p[i] ELSE x[i - Len(p)]
  BY ConcatProperties, LenProperties
<1> HIDE DEF c
<1>2. PICK j \in 1 .. Len(p) : 1 < j /\ p[j] # ";"
  BY <1>1 DEF Followed
<1>3. j \in 1 .. Len(p) + Len(x) /\ j <= Len(p)
  BY <1>1
<1>4. c[j] = p[j] /\ j \in DOMAIN c
  BY <1>1, <1>3
<1>5. Followed(c, 1)
  BY <1>2, <1>4 DEF Followed
<1> QED BY <1>5 DEF c

LEMMA GrownCovers ==
  ASSUME NEW ls, LinesOf(ls), NEW n \in Nat, n + 1 <= Len(ls), NEW b \in Sofar,
         Unfinished(b.open, ls, n), ls[n + 1] # <<>>
  PROVE  Covers(Grown(b, n + 1, ls[n + 1]), ls, n + 1)
<1> DEFINE t == Grown(b, n + 1, ls[n + 1])
           o == b.open
           x == ls[n + 1]
<1>1. n + 1 \in 1 .. Len(ls) /\ n + 1 \in 1 .. n + 1
  BY DEF LinesOf
<1>2. x \in Seq(STRING) /\ x # <<>> /\ o.text \in Seq(STRING) /\ o.line \in Nat
  BY <1>1 DEF LinesOf, Sofar, Statement
<1>3. t.line = (IF o.text = <<>> THEN n + 1 ELSE o.line) /\ t.text = o.text \o x
  BY DEF Grown
<1>4. Words(o.text \o x) = Words(o.text) \cup Words(x) /\ o.text \o x # <<>>
  BY <1>2, WordsOfConcat, ConcatNotEmpty
<1>5. 1 \in 1 .. Len(x) /\ Len(x) \in Nat /\ Len(o.text) \in Nat
  BY <1>2, WordsAre
<1> HIDE DEF t
<1>6. CASE o.text = <<>>
  <2>1. t.line = n + 1 /\ t.text = x
    <3>1. <<>> \o x = x
      BY <1>2, ConcatEmptySeq
    <3> QED BY <1>3, <1>6, <3>1
  <2>2. ASSUME NEW w PROVE w \in Words(x) <=> \E j \in n + 1 .. n + 1 : w \in Words(ls[j])
    <3>1. \A j \in n + 1 .. n + 1 : j = n + 1
      OBVIOUS
    <3>2. n + 1 \in n + 1 .. n + 1
      OBVIOUS
    <3> QED BY <3>1, <3>2
  <2>3. (n + 1) .. (n + 1) - 1 = {}
    OBVIOUS
  <2>4. Covers(t, ls, n + 1)
    BY <1>1, <1>2, <2>1, <2>2, <2>3 DEF Covers
  <2> QED BY <2>4 DEF t
<1>7. CASE o.text # <<>>
  <2>1. Covers(o, ls, n) /\ ";" \notin Words(ls[n])
    BY <1>7 DEF Unfinished
  <2>2. o.line \in 1 .. n /\ ls[o.line] # <<>> /\ o.text[1] = ls[o.line][1]
    BY <2>1 DEF Covers
  <2>3. t.line = o.line
    BY <1>3, <1>7
  <2>4. t.text[1] = o.text[1]
    <3> DEFINE p == o.text
               c == p \o x
    <3>1. p \in Seq(STRING) /\ p # <<>>
      BY <1>2, <1>7
    <3> HIDE DEF p
    <3>2. 1 \in 1 .. Len(p) /\ Len(p) \in Nat
      BY <3>1, WordsAre
    <3>3. \A i \in 1 .. Len(p) + Len(x) : c[i] = IF i <= Len(p) THEN p[i] ELSE x[i - Len(p)]
      BY <1>2, <3>1, ConcatProperties
    <3> HIDE DEF c
    <3>4. 1 \in 1 .. Len(p) + Len(x) /\ 1 <= Len(p)
      BY <1>5, <3>2
    <3>5. c[1] = p[1]
      BY <3>3, <3>4
    <3> QED BY <1>3, <3>5 DEF c, p
  <2>5. ASSUME NEW w PROVE w \in Words(t.text) <=> \E j \in o.line .. n + 1 : w \in Words(ls[j])
    <3>1. o.line .. n + 1 = (o.line .. n) \cup {n + 1}
      BY <2>2
    <3>2. w \in Words(o.text) <=> \E j \in o.line .. n : w \in Words(ls[j])
      BY <2>1 DEF Covers
    <3>3. w \in Words(t.text) <=> w \in Words(o.text) \/ w \in Words(x)
      BY <1>3, <1>4
    <3> QED BY <3>1, <3>2, <3>3
  <2>6. ASSUME NEW j \in o.line .. (n + 1) - 1 PROVE ";" \notin Words(ls[j])
    <3>1. j \in o.line .. n - 1 \/ j = n
      BY <2>2
    <3> QED BY <2>1, <3>1 DEF Covers
  <2>7. o.line \in 1 .. n + 1
    BY <2>2
  <2>9. Followed(ls[o.line], 1) => Followed(t.text, 1)
    <3>1. Followed(ls[o.line], 1) => Followed(o.text, 1)
      BY <2>1 DEF Covers
    <3> QED BY <1>2, <1>3, <3>1, FollowedLonger
  <2>8. Covers(t, ls, n + 1)
    BY <1>3, <1>4, <2>2, <2>3, <2>4, <2>5, <2>6, <2>7, <2>9 DEF Covers
  <2> QED BY <2>8 DEF t
<1> QED BY <1>6, <1>7

LEMMA SemicolonAt ==
  ASSUME NEW L \in Seq(STRING)
  PROVE  At(L, {";"}) # {} <=> ";" \in Words(L)
<1>1. DOMAIN L = 1 .. Len(L) /\ Words(L) = {L[i] : i \in 1 .. Len(L)}
  BY WordsAre
<1> QED BY <1>1 DEF At

\* What is done is closed, what is open unfinished.
Sorted(b, ls, n) == (\A i \in 1 .. Len(b.done) : Closed(b.done[i], ls, n)) /\ Unfinished(b.open, ls, n)

LEMMA AddLineSorted ==
  ASSUME NEW ls, LinesOf(ls), NEW n \in Nat, n + 1 <= Len(ls), NEW b \in Sofar, Sorted(b, ls, n)
  PROVE  Sorted(AddLine(b, n + 1, ls[n + 1]), ls, n + 1)
<1> DEFINE x == ls[n + 1]
           r == AddLine(b, n + 1, x)
           t == Grown(b, n + 1, x)
<1>1. n + 1 \in 1 .. Len(ls) /\ n + 1 \in Nat /\ n + 1 \in 1 .. n + 1 /\ 1 .. n \subseteq 1 .. n + 1
  BY DEF LinesOf
<1>2. x \in Seq(STRING) /\ b.done \in Seq(Statement) /\ b.open \in Statement
  BY <1>1 DEF LinesOf, Sofar
<1>3. \A i \in 1 .. Len(b.done) : Closed(b.done[i], ls, n + 1)
  BY <1>1 DEF Sorted, Closed
<1>4. /\ x = <<>> => r = b
      /\ At(x, {";"}) # {} => r = [done |-> Append(b.done, t), open |-> None]
      /\ x # <<>> /\ At(x, {";"}) = {} => r = [done |-> b.done, open |-> t]
  BY <1>1, <1>2, AddLineGrows
<1>5. At(x, {";"}) # {} <=> ";" \in Words(x)
  BY <1>2, SemicolonAt
<1>6. Unfinished(b.open, ls, n)
  BY DEF Sorted
<1>7. x # <<>> => Covers(t, ls, n + 1)
  BY <1>6, GrownCovers
<1> HIDE DEF r, t
<1>8. CASE x = <<>>
  <2>1. Words(x) = {}
    BY <1>8, WordsOfEmpty
  <2>2. ASSUME b.open.text # <<>> PROVE Covers(b.open, ls, n + 1) /\ ";" \notin Words(x)
    <3> DEFINE o == b.open
    <3>1. Covers(o, ls, n) /\ ";" \notin Words(ls[n])
      BY <1>6, <2>2 DEF Unfinished
    <3> HIDE DEF o
    <3>2. o.line \in 1 .. n /\ o.line \in 1 .. n + 1
      <4>1. o.line \in 1 .. n
        BY <3>1 DEF Covers
      <4>2. \A i : i \in 1 .. n => i \in 1 .. n + 1
        BY <1>1
      <4> QED BY <4>1, <4>2
    <3>3. o.line .. n + 1 = (o.line .. n) \cup {n + 1}
      BY <3>2
    <3>4. ASSUME NEW w PROVE w \in Words(o.text) <=> \E j \in o.line .. n + 1 : w \in Words(ls[j])
      <4>1. w \in Words(o.text) <=> \E j \in o.line .. n : w \in Words(ls[j])
        BY <3>1 DEF Covers
      <4> QED BY <2>1, <3>3, <4>1
    <3>5. ASSUME NEW j \in o.line .. (n + 1) - 1 PROVE ";" \notin Words(ls[j])
      <4>1. j \in o.line .. n - 1 \/ j = n
        BY <3>2
      <4> QED BY <3>1, <4>1 DEF Covers
    <3>6. /\ o.text # <<>> /\ ls[o.line] # <<>> /\ o.text[1] = ls[o.line][1]
          /\ Followed(ls[o.line], 1) => Followed(o.text, 1)
      BY <3>1 DEF Covers
    <3>7. Covers(o, ls, n + 1)
      BY <3>2, <3>4, <3>5, <3>6 DEF Covers
    <3> QED BY <2>1, <3>7 DEF o
  <2>3. Unfinished(b.open, ls, n + 1)
    BY <2>2 DEF Unfinished
  <2>4. Sorted(r, ls, n + 1)
    BY <1>3, <1>4, <1>8, <2>3 DEF Sorted
  <2> QED BY <2>4 DEF r
<1>9. CASE x # <<>> /\ ";" \in Words(x)
  <2>1. r.done = Append(b.done, t) /\ r.open = None
    <3>1. r = [done |-> Append(b.done, t), open |-> None]
      BY <1>4, <1>5, <1>9
    <3> QED BY <3>1
  <2>2. Covers(t, ls, n + 1) /\ ";" \in Words(ls[n + 1])
    BY <1>7, <1>9
  <2>3. Closed(t, ls, n + 1)
    BY <1>1, <2>2 DEF Closed
  <2>4. t \in Statement
    <3>1. t = [line |-> IF b.open.text = <<>> THEN n + 1 ELSE b.open.line, text |-> b.open.text \o x]
      BY DEF t, Grown
    <3>2. b.open.text \o x \in Seq(STRING) /\ b.open.line \in Nat
      <4>1. b.open.text \in Seq(STRING) /\ b.open.line \in Nat
        BY <1>2 DEF Statement
      <4> QED BY <1>2, <4>1, ConcatProperties
    <3>3. (IF b.open.text = <<>> THEN n + 1 ELSE b.open.line) \in Nat
      BY <1>1, <3>2
    <3> QED BY <3>1, <3>2, <3>3 DEF Statement
  <2>5. ASSUME NEW i \in 1 .. Len(r.done) PROVE Closed(r.done[i], ls, n + 1)
    <3> DEFINE d == b.done
    <3>1. d \in Seq(Statement)
      BY <1>2
    <3> HIDE DEF d
    <3>2. /\ Len(d) \in Nat /\ Len(Append(d, t)) = Len(d) + 1 /\ Append(d, t)[Len(d) + 1] = t
      BY <2>4, <3>1, AppendProperties, LenProperties
    <3>3. \A j \in 1 .. Len(d) : Append(d, t)[j] = d[j]
      BY <2>4, <3>1, AppendProperties
    <3>4. r.done = Append(d, t)
      BY <2>1 DEF d
    <3>5. i \in 1 .. Len(d) \/ i = Len(d) + 1
      BY <3>2, <3>4
    <3>6. CASE i \in 1 .. Len(d)
      BY <1>3, <3>3, <3>4, <3>6 DEF d
    <3>7. CASE i = Len(d) + 1
      BY <2>3, <3>2, <3>4, <3>7
    <3> QED BY <3>5, <3>6, <3>7
  <2>6. Unfinished(r.open, ls, n + 1)
    BY <2>1, NoneIs DEF Unfinished
  <2>7. Sorted(r, ls, n + 1)
    BY <2>5, <2>6 DEF Sorted
  <2> QED BY <2>7 DEF r
<1>10. CASE x # <<>> /\ ";" \notin Words(x)
  <2>1. r.done = b.done /\ r.open = t
    <3>1. r = [done |-> b.done, open |-> t]
      BY <1>4, <1>5, <1>10
    <3> QED BY <3>1
  <2>2. Covers(t, ls, n + 1) /\ ";" \notin Words(ls[n + 1])
    BY <1>7, <1>10
  <2>3. Unfinished(t, ls, n + 1)
    BY <2>2 DEF Unfinished
  <2>4. Sorted(r, ls, n + 1)
    BY <1>3, <2>1, <2>3 DEF Sorted
  <2> QED BY <2>4 DEF r
<1> QED BY <1>8, <1>9, <1>10

\* Of plain lines: every statement is made of the lines up to the one that ends it, or the last.
LEMMA StatementsCover ==
  ASSUME NEW ls, LinesOf(ls), \A i \in 1 .. Len(ls) : PlainLine(ls[i])
  PROVE  /\ DOMAIN Statements(ls) = 1 .. Len(Statements(ls))
         /\ \A i \in DOMAIN Statements(ls) :
              \E e \in 1 .. Len(ls) : Covers(Statements(ls)[i], ls, e) /\ (";" \in Words(ls[e]) \/ e = Len(ls))
<1>0. Len(ls) \in Nat
  BY DEF LinesOf
<1>1. PICK upto \in [0 .. Len(ls) -> Sofar] :
        /\ upto[0] = [done |-> <<>>, open |-> None]
        /\ \A k \in 0 .. Len(ls) - 1 : upto[k + 1] = AddLine(upto[k], k + 1, ExecutableLines(ls)[k + 1].text)
        /\ Statements(ls) = Ended(upto[Len(ls)])
  BY StatementsReads
<1> DEFINE K == {k \in Nat : k <= Len(ls) => Sorted(upto[k], ls, k)}
<1>2. 0 \in K
  <2>1. upto[0].done = <<>> /\ upto[0].open = None
    BY <1>1
  <2>2. 1 .. Len(upto[0].done) = {}
    BY <2>1, EmptySeq
  <2>3. Sorted(upto[0], ls, 0)
    BY <2>1, <2>2, NoneIs DEF Sorted, Unfinished
  <2> QED BY <2>3
<1>3. ASSUME NEW k \in Nat, k \in K PROVE k + 1 \in K
  <2> SUFFICES ASSUME k + 1 <= Len(ls) PROVE Sorted(upto[k + 1], ls, k + 1)
    OBVIOUS
  <2>1. k \in 0 .. Len(ls) - 1 /\ k \in 0 .. Len(ls) /\ k + 1 \in 1 .. Len(ls) /\ k <= Len(ls)
    BY <1>0
  <2>2. upto[k + 1] = AddLine(upto[k], k + 1, ls[k + 1])
    BY <1>1, <2>1, PlainFileLexed
  <2>3. upto[k] \in Sofar /\ Sorted(upto[k], ls, k)
    BY <1>1, <1>3, <2>1
  <2> HIDE DEF K
  <2> QED BY <2>2, <2>3, AddLineSorted
<1> HIDE DEF K
<1>4. Len(ls) \in K
  BY <1>0, <1>2, <1>3, Induction
<1> DEFINE b == upto[Len(ls)]
<1>5. Sorted(b, ls, Len(ls)) /\ b \in Sofar
  BY <1>0, <1>1, <1>4 DEF K
<1>6. Statements(ls) = IF b.open.text = <<>> THEN b.done ELSE Append(b.done, b.open)
  BY <1>1 DEF Ended
<1> HIDE DEF b
<1>7. b.done \in Seq(Statement) /\ b.open \in Statement
  BY <1>5 DEF Sofar
<1> DEFINE Fits(t) == \E e \in 1 .. Len(ls) : Covers(t, ls, e) /\ (";" \in Words(ls[e]) \/ e = Len(ls))
<1>8. \A i \in 1 .. Len(b.done) : Fits(b.done[i])
  BY <1>5 DEF Sorted, Closed
<1>9. CASE b.open.text = <<>>
  <2>1. Statements(ls) = b.done
    BY <1>6, <1>9
  <2>2. DOMAIN b.done = 1 .. Len(b.done)
    BY <1>7, LenProperties
  <2> HIDE DEF Fits
  <2>3. \A i \in DOMAIN Statements(ls) : Fits(Statements(ls)[i])
    BY <1>8, <2>1, <2>2
  <2> QED BY <2>1, <2>2, <2>3 DEF Fits
<1>10. CASE b.open.text # <<>>
  <2> DEFINE d == b.done
             t == b.open
  <2>1. d \in Seq(Statement) /\ t \in Statement
    BY <1>7
  <2>2. Fits(t)
    <3>1. Covers(t, ls, Len(ls))
      BY <1>5, <1>10 DEF Sorted, Unfinished
    <3>2. t.line \in 1 .. Len(ls)
      BY <3>1 DEF Covers
    <3>3. Len(ls) \in 1 .. Len(ls)
      BY <1>0, <3>2
    <3> QED BY <3>1, <3>3
  <2>3. Statements(ls) = Append(d, t)
    BY <1>6, <1>10
  <2>4. \A i \in 1 .. Len(d) : Fits(d[i])
    BY <1>8
  <2> HIDE DEF d, t, Fits
  <2>5. /\ Len(d) \in Nat /\ Append(d, t) \in Seq(Statement)
        /\ Len(Append(d, t)) = Len(d) + 1 /\ Append(d, t)[Len(d) + 1] = t
    BY <2>1, AppendProperties, LenProperties
  <2>6. \A j \in 1 .. Len(d) : Append(d, t)[j] = d[j]
    BY <2>1, AppendProperties
  <2>7. DOMAIN Append(d, t) = 1 .. Len(Append(d, t))
    BY <2>5, LenProperties
  <2>8. ASSUME NEW i \in DOMAIN Append(d, t) PROVE Fits(Append(d, t)[i])
    <3>1. i \in 1 .. Len(d) \/ i = Len(d) + 1
      BY <2>5, <2>7
    <3> QED BY <2>2, <2>4, <2>5, <2>6, <3>1
  <2>9. \A i \in DOMAIN Statements(ls) : Fits(Statements(ls)[i])
    BY <2>3, <2>8
  <2> QED BY <2>3, <2>7, <2>9 DEF Fits
<1> QED BY <1>9, <1>10

-----------------------------------------------------------------------------
(* SQL: writes to whole tables, by lines and by statements.                *)

PlainFile(ls) == \A i \in 1 .. Len(ls) : PlainLine(ls[i])
InPlace(L) ==
    /\ Words(L) \cap {"update", "delete from"} # {} =>
           /\ StartsWith(L, {"update", "delete from"}) /\ Followed(L, 1)
           /\ "where" \in Words(L) => Inside(L, "where")
    /\ "update" \in Words(L) => Inside(L, "set")
InPlaceFile(ls) == \A i \in 1 .. Len(ls) : InPlace(ls[i])
InSight(ls, n) ==
    \/ Len(ls) <= n + LOOKAHEAD
    \/ \E k \in (n .. n + LOOKAHEAD) \cap DOMAIN ls : ";" \in Words(ls[k])

LEMMA WithinLines ==
  ASSUME NEW N \in Nat, NEW e \in 1 .. N, NEW a \in 1 .. e
  PROVE  /\ a \in Nat /\ e \in Nat /\ a <= e /\ e <= N /\ a \in 1 .. N
         /\ \A k : k \in a .. e <=> k \in Nat /\ a <= k /\ k <= e
         /\ \A k : k \in a .. e => k \in 1 .. N
         /\ \A k : k \in a .. e => k \in a .. e - 1 \/ k = e
OBVIOUS

LEMMA InWindow ==
  ASSUME NEW a \in Nat, NEW N \in Nat
  PROVE  \A k : k \in (a .. a + 40) \cap 1 .. N => k \in Nat /\ a <= k /\ k <= a + 40 /\ k \in 1 .. N
OBVIOUS

LEMMA WindowIs ==
  ASSUME NEW N \in Nat, NEW a \in 1 .. N
  PROVE  \A k \in 1 .. N : k \in a + 1 .. a + 40 <=> a + 1 <= k /\ k <= a + 40
OBVIOUS

LEMMA PlainSqlLine ==
  ASSUME NEW L \in Seq(STRING), PlainLine(L)
  PROVE  SqlLine(L) = L
<1>1. \A j \in 1 .. Len(L) : L[j] # "--" /\ L[j] # "/*" /\ L[j] # "*/"
  BY PlainTokens
<1>2. L # <<>> => 1 \in 1 .. Len(L)
  BY WordsAre
<1>3. ~StartsWith(L, {"--", "/*", "*/"})
  BY <1>1, <1>2 DEF StartsWith
<1>4. DOMAIN L = 1 .. Len(L)
  BY WordsAre
<1>5. At(L, {"--"}) = {}
  BY <1>1, <1>4 DEF At
<1>6. CutAt(L, {"--"}) = L
  BY <1>5 DEF CutAt
<1> QED BY <1>3, <1>6 DEF SqlLine

\* The first of the lines ahead of a, of N, that has a "where" (W) or a semicolon (E).
Ahead(a, N, W, E) == {k \in 1 .. N : a + 1 <= k /\ k <= a + 40 /\ (k \in W \/ k \in E)}

LEMMA AheadIsNat == ASSUME NEW a, NEW N \in Nat, NEW W, NEW E PROVE Ahead(a, N, W, E) \subseteq Nat
BY DEF Ahead

LEMMA FirstAhead ==
  ASSUME NEW a \in Nat, NEW N \in Nat, NEW W, NEW E, Ahead(a, N, W, E) # {}
  PROVE  LET m == Min(Ahead(a, N, W, E))
         IN  /\ m \in Nat /\ a + 1 <= m /\ m <= N /\ m <= a + 40 /\ (m \in W \/ m \in E)
             /\ \A k \in Nat : a + 1 <= k /\ k <= N /\ k <= a + 40 /\ (k \in W \/ k \in E) => m <= k
<1> DEFINE S == Ahead(a, N, W, E)
           m == Min(S)
<1>1. S \subseteq Nat /\ S # {}
  BY DEF Ahead
<1>2. \A k : k \in S <=> k \in Nat /\ 1 <= k /\ k <= N /\ a + 1 <= k /\ k <= a + 40 /\ (k \in W \/ k \in E)
  BY DEF Ahead
<1> HIDE DEF S
<1>3. m \in S /\ \A k \in S : m <= k
  BY <1>1, MinIsLeast
<1> HIDE DEF m
<1>4. \A k \in Nat : a + 1 <= k => 1 <= k
  OBVIOUS
<1>5. /\ m \in Nat /\ a + 1 <= m /\ m <= N /\ m <= a + 40 /\ (m \in W \/ m \in E)
      /\ \A k \in Nat : a + 1 <= k /\ k <= N /\ k <= a + 40 /\ (k \in W \/ k \in E) => m <= k
  BY <1>2, <1>3, <1>4
<1> QED BY <1>5 DEF m, S

\* No "where" up to the end of the statement: none is found ahead.
LEMMA NoneAhead ==
  ASSUME NEW a \in Nat, NEW N \in Nat, NEW e \in Nat, a <= e, e <= N, NEW W, NEW E,
         \A j \in Nat : a <= j /\ j <= e => j \notin W, e \in E \/ e = N
  PROVE  a \in E \/ Ahead(a, N, W, E) = {} \/ Min(Ahead(a, N, W, E)) \notin W
<1> SUFFICES ASSUME Ahead(a, N, W, E) # {}, Min(Ahead(a, N, W, E)) \in W PROVE a \in E
  OBVIOUS
<1> DEFINE m == Min(Ahead(a, N, W, E))
<1>1. /\ m \in Nat /\ a + 1 <= m /\ m <= N /\ m <= a + 40
      /\ \A k \in Nat : a + 1 <= k /\ k <= N /\ k <= a + 40 /\ (k \in W \/ k \in E) => m <= k
  BY FirstAhead
<1>2. m \in W
  OBVIOUS
<1> HIDE DEF m
<1>3. e < m
  BY <1>1, <1>2
<1>4. e \in E
  BY <1>1, <1>3
<1>5. e = a \/ m <= e
  BY <1>1, <1>3, <1>4
<1>6. e = a
  BY <1>1, <1>3, <1>5
<1> QED BY <1>4, <1>6

\* No "where" found ahead, and the end in sight: none up to the end of the statement.
LEMMA NoneBehind ==
  ASSUME NEW a \in Nat, NEW N \in Nat, NEW e \in Nat, a <= e, e <= N, NEW W, NEW E,
         a \notin W, a \in E \/ Ahead(a, N, W, E) = {} \/ Min(Ahead(a, N, W, E)) \notin W,
         \A j \in Nat : a <= j /\ j <= e /\ j \in E => j = e,
         N <= a + 40 \/ \E k \in Nat : a <= k /\ k <= a + 40 /\ k \in E
  PROVE  \A j \in Nat : a <= j /\ j <= e => j \notin W
<1> SUFFICES ASSUME NEW j \in Nat, a <= j, j <= e, j \in W PROVE FALSE
  OBVIOUS
<1>1. a + 1 <= j /\ a # e /\ a \notin E
  OBVIOUS
<1>2. j <= a + 40
  <2>1. CASE N <= a + 40
    BY <2>1
  <2>2. CASE \E k \in Nat : a <= k /\ k <= a + 40 /\ k \in E
    <3>1. PICK k \in Nat : a <= k /\ k <= a + 40 /\ k \in E
      BY <2>2
    <3>2. e <= k
      BY <3>1
    <3> QED BY <3>1, <3>2
  <2> QED BY <2>1, <2>2
<1>3. j \in Ahead(a, N, W, E)
  BY <1>1, <1>2 DEF Ahead
<1> DEFINE m == Min(Ahead(a, N, W, E))
<1>4. /\ m \in Nat /\ a + 1 <= m /\ (m \in W \/ m \in E)
      /\ \A k \in Nat : a + 1 <= k /\ k <= N /\ k <= a + 40 /\ (k \in W \/ k \in E) => m <= k
  BY <1>3, FirstAhead
<1>5. m \notin W
  BY <1>1, <1>3
<1> HIDE DEF m
<1>6. m <= j
  BY <1>1, <1>2, <1>4
<1>7. m = e
  BY <1>4, <1>5, <1>6
<1> QED BY <1>5, <1>6, <1>7

\* What statement_lacks_where finds.
LEMMA LacksWhereAhead ==
  ASSUME NEW ls, LinesOf(ls), DOMAIN ls = 1 .. Len(ls), NEW a \in 1 .. Len(ls),
         NEW W, W = {k \in 1 .. Len(ls) : "where" \in Words(ls[k])},
         NEW E, E = {k \in 1 .. Len(ls) : ";" \in Words(ls[k])}
  PROVE  LacksWhere(ls, a) <=> a \in E \/ Ahead(a, Len(ls), W, E) = {} \/ Min(Ahead(a, Len(ls), W, E)) \notin W
<1> DEFINE N == Len(ls)
           S == {k \in (a + 1 .. a + LOOKAHEAD) \cap DOMAIN ls : Words(ls[k]) \cap {"where", ";"} # {}}
<1>1. N \in Nat /\ DOMAIN ls = 1 .. N /\ a \in 1 .. N
      /\ (\A k : k \in W <=> k \in 1 .. N /\ "where" \in Words(ls[k]))
      /\ (\A k : k \in E <=> k \in 1 .. N /\ ";" \in Words(ls[k]))
  BY DEF LinesOf
<1> HIDE DEF N
<1>2. S = Ahead(a, N, W, E)
  <2>1. \A k \in 1 .. N : k \in a + 1 .. a + 40 <=> a + 1 <= k /\ k <= a + 40
    BY <1>1, WindowIs
  <2>2. \A k : k \in S <=> k \in a + 1 .. a + 40 /\ k \in 1 .. N /\ (k \in W \/ k \in E)
    BY <1>1 DEF LOOKAHEAD
  <2>3. \A k : k \in Ahead(a, N, W, E) <=> k \in 1 .. N /\ a + 1 <= k /\ k <= a + 40 /\ (k \in W \/ k \in E)
    BY DEF Ahead
  <2> HIDE DEF S
  <2>4. \A k : k \in S <=> k \in Ahead(a, N, W, E)
    BY <2>1, <2>2, <2>3
  <2>5. S = Ahead(a, N, W, E)
    BY <2>4
  <2> QED BY <2>5
<1>3. LacksWhere(ls, a) <=> \/ ";" \in Words(ls[a])
                            \/ S = {}
                            \/ "where" \notin Words(ls[Min(S)])
  BY DEF LacksWhere
<1> HIDE DEF S
<1>4. S # {} => Min(S) \in 1 .. N
  <2>1. S # {} => Min(S) \in S
    <3>1. S \subseteq Nat
      BY <1>1, <1>2, AheadIsNat
    <3> QED BY <3>1, MinIsLeast
  <2>2. S \subseteq 1 .. N
    BY <1>2 DEF Ahead
  <2> QED BY <2>1, <2>2
<1>5. LacksWhere(ls, a) <=> a \in E \/ S = {} \/ Min(S) \notin W
  BY <1>1, <1>3, <1>4
<1> QED BY <1>2, <1>5 DEF N

\* Where nothing that counts ends its line, the two rules look for the same words.
Writes(L) == \/ StartsWith(L, {"delete from"})
             \/ StartsWith(L, {"update"}) /\ "set" \in Words(L)

LEMMA InsideWords ==
  ASSUME NEW L
  PROVE  /\ \A w : Inside(L, w) => w \in Words(L)
         /\ \A w : Before(L, w) => w \in Words(L)
         /\ \A w : BeginsWith(L, w) <=> StartsWith(L, {w}) /\ Followed(L, 1)
BY DEF Inside, Before, Words, BeginsWith

LEMMA WritesInPlaceAre ==
  ASSUME NEW L \in Seq(STRING), InPlace(L)
  PROVE  /\ WriteOnLine(L) <=> "where" \notin Words(L) /\ Writes(L)
         /\ Writes(L) => Followed(L, 1)
<1>1. /\ DOMAIN L = 1 .. Len(L) /\ (L # <<>> => 1 \in 1 .. Len(L))
      /\ (L # <<>> => L[1] \in Words(L))
  BY WordsAre
<1>2. /\ StartsWith(L, {"update", "delete from"}) <=> L # <<>> /\ (L[1] = "update" \/ L[1] = "delete from")
      /\ StartsWith(L, {"update"}) <=> L # <<>> /\ L[1] = "update"
      /\ StartsWith(L, {"delete from"}) <=> L # <<>> /\ L[1] = "delete from"
  BY DEF StartsWith
<1>3. ASSUME WriteOnLine(L) PROVE "where" \notin Words(L) /\ Writes(L)
  <2>1. ~Inside(L, "where") /\ ("delete from" \in Words(L) \/ (Before(L, "update") /\ Inside(L, "set")))
    BY <1>3 DEF WriteOnLine
  <2>2. "delete from" \in Words(L) \/ "update" \in Words(L)
    BY <2>1, InsideWords
  <2>3. StartsWith(L, {"update", "delete from"}) /\ "where" \notin Words(L)
    BY <2>1, <2>2 DEF InPlace
  <2>4. "update" \in Words(L) => "set" \in Words(L)
    BY InsideWords DEF InPlace
  <2> QED BY <1>1, <1>2, <2>3, <2>4 DEF Writes
<1>4. ASSUME Writes(L) PROVE Followed(L, 1) /\ ("where" \notin Words(L) => WriteOnLine(L))
  <2>1. L # <<>> /\ (L[1] = "update" \/ L[1] = "delete from")
    BY <1>2, <1>4 DEF Writes
  <2>2. Words(L) \cap {"update", "delete from"} # {}
    BY <1>1, <2>1
  <2>3. Followed(L, 1)
    BY <2>2 DEF InPlace
  <2>4. L[1] = "update" => Before(L, "update") /\ Inside(L, "set")
    BY <1>1, <2>1, <2>3 DEF Before, InPlace
  <2>5. "where" \notin Words(L) => ~Inside(L, "where")
    BY InsideWords
  <2> QED BY <1>1, <2>1, <2>3, <2>4, <2>5 DEF WriteOnLine
<1> QED BY <1>3, <1>4

LEMMA WriteStarts ==
  ASSUME NEW ls, LinesOf(ls), InPlaceFile(ls), NEW t, NEW e \in 1 .. Len(ls), Covers(t, ls, e)
  PROVE  /\ t.line \in 1 .. e /\ t.line \in 1 .. Len(ls) /\ t.line \in t.line .. e
         /\ StartsWith(t.text, {"delete from"}) <=> StartsWith(ls[t.line], {"delete from"})
         /\ StartsWith(t.text, {"update"}) <=> StartsWith(ls[t.line], {"update"})
         /\ ls[t.line] \in Seq(STRING) /\ InPlace(ls[t.line])
         /\ FullTableWrite(t.text) => "where" \notin Words(t.text) /\ Writes(t.text)
         /\ Followed(ls[t.line], 1) => ("where" \notin Words(t.text) /\ Writes(t.text) => FullTableWrite(t.text))
<1>1. Len(ls) \in Nat
  BY DEF LinesOf
<1>2. t.line \in 1 .. e /\ t.text # <<>> /\ ls[t.line] # <<>> /\ t.text[1] = ls[t.line][1]
  BY DEF Covers
<1>3. t.line \in 1 .. Len(ls) /\ t.line \in t.line .. e
  BY <1>1, <1>2
<1>4. ls[t.line] \in Seq(STRING) /\ InPlace(ls[t.line])
  BY <1>3 DEF LinesOf, InPlaceFile
<1>5. FullTableWrite(t.text) => "where" \notin Words(t.text) /\ Writes(t.text)
  BY InsideWords DEF FullTableWrite, Writes
<1>6. Followed(ls[t.line], 1) => ("where" \notin Words(t.text) /\ Writes(t.text) => FullTableWrite(t.text))
  <2>1. Followed(ls[t.line], 1) => Followed(t.text, 1)
    BY DEF Covers
  <2> QED BY <2>1, InsideWords DEF FullTableWrite, Writes
<1>7. /\ StartsWith(t.text, {"delete from"}) <=> StartsWith(ls[t.line], {"delete from"})
      /\ StartsWith(t.text, {"update"}) <=> StartsWith(ls[t.line], {"update"})
  BY <1>2 DEF StartsWith
<1> QED BY <1>2, <1>3, <1>4, <1>5, <1>6, <1>7

\* A statement that writes a whole table: the rule on lines reports the line it starts on.
LEMMA StatementToLine ==
  ASSUME NEW ls, LinesOf(ls), DOMAIN ls = 1 .. Len(ls), InPlaceFile(ls),
         NEW t, NEW e \in 1 .. Len(ls), Covers(t, ls, e),
         ";" \in Words(ls[e]) \/ e = Len(ls), FullTableWrite(t.text)
  PROVE  WriteOnLine(ls[t.line]) /\ LacksWhere(ls, t.line)
<1> DEFINE a == t.line
<1>1. /\ a \in 1 .. e /\ a \in 1 .. Len(ls) /\ a \in a .. e /\ ls[a] \in Seq(STRING) /\ InPlace(ls[a])
      /\ StartsWith(t.text, {"delete from"}) <=> StartsWith(ls[a], {"delete from"})
      /\ StartsWith(t.text, {"update"}) <=> StartsWith(ls[a], {"update"})
      /\ "where" \notin Words(t.text) /\ Writes(t.text)
  BY WriteStarts
<1>2. /\ \A w : w \in Words(t.text) <=> \E j \in a .. e : w \in Words(ls[j])
      /\ \A j \in a .. e - 1 : ";" \notin Words(ls[j])
  BY DEF Covers
<1>3. \A j \in a .. e : "where" \notin Words(ls[j])
  BY <1>1, <1>2
<1>4. StartsWith(ls[a], {"delete from"}) \/ StartsWith(ls[a], {"update"})
  BY <1>1 DEF Writes
<1> HIDE DEF a
<1>5. WriteOnLine(ls[a])
  <2> DEFINE L == ls[a]
  <2>1. L \in Seq(STRING) /\ InPlace(L)
    BY <1>1
  <2>2. StartsWith(L, {"delete from"}) \/ StartsWith(L, {"update"})
    BY <1>4
  <2>3. "where" \notin Words(L)
    BY <1>1, <1>3
  <2> HIDE DEF L
  <2>4. L # <<>> => L[1] \in Words(L)
    BY <2>1, WordsAre
  <2>5. StartsWith(L, {"update"}) => "update" \in Words(L)
    BY <2>4 DEF StartsWith
  <2>6. "update" \in Words(L) => "set" \in Words(L)
    BY <2>1, InsideWords DEF InPlace
  <2>7. WriteOnLine(L)
    BY <2>1, <2>2, <2>3, <2>5, <2>6, WritesInPlaceAre DEF Writes
  <2> QED BY <2>7 DEF L
<1>7. LacksWhere(ls, a)
  <2> DEFINE N == Len(ls)
             W == {k \in 1 .. N : "where" \in Words(ls[k])}
             E == {k \in 1 .. N : ";" \in Words(ls[k])}
  <2>1. N \in Nat /\ a \in 1 .. e /\ e \in 1 .. N
    BY <1>1 DEF LinesOf
  <2>2. LacksWhere(ls, a) <=> a \in E \/ Ahead(a, N, W, E) = {} \/ Min(Ahead(a, N, W, E)) \notin W
    BY <1>1, LacksWhereAhead
  <2>3. e \in E \/ e = N
    BY <2>1
  <2>4. \A k : k \in W => "where" \in Words(ls[k])
    OBVIOUS
  <2> HIDE DEF N, W, E
  <2>5. a \in Nat /\ e \in Nat /\ a <= e /\ e <= N
    BY <2>1, WithinLines
  <2>6. \A k \in Nat : a <= k /\ k <= e => k \in a .. e
    BY <2>1, WithinLines
  <2>7. \A k \in Nat : a <= k /\ k <= e => k \notin W
    BY <1>3, <2>4, <2>6
  <2>8. a \in E \/ Ahead(a, N, W, E) = {} \/ Min(Ahead(a, N, W, E)) \notin W
    BY <2>1, <2>3, <2>5, <2>7, NoneAhead
  <2> QED BY <2>2, <2>8
<1> QED BY <1>5, <1>7 DEF a

\* And where the end of the statement is in sight, a line that is reported starts such a statement.
LEMMA LineToStatement ==
  ASSUME NEW ls, LinesOf(ls), DOMAIN ls = 1 .. Len(ls), InPlaceFile(ls),
         NEW t, NEW e \in 1 .. Len(ls), Covers(t, ls, e),
         WriteOnLine(ls[t.line]), LacksWhere(ls, t.line), InSight(ls, t.line)
  PROVE  FullTableWrite(t.text)
<1> DEFINE a == t.line
<1>1. /\ a \in 1 .. e /\ a \in 1 .. Len(ls) /\ a \in a .. e /\ ls[a] \in Seq(STRING) /\ InPlace(ls[a])
      /\ StartsWith(t.text, {"delete from"}) <=> StartsWith(ls[a], {"delete from"})
      /\ StartsWith(t.text, {"update"}) <=> StartsWith(ls[a], {"update"})
      /\ Followed(ls[a], 1) => ("where" \notin Words(t.text) /\ Writes(t.text) => FullTableWrite(t.text))
  BY WriteStarts
<1>2. /\ \A w : w \in Words(t.text) <=> \E j \in a .. e : w \in Words(ls[j])
      /\ \A j \in a .. e - 1 : ";" \notin Words(ls[j])
  BY DEF Covers
<1>3. WriteOnLine(ls[a]) /\ LacksWhere(ls, a) /\ InSight(ls, a)
  OBVIOUS
<1> HIDE DEF a
<1>5. "where" \notin Words(ls[a]) /\ Writes(ls[a]) /\ Followed(ls[a], 1)
  BY <1>1, <1>3, WritesInPlaceAre
<1>6. "set" \in Words(ls[a]) => "set" \in Words(t.text)
  BY <1>1, <1>2
<1>7. \A j \in a .. e : "where" \notin Words(ls[j])
  <2> DEFINE N == Len(ls)
             W == {k \in 1 .. N : "where" \in Words(ls[k])}
             E == {k \in 1 .. N : ";" \in Words(ls[k])}
  <2>1. N \in Nat /\ a \in 1 .. e /\ e \in 1 .. N
    BY <1>1 DEF LinesOf
  <2>2. LacksWhere(ls, a) <=> a \in E \/ Ahead(a, N, W, E) = {} \/ Min(Ahead(a, N, W, E)) \notin W
    BY <1>1, LacksWhereAhead
  <2>3. N <= a + 40 \/ \E k \in (a .. a + 40) \cap 1 .. N : ";" \in Words(ls[k])
    BY <1>3 DEF InSight, LOOKAHEAD
  <2>4. /\ \A k : k \in W <=> k \in 1 .. N /\ "where" \in Words(ls[k])
        /\ \A k : k \in E <=> k \in 1 .. N /\ ";" \in Words(ls[k])
    OBVIOUS
  <2>5. "where" \notin Words(ls[a])
    BY <1>5
  <2> HIDE DEF N, W, E
  <2>6. a \in Nat /\ e \in Nat /\ a <= e /\ e <= N
    BY <2>1, WithinLines
  <2>7. N <= a + 40 \/ \E k \in Nat : a <= k /\ k <= a + 40 /\ k \in E
    <3>1. CASE \E k \in (a .. a + 40) \cap 1 .. N : ";" \in Words(ls[k])
      <4>1. PICK k \in (a .. a + 40) \cap 1 .. N : ";" \in Words(ls[k])
        BY <3>1
      <4>2. k \in Nat /\ a <= k /\ k <= a + 40
        BY <2>1, <2>6, <4>1, InWindow
      <4>3. k \in E
        BY <2>4, <4>1
      <4> QED BY <4>2, <4>3
    <3> QED BY <2>3, <3>1
  <2>8. ASSUME NEW j \in Nat, a <= j, j <= e, j \in E PROVE j = e
    <3>1. j \in a .. e
      BY <2>1, <2>8, WithinLines
    <3>2. j \in a .. e - 1 \/ j = e
      BY <2>1, <3>1, WithinLines
    <3> QED BY <1>2, <2>4, <2>8, <3>2
  <2>9. a \notin W
    BY <2>4, <2>5
  <2>10. a \in E \/ Ahead(a, N, W, E) = {} \/ Min(Ahead(a, N, W, E)) \notin W
    BY <1>3, <2>2
  <2>11. \A j \in Nat : a <= j /\ j <= e => j \notin W
    BY <2>1, <2>6, <2>7, <2>8, <2>9, <2>10, NoneBehind
  <2>12. ASSUME NEW j \in a .. e PROVE "where" \notin Words(ls[j])
    <3>1. j \in Nat /\ a <= j /\ j <= e /\ j \in 1 .. N
      BY <2>1, <2>12, WithinLines
    <3> QED BY <2>4, <2>11, <3>1
  <2> QED BY <2>12
<1>8. "where" \notin Words(t.text)
  BY <1>2, <1>7
<1>9. Writes(t.text)
  BY <1>1, <1>5, <1>6 DEF Writes
<1> QED BY <1>1, <1>5, <1>8, <1>9

LEMMA QueryWrites ==
  ASSUME NEW ls, LinesOf(ls), DOMAIN ls = 1 .. Len(ls), PlainFile(ls), NEW n
  PROVE  (\E h \in SqlHits({"sql"}, ls, {}, FALSE) : h.id = "sql.query.full-table-write" /\ h.line = n)
           <=> n \in 1 .. Len(ls) /\ WriteOnLine(ls[n]) /\ LacksWhere(ls, n)
<1> DEFINE id == "sql.query.full-table-write"
           ids(k) == IF WriteOnLine(SqlLine(ls[k])) /\ LacksWhere(ls, k)
                     THEN {"sql.query.full-table-write"}
                     ELSE IF DynamicSql(SqlLine(ls[k])) THEN {"sql.dynamic-sql"} ELSE {}
           H == UNION {HitsOn(k, ids(k)) : k \in 1 .. Len(ls)}
<1>1. ~Migration({"sql"})
  BY DEF Migration
<1>2. SqlHits({"sql"}, ls, {}, FALSE) = H
  BY <1>1 DEF SqlHits, SqlLineHits
<1>3. \A k \in 1 .. Len(ls) : SqlLine(ls[k]) = ls[k]
  BY PlainSqlLine DEF LinesOf, PlainFile
<1>4. \A k \in 1 .. Len(ls) : id \in ids(k) <=> WriteOnLine(ls[k]) /\ LacksWhere(ls, k)
  BY <1>3
<1>5. \A h : h \in H <=> \E k \in 1 .. Len(ls) : h \in HitsOn(k, ids(k))
  OBVIOUS
<1> HIDE DEF ids, H, id
<1>6. \A h : (h \in H /\ h.id = id /\ h.line = n) <=> n \in 1 .. Len(ls) /\ id \in ids(n) /\ h = Hit(n, id)
  <2>1. \A k, h : h \in HitsOn(k, ids(k)) <=> h = Hit(k, h.id) /\ h.id \in ids(k)
    BY OnLine
  <2>2. \A k, i : Hit(k, i).line = k /\ Hit(k, i).id = i
    BY DEF Hit
  <2>3. ASSUME NEW h, h \in H, h.id = id, h.line = n PROVE n \in 1 .. Len(ls) /\ id \in ids(n) /\ h = Hit(n, id)
    <3>1. PICK k \in 1 .. Len(ls) : h = Hit(k, h.id) /\ h.id \in ids(k)
      BY <1>5, <2>1, <2>3
    <3>2. k = n
      BY <2>2, <2>3, <3>1
    <3> QED BY <2>3, <3>1, <3>2
  <2>4. ASSUME NEW h, n \in 1 .. Len(ls), id \in ids(n), h = Hit(n, id) PROVE h \in H /\ h.id = id /\ h.line = n
    <3>1. h.id = id /\ h.line = n
      BY <2>2, <2>4
    <3>2. h \in HitsOn(n, ids(n))
      BY <2>1, <2>4, <3>1
    <3> QED BY <1>5, <2>4, <3>1, <3>2
  <2> QED BY <2>3, <2>4
<1>7. (\E h \in H : h.id = id /\ h.line = n) <=> n \in 1 .. Len(ls) /\ id \in ids(n)
  BY <1>6
<1>8. (\E h \in H : h.id = id /\ h.line = n) <=> n \in 1 .. Len(ls) /\ WriteOnLine(ls[n]) /\ LacksWhere(ls, n)
  BY <1>4, <1>7
<1> QED BY <1>2, <1>8 DEF id

LEMMA MigrationWrites ==
  ASSUME NEW ls, LinesOf(ls), DOMAIN ls = 1 .. Len(ls), PlainFile(ls), NEW n
  PROVE  (\E h \in SqlHits({"sql", "db"}, ls, {}, FALSE) : h.id = "sql.migration.full-table-write" /\ h.line = n)
           <=> \E k \in DOMAIN Statements(ls) : Statements(ls)[k].line = n /\ FullTableWrite(Statements(ls)[k].text)
<1> DEFINE id == "sql.migration.full-table-write"
           S == Statements(ls)
           full == FullText(ls)
           H == SqlHits({"sql", "db"}, ls, {}, FALSE)
           M == MigrationHits(ls, {}, FALSE)
           Reported(k) == HitsOn(S[k].line, StatementHits(S[k].text, full, {}, FALSE))
<1>1. Migration({"sql", "db"})
  BY DEF Migration
<1>2. H = SqlLineHits({"sql", "db"}, ls) \cup M
  BY <1>1 DEF SqlHits
<1>3. \A h \in SqlLineHits({"sql", "db"}, ls) : h.id # id
  <2> SUFFICES ASSUME NEW h \in SqlLineHits({"sql", "db"}, ls) PROVE h.id = "sql.dynamic-sql"
    OBVIOUS
  <2>1. PICK k \in DOMAIN ls : h \in HitsOn(k, IF DynamicSql(SqlLine(ls[k])) THEN {"sql.dynamic-sql"} ELSE {})
    BY <1>1 DEF SqlLineHits
  <2>2. h.id \in (IF DynamicSql(SqlLine(ls[k])) THEN {"sql.dynamic-sql"} ELSE {})
    BY <2>1, OnLine
  <2> QED BY <2>2
<1>4. \A h \in TransactionHits(ls) : h.id # id
  <2> SUFFICES ASSUME NEW h \in TransactionHits(ls) PROVE h.id = "sql.migration.concurrent-in-txn"
    OBVIOUS
  <2>1. PICK k : h = Hit(k, "sql.migration.concurrent-in-txn")
    BY DEF TransactionHits
  <2> QED BY <2>1 DEF Hit
<1>5. \A k, i : Hit(k, i).line = k /\ Hit(k, i).id = i
  BY DEF Hit
<1>6. ~SafetyEvidence({}, FALSE)
  BY DEF SafetyEvidence
<1>7. ASSUME NEW text PROVE id \in StatementHits(text, full, {}, FALSE) <=> FullTableWrite(text)
  <2> HIDE DEF full
  <2>1. /\ id # "sql.migration.destructive-no-proof" /\ id # "sql.migration.cascade-convenience"
        /\ id # "sql.migration.missing-lock-timeout" /\ id # "sql.migration.missing-statement-timeout"
        /\ id # "sql.migration.blocking-maintenance-op" /\ id # "sql.migration.sqlite-unsafe-pragma"
    OBVIOUS
  <2>2. id = "sql.migration.full-table-write"
    OBVIOUS
  <2> HIDE DEF id
  <2> QED BY <1>6, <2>1, <2>2, StatementAt, Zenon
<1>8. \A h : h \in M <=> \/ h \in TransactionHits(ls)
                         \/ SqliteRebuild(full) /\ h = Hit(S[1].line, "sql.migration.sqlite-rebuild-no-check")
                         \/ \E k \in DOMAIN S : h \in Reported(k)
  BY MigrationAt
<1>9. \A k, h : h \in Reported(k) <=> h = Hit(S[k].line, h.id) /\ h.id \in StatementHits(S[k].text, full, {}, FALSE)
  BY OnLine
<1>10. id # "sql.migration.sqlite-rebuild-no-check"
  OBVIOUS
<1> HIDE DEF id, S, full, H, M, Reported
<1>11. \A h : h \in H /\ h.id = id <=> h.id = id /\ \E k \in DOMAIN S : h \in Reported(k)
  BY <1>2, <1>3, <1>4, <1>5, <1>8, <1>10
<1>12. ASSUME NEW h \in H, h.id = id, h.line = n PROVE \E k \in DOMAIN S : S[k].line = n /\ FullTableWrite(S[k].text)
  <2>1. PICK k \in DOMAIN S : h \in Reported(k)
    BY <1>11, <1>12
  <2>2. h = Hit(S[k].line, id) /\ id \in StatementHits(S[k].text, full, {}, FALSE)
    BY <1>9, <1>12, <2>1
  <2>3. S[k].line = n
    BY <1>5, <1>12, <2>2
  <2> QED BY <1>7, <2>2, <2>3
<1>13. ASSUME NEW k \in DOMAIN S, S[k].line = n, FullTableWrite(S[k].text) PROVE \E h \in H : h.id = id /\ h.line = n
  <2> DEFINE h == Hit(S[k].line, id)
  <2>1. h.id = id /\ h.line = n
    BY <1>5, <1>13
  <2>2. h = Hit(S[k].line, h.id) /\ h.id \in StatementHits(S[k].text, full, {}, FALSE)
    BY <1>7, <1>13, <2>1
  <2> HIDE DEF h
  <2>3. h \in Reported(k)
    BY <1>9, <2>2
  <2>4. h \in H
    BY <1>11, <2>1, <2>3
  <2> QED BY <2>1, <2>4
<1>14. (\E h \in H : h.id = id /\ h.line = n) <=> \E k \in DOMAIN S : S[k].line = n /\ FullTableWrite(S[k].text)
  BY <1>12, <1>13
<1> QED BY <1>14 DEF id, H, S

LEMMA RulesAgree ==
  ASSUME NEW ls, LinesOf(ls), DOMAIN ls = 1 .. Len(ls), PlainFile(ls), InPlaceFile(ls), NEW n
  PROVE  LET wholly == \E k \in DOMAIN Statements(ls) :
                           Statements(ls)[k].line = n /\ FullTableWrite(Statements(ls)[k].text)
             reported == n \in 1 .. Len(ls) /\ WriteOnLine(ls[n]) /\ LacksWhere(ls, n)
         IN  /\ wholly => reported
             /\ reported /\ InSight(ls, n) /\ (\E k \in DOMAIN Statements(ls) : Statements(ls)[k].line = n) => wholly
<1> DEFINE S == Statements(ls)
<1>1. \A k \in DOMAIN S : \E e \in 1 .. Len(ls) : Covers(S[k], ls, e) /\ (";" \in Words(ls[e]) \/ e = Len(ls))
  BY StatementsCover DEF PlainFile
<1> HIDE DEF S
<1>2. ASSUME NEW k \in DOMAIN S, S[k].line = n, FullTableWrite(S[k].text)
      PROVE  n \in 1 .. Len(ls) /\ WriteOnLine(ls[n]) /\ LacksWhere(ls, n)
  <2> DEFINE t == S[k]
  <2>1. PICK e \in 1 .. Len(ls) : Covers(t, ls, e) /\ (";" \in Words(ls[e]) \/ e = Len(ls))
    BY <1>1
  <2>2. t.line = n /\ FullTableWrite(t.text)
    BY <1>2
  <2> HIDE DEF t
  <2>3. t.line \in 1 .. Len(ls)
    BY <2>1, WriteStarts
  <2>4. WriteOnLine(ls[t.line]) /\ LacksWhere(ls, t.line)
    BY <2>1, <2>2, StatementToLine
  <2> QED BY <2>2, <2>3, <2>4
<1>3. ASSUME NEW k \in DOMAIN S, S[k].line = n, WriteOnLine(ls[n]), LacksWhere(ls, n), InSight(ls, n)
      PROVE  FullTableWrite(S[k].text)
  <2> DEFINE t == S[k]
  <2>1. PICK e \in 1 .. Len(ls) : Covers(t, ls, e)
    BY <1>1
  <2>2. WriteOnLine(ls[t.line]) /\ LacksWhere(ls, t.line) /\ InSight(ls, t.line)
    BY <1>3
  <2> HIDE DEF t
  <2>3. FullTableWrite(t.text)
    BY <2>1, <2>2, LineToStatement
  <2> QED BY <2>3 DEF t
<1> QED BY <1>2, <1>3 DEF S

\* Of every SQL file of plain lines, whose writes start their lines: the rule on lines and the rule
\* on statements report the same writes to whole tables, as far as 40 lines reach
\* (statement_lacks_where, full_table_write).
THEOREM WriteRulesAreOne == Spec => []WriteRulesAgree
<1>1. Typed => WriteRulesAgree
  <2> SUFFICES ASSUME Typed, kind = "sql", PlainSql, WritesInPlace PROVE WriteRulesAgree
    BY DEF WriteRulesAgree
  <2> DEFINE Q == SqlHits({"sql"}, lines, {}, FALSE)
             M == SqlHits({"sql", "db"}, lines, {}, FALSE)
             qid == "sql.query.full-table-write"
             mid == "sql.migration.full-table-write"
             S == Statements(lines)
  <2>1. kind \in Sequenced
    BY DEF Sequenced
  <2>2. LinesOf(lines) /\ DOMAIN lines = 1 .. Len(lines)
    BY <2>1, LinesAreTokens
  <2>3. PlainFile(lines)
    BY <2>2 DEF PlainSql, PlainFile, PlainLine
  <2>4. InPlaceFile(lines)
    BY <2>2 DEF WritesInPlace, InPlaceFile, InPlace
  <2>5. \A n : EndInSight(n) <=> InSight(lines, n)
    BY DEF EndInSight, InSight
  <2>6. /\ \A n : (\E h \in Q : h.id = qid /\ h.line = n) <=> n \in 1 .. Len(lines) /\ WriteOnLine(lines[n]) /\ LacksWhere(lines, n)
        /\ \A n : (\E h \in M : h.id = mid /\ h.line = n) <=> \E k \in DOMAIN S : S[k].line = n /\ FullTableWrite(S[k].text)
    BY <2>2, <2>3, QueryWrites, MigrationWrites
  <2>7. \A n : /\ (\E k \in DOMAIN S : S[k].line = n /\ FullTableWrite(S[k].text)) =>
                    n \in 1 .. Len(lines) /\ WriteOnLine(lines[n]) /\ LacksWhere(lines, n)
               /\ n \in 1 .. Len(lines) /\ WriteOnLine(lines[n]) /\ LacksWhere(lines, n) /\ InSight(lines, n)
                  /\ (\E k \in DOMAIN S : S[k].line = n) =>
                    \E k \in DOMAIN S : S[k].line = n /\ FullTableWrite(S[k].text)
    BY <2>2, <2>3, <2>4, RulesAgree
  <2> DEFINE query == {h.line : h \in {g \in Q : g.id = qid}}
             migration == {h.line : h \in {g \in M : g.id = mid}}
             starts == {s.line : s \in Range(S)}
  <2> HIDE DEF Q, M, S, qid, mid
  <2>8. \A n : n \in query <=> \E h \in Q : h.id = qid /\ h.line = n
    OBVIOUS
  <2>9. \A n : n \in migration <=> \E h \in M : h.id = mid /\ h.line = n
    OBVIOUS
  <2>10. \A n : n \in starts <=> \E k \in DOMAIN S : S[k].line = n
    BY DEF Range
  <2> HIDE DEF query, migration, starts
  <2>11. migration \subseteq query
    BY <2>6, <2>7, <2>8, <2>9
  <2>12. {n \in query \cap starts : EndInSight(n)} \subseteq migration
    BY <2>5, <2>6, <2>7, <2>8, <2>9, <2>10
  <2> QED BY <2>11, <2>12 DEF WriteRulesAgree, query, migration, starts, Q, M, S, qid, mid
<1> QED BY <1>1, LinesAreWritten, PTL
=============================================================================
