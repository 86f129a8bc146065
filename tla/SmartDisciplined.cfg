SPECIFICATION Spec
CONSTANTS
    Auditors = {a1, a2}
    Files = {f1}
    Contents <- MCContents
    Absent = Absent
    Commits = {c1, c2}
    NoHead = NoHead
    Versions <- MCVersions
    Hard <- CapsHard
    Capped <- CapsCapped
    Ignored = {}
    Quoted = {}
    Interval = 0
    RatePermille = 0
    MaxSkew = 1
    Env = {"crash", "savefail", "setback", "upgrade"}
    plain = plain
    todo = todo
    v1 = v1
    v2 = v2
INVARIANTS RecordCertified CertifiedTrees
PROPERTIES LedgerSpec NarrowCoversHard
SYMMETRY RepoSymmetry
