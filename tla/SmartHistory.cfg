SPECIFICATION FairHistSpec
CONSTANTS
    Auditors = {a1}
    Files = {f1}
    Contents <- MCContents
    Absent = Absent
    Commits = {c1}
    NoHead = NoHead
    Versions <- MCVersions
    Hard <- MCHard
    Capped <- MCCapped
    Ignored = {}
    Quoted = {}
    Interval = 1
    RatePermille = 100
    MaxSkew = 0
    Env = {"dirty", "midedit", "gitfail", "upgrade"}
    plain = plain
    todo = todo
    v1 = v1
    v2 = v2
INVARIANT TypeOK
PROPERTIES NoNarrowAfterDirtyFull Backstop
