SPECIFICATION Spec
CONSTANTS
    Auditors = {a1}
    Files = {f1}
    Contents <- MCContents
    Absent = Absent
    Commits = {c1}
    NoHead = NoHead
    Versions <- MCVersions
    Hard <- SwapHard
    Capped <- NoCaps
    Ignored = {}
    Quoted = {}
    Interval = 0
    RatePermille = 0
    MaxSkew = 0
    Env = {"dirty"}
    plain = plain
    todo = todo
    v1 = v1
    v2 = v2
PROPERTY SkipHasNothingToDo
