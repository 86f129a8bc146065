SPECIFICATION MCSpec
CONSTANTS
    c1 = c1
    c2 = c2
    none = none
    Files <- AllFiles
    Named <- FastNamed
    ExcludedPaths <- WalkExcluded
    Globbed <- WalkGlobbed
    DotIgnored <- WalkDotIgnored
    GitIgnored <- FastGitIgnored
    Candidates <- OverlayCandidates
    MaxEdits = 2
    MaxOverlays = 2
    Contents = {c1, c2}
    Absent = none
    Empty = c1
INVARIANTS TypeOK OneEntryPerFile UntouchedListed FastOutsideFull OverlayIsWalk
CHECK_DEADLOCK FALSE
