SPECIFICATION FairSpec
CONSTANTS
    Commits = {c1, c2}
    Runs = {1, 2}
    Contested = {c1}
    MaxAttempts = 2
    NoCommit = NoCommit
    Foreign = Foreign
INVARIANTS RequiredIsEarned PublishersTakeTurns
PROPERTIES TagsAreQualified QualifiedIsTagged
CHECK_DEADLOCK FALSE
