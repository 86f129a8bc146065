SPECIFICATION Spec
CONSTANTS
    Libraries <- MCLibraries
    Documents <- MCDocuments
    Root = "root"
INVARIANTS Sound Complete
CHECK_DEADLOCK FALSE
