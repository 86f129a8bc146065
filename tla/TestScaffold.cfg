SPECIFICATION Spec
CONSTANTS
    MaxDepth = 4
    MaxNet = 2
INVARIANTS TypeOK ExactMarks TestsMarked
