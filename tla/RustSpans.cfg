SPECIFICATION MCSpec
CONSTANT MaxTokens = 3
CHECK_DEADLOCK FALSE
INVARIANT TypeOK
INVARIANT SlicesLegal
INVARIANT LinesRight
INVARIANT SpansAreText
INVARIANT StripperKeepsCode
PROPERTY Terminates
