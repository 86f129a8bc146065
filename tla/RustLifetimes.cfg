SPECIFICATION MCSpec
CONSTANT MaxTokens = 3
CHECK_DEADLOCK FALSE
INVARIANT TextIsExact
