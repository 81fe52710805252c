SPECIFICATION LlmSpec
CONSTANTS
    Tokens <- SomeTokens
    MinClause = 1
    MaxText = 5
    Wide <- Devanagari
    MaxWire = 7
    Junk <- AnyJunk
INVARIANTS OnlyTornIsLost WholeIsSpoken
CHECK_DEADLOCK FALSE
