SPECIFICATION FairSpec
CONSTANTS
    MaxTurns = 2
    MaxClauses = 2
    MaxTaps = 3
    Faults <- Any
INVARIANTS LiveInv OneAnswerAtATime HistoryPaired NoClipForgotten
PROPERTIES TurnsEnd
CHECK_DEADLOCK FALSE
