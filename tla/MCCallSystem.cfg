SPECIFICATION FairSystemSpec
CONSTANTS
    MaxCalls = 2
    MaxPosts = 2
    MaxChunks = 2
    MAX_TURNS = 2
    Faults <- Bad
INVARIANTS SystemInv OneTurnAtATime NoEcho HistoryBounded CallHistoryPaired
    SpokenOrder AudibleIsOnRecord
PROPERTIES StrayOnlyFromOldTurn FirstCallListens
