SPECIFICATION FairSpec
CONSTANTS
    FrameMs <- Frame48k
    MIN_VOICED_MS = 250
    PAUSE_MIN_MS = 220
    TURN_EVERY_MS = 160
    HARD_STOP_MS = 1000
    BufFrames = 6
    Texts = {}
    MaxInbox = 1
    MaxTurns = 2
    MaxClauses = 0
PROPERTIES UtteranceAnswered FloorReturns
