SPECIFICATION CallSpec
CONSTANTS
    FrameMs <- Frame16k
    MIN_VOICED_MS = 250
    PAUSE_MIN_MS = 220
    TURN_EVERY_MS = 160
    HARD_STOP_MS = 250
    BufFrames = 1
    Texts = {}
    MaxInbox = 1
    MaxTurns = 2
    MaxClauses = 1
PROPERTY BargeSilencesReply
