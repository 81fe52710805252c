SPECIFICATION Spec
CONSTANTS
    FrameMs <- Frame16k
    MIN_VOICED_MS = 250
    PAUSE_MIN_MS = 220
    TURN_EVERY_MS = 160
    HARD_STOP_MS = 500
    BufFrames = 3
    Texts = {"reset", "garbled"}
    MaxInbox = 2
    MaxTurns = 2
    MaxClauses = 1
INVARIANTS
    OneReplyAtATime SpeakingHasReply FloorInv HistoryPaired ResetForgets
    PauseBeforeAsking RecordingsFaithful
PROPERTIES AudioIsInterruptible TakesTurns
