SPECIFICATION SystemSpec
CONSTANTS
    MaxCalls = 2
    MaxPosts = 1
    MaxChunks = 1
    MAX_TURNS = 2
    Faults <- Sound
INVARIANT HeardIsRecorded
