SPECIFICATION Spec
CONSTANTS
    Tokens <- SomeTokens
    MinClause = 2
    MaxText = 9
    FirstMax = 4
    MaxPiece = 5
    MinPiece = 2
INVARIANTS SpeechIsTheAnswer ClausesEndSentences PiecesAreTheAnswer PiecesCanBeSpoken FirstPieceIsShort
CHECK_DEADLOCK FALSE
