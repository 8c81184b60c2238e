SPECIFICATION Spec
CONSTANTS
    Ssrc = {p1}
    MAX_PEERS = 1
    Data <- MCData
    Pieces <- MCShortPieces
    MaxLen = 6
    MaxReturned = 1
    MaxAttach = 1
    PassMoves = 1
    Drops = FALSE
INVARIANTS TailNotToNextDevice
CHECK_DEADLOCK FALSE
