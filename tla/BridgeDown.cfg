SPECIFICATION Spec
CONSTANTS
    Ssrc = {p1, p2}
    MAX_PEERS = 2
    Data <- MCData
    Pieces <- MCPieces
    MaxLen = 6
    MaxReturned = 2
    MaxAttach = 2
    PassMoves = 1
    Drops = TRUE
INVARIANTS PeersAgree Stitched SessionEndsClosed
PROPERTIES CountedWhole
CHECK_DEADLOCK FALSE
