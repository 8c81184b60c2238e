SPECIFICATION Spec
CONSTANTS
    Packets <- MCPackets
    Bridged = {0, 1}
    SYSEX_SEG = 7
    USB_BATCH = 2
    QueueLen = 2
    MaxPackets = 5
    MaxSession = 2
    PassSessions = 2
    MaxAttach = 2
    PassMoves = 1
INVARIANTS FirstPeerTold
CHECK_DEADLOCK FALSE
