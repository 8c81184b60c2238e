SPECIFICATION FairSpec
CONSTANTS
    QueueLen = 2
    Mps = 2
    MaxWrites = 5
    MaxAttach = 2
INVARIANTS Accounted InOrder OnlyToItsDevice
PROPERTIES EventuallyResolved
