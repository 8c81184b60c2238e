\* One socket, a ring of three slots that fills and wraps, with or without the receive task.
SPECIFICATION FairSpec
CONSTANTS
    s1 = s1
    NoSock = NoSock
    Sock = {s1}
    NSlots = 3
    Mbox = 2
    MaxAccept = 5
    MaxEmpty = 1
INVARIANTS SlotNotShared NeverPumpsAClosedSocket
PROPERTIES ImplementsFifo EventuallyDelivered
