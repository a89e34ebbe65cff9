CONSTANTS
    c1 = c1
    c2 = c2
    SeqSpace = 16
    Windows <- MCWindows
    Conns <- MCConns
    Sent <- MCSent
    QueueDepth = 1
    BatchCap = 2
    MaxEpoch = 2
    MaxReads = 2
    ChecksEpoch = TRUE
SPECIFICATION FairSpec
INVARIANTS
    RotationIsComplete
    NothingStranded
PROPERTIES
    NoStaleInsert
    ImplementsInOrderDelivery
    RotationAndCloseReturn
