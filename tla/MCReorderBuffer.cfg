CONSTANTS
    r1 = r1
    r2 = r2
    SeqSpace = 16
    Windows <- MCWindows
    Readers <- MCReaders
    Sent <- MCSent
    Copies = 2
    OutQueue = 1
    MaxResets = 1
    MaxFrames = 3
SPECIFICATION FairSpec
INVARIANTS
    HeldInsideWindow
    HeldFramesAreTimed
    NoLostWakeup
    NoStrandedBatch
PROPERTIES
    ImplementsInOrderDelivery
    DueGapEnds
    CloseCompletes
