CONSTANTS
    r1 = r1
    r2 = r2
    SeqSpace = 16
    Windows <- MCWindows
    Readers <- MCReaders
    Sent <- MCSentToTheEnd
    Copies = 2
    OutQueue = 1
    MaxResets = 0
    MaxFrames = 3
SPECIFICATION Spec
SYMMETRY ReaderSymmetry
INVARIANT DeliveredInOrder
