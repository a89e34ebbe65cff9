CONSTANTS
    p1 = p1
    p2 = p2
    p3 = p3
    SeqSpace = 32
    Windows <- MCWindows
    K = 2
    MaxPending = 2
    DoneSlots = 8
    CleanupProbe = 2
    Paths <- TwoPaths
    MaxSeq = 3
    MaxBatch = 1
    MaxOutages = 1
SPECIFICATION Spec
SYMMETRY PathSymmetry
CHECK_DEADLOCK FALSE
INVARIANTS
    RecoversWhatWasSent
