CONSTANTS
    p1 = p1
    p2 = p2
    p3 = p3
    SeqSpace = 32
    Windows <- MCWindows
    K = 2
    MaxPending = 1
    DoneSlots = 8
    CleanupProbe = 2
    Paths <- TwoPaths
    MaxSeq = 4
    MaxBatch = 1
    MaxOutages = 1
SPECIFICATION Spec
SYMMETRY PathSymmetry
CHECK_DEADLOCK FALSE
INVARIANTS
    RecoversWithoutOutage
    FenceBeforeData
    BypassSafeWithEveryFence
    RetiredIsBehind
    RepairsSingleLoss
