SPECIFICATION Spec
CONSTANTS
    b1 = b1
    b2 = b2
    None = None
    Slots <- MCSlots
    QueueCap = 3
    WriteLimit = 3
    Sizes <- MCSizes
    ParityBytes = 2
    Thresholds <- MCThresholds
    CarryBonus = 1
    RTTs <- MCRTTs
INVARIANTS
    QueuedBytesExact
    DebtsBounded
PROPERTIES
    SlotHolds
    ActivePathsShare
