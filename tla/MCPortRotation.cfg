SPECIFICATION Spec
CHECK_DEADLOCK FALSE
CONSTANTS
    c1 = c1
    c2 = c2
    Conns <- TwoConns
    Nobody = Nobody
    QueueCap = 2
    InputCap = 1
    ReadAhead = 1
    MaxEpoch = 3
SYMMETRY ConnSymmetry
PROPERTY
    NumbersMatchKey
