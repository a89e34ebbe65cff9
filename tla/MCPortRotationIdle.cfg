SPECIFICATION FairSpec
CONSTANTS
    c1 = c1
    c2 = c2
    Conns <- TwoConns
    Nobody = Nobody
    QueueCap = 1
    InputCap = 1
    ReadAhead = 0
    MaxEpoch = 3
PROPERTY
    RotationCompletes
