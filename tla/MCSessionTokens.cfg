SPECIFICATION Spec
CONSTANTS
    c1 = c1
    c2 = c2
    c3 = c3
    Conns <- ThreeConns
    Fec = FALSE
    Encrypt = TRUE
    KillAnytime = FALSE
    MaxActive = 1
    MaxSid = 1
    MaxEpoch = 3
    MaxFaults = 1
    MaxSent = 1
SYMMETRY ConnSymmetry
INVARIANT
    SettledIsResumable
