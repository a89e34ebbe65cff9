SPECIFICATION Spec
CONSTANTS
    c1 = c1
    c2 = c2
    c3 = c3
    Conns <- TwoConns
    Fec = FALSE
    Encrypt = TRUE
    KillAnytime = TRUE
    MaxActive = 2
    MaxSid = 2
    MaxEpoch = 3
    MaxFaults = 2
    MaxSent = 2
INVARIANT
    LiveEpochHasOneRun
