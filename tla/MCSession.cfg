SPECIFICATION FairSpec
CONSTANTS
    c1 = c1
    c2 = c2
    c3 = c3
    Conns <- TwoConns
    Fec = TRUE
    Encrypt = TRUE
    KillAnytime = TRUE
    MaxActive = 2
    MaxSid = 2
    MaxEpoch = 5
    MaxFaults = 1
    MaxSent = 0
INVARIANTS
    ActiveCountsHandlers
    IdleSessionIsTimed
    EpochHasOneTokenAndInstance
PROPERTIES
    RetentionSparesLiveSession
    EventuallyInService
