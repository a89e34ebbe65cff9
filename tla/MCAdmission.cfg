SPECIFICATION Spec
CONSTANTS
    c1 = c1
    c2 = c2
    m1 = m1
    m2 = m2
    p1 = p1
    p2 = p2
    Conns <- TwoConns
    MACs <- TwoMACs
    PSKs <- TwoPSKs
    Clients <- Identities
    Tap = Tap
    None = None
    MaxPerSession = 2
    SessionLimits = {0, 1}
    V4Net <- V4Hosts
    V6Net <- V6Hosts
    V4Asked = {3, 9}
    V6Asked = {}
    MaxCreated = 2
    MaxOperations = 1
SYMMETRY AdmissionSymmetry
INVARIANT
    NoClosedPort
    LatestOwnsMAC
    AddressesExact
    BannedIsOffline
    NoOrphanConn
