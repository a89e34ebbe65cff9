SPECIFICATION FairSpec
CONSTANTS
    Conns = {c1, c2}
    Configs <- MCConfigs
    Reloads <- OneReload
    Responses <- OneResponse
    Modes <- TwoModes
INVARIANTS
    ExitUndoesSetup
    NetifdFollowsLinks
    OldConfigOnlyIfDialing
PROPERTIES
    ForcedRedial
    ShutdownCompletes
