SPECIFICATION FairSpec
CONSTANTS
    Conns = {c1, c2}
    Configs <- MCConfigs
    Reloads <- OneReload
    Responses <- TwoResponses
    Modes <- TwoModes
PROPERTY HookEnvironmentKept
