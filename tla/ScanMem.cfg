SPECIFICATION Spec
CONSTANTS
    Procs <- MCProcs
    Self = "self"
    Loaded <- MCLoaded
    MaxInc = 2
    Files <- MCFiles
    Kinds <- MCKinds
    OptionSets <- MCOptions
    MaxTries = 3
    FirstVault <- MCVault
INVARIANTS
    OnlyKnownLeaks
    NoFileLost
    KillsTheInfected
    CacheIsTrue
    EveryInfectedAnswered
PROPERTY ScanEnds
CHECK_DEADLOCK FALSE
