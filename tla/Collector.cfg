SPECIFICATION FairSpec
CONSTANTS
    c1 = c1
    c2 = c2
    None = None
    Objects <- TwoObjects
    Collectors <- TwoCollectors
    Namespaces <- Both
    WatchNamespace = "default"
    ChunkSize = 1
    TTLs <- Unset
    DefaultTTL = 1
    EnvSeconds = 1
    EnvDays = 0
    DayLength = 2
    MinTTL = 2
    MaxTTL = 3
    CreateUntil = 0
    MaxTime = 3
    MaxFailures = 1
INVARIANTS
    NeverEarly
    ScopeRespected
    CountersExact
PROPERTY
    Collected
