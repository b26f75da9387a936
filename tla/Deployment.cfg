CONSTANTS
    Replicas = {r1, r2}
    Configs <- MCConfigs
    None = None
    f1 = f1
    f2 = f2
    Bad = Bad
    AllowAll = AllowAll
    Defaults <- MCDefaults
    Features <- MCFeatures
    Filters <- MCFilters
    Initial <- AtStart
    Editable <- Edited
    MaxEdits = 2
    Items = {i1, i2}
    Workers = {w1, w2}
    InitialSize = 1
    Sizes = {2}
    MaxUpdates = 2
SPECIFICATION MCSpec
INVARIANTS
    SingleActive
    SourcesCurrent
    OnePlace
PROPERTIES
    Failover
    ShutdownCompletes
\* A pool may have nothing more to do, a ConfigManager wait for itself.
CHECK_DEADLOCK FALSE
