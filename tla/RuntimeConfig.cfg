SPECIFICATION FairSpec
CONSTANTS
    f1 = f1
    f2 = f2
    Bad = Bad
    None = None
    AllowAll = AllowAll
    Defaults <- MCDefaults
    Features <- MCFeatures
    Filters <- MCFilters
    Initial <- AtStart
    Editable <- Edited
    MaxEdits = 2
PROPERTIES
    StartupCompletes
    FilterSettles
\* A usable base or environment ConfigMap makes a goroutine wait for itself.
CHECK_DEADLOCK FALSE
