CONSTANTS
    Items = {i1, i2}
    Workers = {w1}
    InitialSize = 1
    Sizes = {2}
    MaxUpdates = 3
    None = None
SPECIFICATION Spec
PROPERTIES
    Served
    PoolStops
CHECK_DEADLOCK FALSE
