CONSTANTS
    a1 = a1
    a2 = a2
    Adapters = {a1, a2}
    Objects = {o1}
    Configs <- MCConfigs
    Capacity = 1
    MaxChanges <- MCMaxChanges
    MaxResyncs = 1
    Pods = {p1, p2}
    MaxStreams = 2
    None = None
SPECIFICATION Spec
INVARIANTS
    NothingMissed
    OneStreamPerPod
PROPERTIES
    GoneUnwatched
CHECK_DEADLOCK FALSE
