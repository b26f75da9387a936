SPECIFICATION FairSpec
CONSTANTS
    i1 = i1
    i2 = i2
    p1 = p1
    p2 = p2
    None = None
    Ingesters <- MCIngesters
    Sources <- MCSources
    Paths <- MCPaths
    Owner <- MCOwner
    Specs <- SafetySpecs
    Absent <- SourceB
    MaxEdits = 2
INVARIANTS
    AdaptersMatchListing
    RouteOwned
    StatusTruthful
PROPERTIES
    NoNeedlessStop
    Converges
    StatusSettles
\* StartBlocks leaves nothing to do once the edits are used up.
CHECK_DEADLOCK FALSE
