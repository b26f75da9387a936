SPECIFICATION FairSpec
CONSTANTS
    i1 = i1
    i2 = i2
    p1 = p1
    p2 = p2
    None = None
    Ingesters <- MCIngesters
    Sources <- MCSources
    Paths <- MCPaths
    Owner <- MCOwner
    Specs <- VersionSpecs
    Absent <- NoSource
    MaxEdits = 1
PROPERTY
    SpecApplied
