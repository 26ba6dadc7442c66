SPECIFICATION BringUpSpec
CONSTANTS
    MaxEdits = 1
    NoImage = NoImage
    SocImage = SocImage
    Chunks = 2
    Cases = 2
    MaxFaults = 1
    WireMax = 3
    MaxCommands = 4
INVARIANTS
    TypeOK
    FlashedIsThisBuild
    HeadlineEarned
    CatalogueAsDocumented
PROPERTIES
    EveryCommandReturns
CHECK_DEADLOCK FALSE
