SPECIFICATION Spec
CONSTANTS
    Printer <- MCPrinter
    NoPrinter <- MCNoPrinter
    Settings <- MCSettings
    QualityOptions <- MCQualityOptions
    Color <- MCColor
    NoColor <- MCNoColor
    Name <- MCName
    NoQuality <- MCNoQuality
    MaxCopies = 2
    MaxRanges = 2
    BlankIsTrue = TRUE
    Worlds <- MCWorlds
INVARIANTS QueueShowsSent RolesInRange FiltersExact CountsAnnounced
PROPERTIES PrintsAsMeant TwoSidedAgrees
CHECK_DEADLOCK FALSE
