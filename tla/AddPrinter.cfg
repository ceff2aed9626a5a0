CONSTANTS
    Driver <- MCDriver
    Catalogues <- MCCatalogues
    Pattern <- MCPattern
    NoFilter = NoFilter
    Matched <- MCMatched
    Continues <- MCContinues
    MaxLoads = 2
    MaxTyped = 3
    Device = {d1, d2, bare}
    Wanted = {d1, d2}
    Finished = Finished
    MaxFound = 2
SPECIFICATION Spec
INVARIANTS
    FilterShown
    DevicesOfSearch
PROPERTIES
    FilterCompletes
    DeviceSearchEnds
