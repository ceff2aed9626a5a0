SPECIFICATION Spec
CONSTANTS
    Exposure <- MCExposure
    Zero <- MCZero
    Torn <- MCTorn
    Missing <- MCMissing
    Hosts <- MCHosts
    MaxLevel = 2
    MaxEdits = 2
    MaxFails = 1
INVARIANTS AtLevel OriginalKept DiesOfMishaps
PROPERTIES HistorySpec OnlyRevertDrops EditEnds
