SPECIFICATION Spec
CONSTANTS
    Exposure <- MCExposure
    Zero <- MCZero
    Torn <- MCTorn
    Missing <- MCMissing
    Hosts <- MCToolHost
    MaxLevel = 2
    MaxEdits = 2
    MaxFails = 1
INVARIANT OriginalSaved
