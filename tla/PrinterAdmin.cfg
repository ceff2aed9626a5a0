SPECIFICATION Spec
CONSTANTS
    a = a
    b = b
    Name <- MCName
    BadName = BadName
    GoodText = GoodText
    BadText = BadText
    NoName = NoName
    NoMessage = NoMessage
    Absent = Absent
    MaxCopies = 2
    MaxCalls = 3
    MaxOthers = 1
SYMMETRY Symmetry
INVARIANTS FailureChangedNothing AddedIsProvisioned DefaultOfOnly
PROPERTIES RevivedOnlyListed
CHECK_DEADLOCK FALSE
