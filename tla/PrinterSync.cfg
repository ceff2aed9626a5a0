SPECIFICATION Spec
CONSTANTS
    p1 = p1
    c1 = c1
    c2 = c2
    Absent = Absent
    NoName = NoName
    Printer <- MCPrinter
    Content <- MCContent
    MaxVersion = 4
INVARIANTS OneLoad DataCurrent SettledInSync
PROPERTIES UpdatesInOrder AddedIsLoaded Settles
CHECK_DEADLOCK FALSE
