SPECIFICATION Spec
CONSTANTS
    p1 = p1
    j1 = j1
    j2 = j2
    Own = Own
    other = other
    Printer <- MCPrinter
    Job <- MCTwoJobs
    PrinterOf <- MCPrinterOf
    Subscription <- MCBoth
    Worlds <- MCAloneOrTwice
    MaxChanges = 3
INVARIANTS ListedOnce OneLoad FoundAlone StateCurrent ListedWhileOpen
PROPERTIES DoneJobsGo Settles
CHECK_DEADLOCK FALSE
