SPECIFICATION Spec
CONSTANTS
    p1 = p1
    j1 = j1
    j2 = j2
    Own = Own
    other = other
    Printer <- MCPrinter
    Job <- MCTwoJobs
    PrinterOf <- MCPrinterOf
    Subscription <- MCBoth
    Worlds <- MCTwice
    MaxChanges = 3
INVARIANT JobsHavePrinters
CHECK_DEADLOCK FALSE
