--------------------------- MODULE MCPrinterSync ---------------------------
EXTENDS PrinterSync
CONSTANTS p1, c1, c2
MCPrinter == {p1}
MCContent == {c1, c2}
=============================================================================
