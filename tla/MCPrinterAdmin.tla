--------------------------- MODULE MCPrinterAdmin ---------------------------
EXTENDS PrinterAdmin, TLC
CONSTANTS a, b
MCName == {a, b}
Symmetry == Permutations(MCName)
=============================================================================
