----------------------------- MODULE MCJobSync -----------------------------
(* Small instances of JobSync: jobs of one printer, with the own           *)
(* subscription alone or with a second one that signals everything too.    *)
EXTENDS JobSync
CONSTANTS p1, j1, j2, other
MCPrinter == {p1}
MCTwoJobs == {j1, j2}
MCPrinterOf == [j \in Job |-> p1]
MCBoth == {Own, other}
MCTwice == {[jobs |-> {j1}, subscriptions |-> {Own, other}]}
MCAloneOrTwice == {[jobs |-> {j1, j2}, subscriptions |-> {Own}]} \union MCTwice
=============================================================================
