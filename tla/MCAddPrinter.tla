---------------------------- MODULE MCAddPrinter ----------------------------
(* Two drivers; a filter h, its continuation hp, and c, which fits none of *)
(* what h fits.                                                            *)
EXTENDS AddPrinter

MCDriver == {"canon", "hp"}
MCCatalogues == {{"hp"}, {"canon", "hp"}}
MCPattern == {"h", "hp", "c"}
MCMatched == [p \in MCPattern |-> IF p = "c" THEN {"canon"} ELSE {"hp"}]
MCContinues == {<<p, p>> : p \in MCPattern} \cup {<<"h", "hp">>}
=============================================================================
