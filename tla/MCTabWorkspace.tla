--------------------------- MODULE MCTabWorkspace ---------------------------
(* Constants of the TLC instance of TabWorkspace.                          *)
EXTENDS TabWorkspace, TLC

CONSTANTS t1, t2, r1, r2
Symmetric == Permutations(ScannerTabs) \union Permutations(Requests)
=============================================================================
