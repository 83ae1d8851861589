--------------------------- MODULE MC_OrderScript ---------------------------
(***************************************************************************)
(* Instances of OrderScript for TLC.                                       *)
(***************************************************************************)
EXTENDS OrderScript, TLC

MCPrices == {-1, 1}

Symmetry == Permutations(Accounts)
=============================================================================
