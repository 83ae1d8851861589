---------------------------- MODULE MC_OrderBook ----------------------------
(***************************************************************************)
(* Instances of OrderBook for TLC: the sets of integers a .cfg cannot      *)
(* write, and the symmetry of the accounts.                                *)
(***************************************************************************)
EXTENDS OrderBook, TLC

MCPrices == {-1, 1, 2}

Symmetry == Permutations(Accounts)
=============================================================================
