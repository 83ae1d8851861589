----------------------------- MODULE MC_Exchange -----------------------------
(***************************************************************************)
(* Instances of Exchange for TLC.                                          *)
(***************************************************************************)
EXTENDS Exchange, TLC

CONSTANTS alice, bob

Symmetry == Permutations({alice, bob})
MCPrices == {-1, 2}
=============================================================================
