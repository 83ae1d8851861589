----------------------------- MODULE MC_Paging -----------------------------
(***************************************************************************)
(* Instances of Paging for TLC: orders share the slots of the table.       *)
(***************************************************************************)
EXTENDS Paging, TLC

MCSlot == [o \in OrderIds |-> o % Slots]

Symmetry == Permutations(Accounts)
=============================================================================
