------------------------------ MODULE MC_Assets ------------------------------
(***************************************************************************)
(* An instance of Assets for TLC: the ticker `one' reads as the number 1.  *)
(* The batches bring the same items in different orders, so that two or    *)
(* all three may wait in a circle, or one item twice, or none.             *)
(***************************************************************************)
EXTENDS Assets, TLC

CONSTANTS acme, one, zeta, call, put

MCNumeric == one :> 1

MCForms ==
  LET Contract(terms) == [underlying |-> 1, terms |-> terms]
      OfEquities(items) == [table |-> "equities", items |-> items]
      OfOptions(items)  == [table |-> "equity_options", items |-> items]
  IN  [b1 |-> {OfEquities(<<acme, one>>), OfEquities(<<one>>)},
       b2 |-> {OfEquities(<<one, acme>>), OfEquities(<<one, zeta>>), OfEquities(<<one, one>>),
               OfOptions(<<Contract(call), Contract(put)>>)},
       b3 |-> {OfEquities(<<zeta, acme>>), OfEquities(<<>>),
               OfOptions(<<Contract(put)>>), OfOptions(<<Contract(put), Contract(call)>>)}]
=============================================================================
