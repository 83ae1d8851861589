------------------------------- MODULE Trading -------------------------------
(***************************************************************************)
(* What the exchange promises its traders, without books, scores, hashes   *)
(* or scripts: orders arrive one at a time; the newcomer trades share for  *)
(* share with standing orders of the other side of the same asset, never   *)
(* above a buying newcomer's limit and cheapest offer first; then it       *)
(* stands with what is left or, if it was a market order, goes.  OrderScript *)
(* implements this specification.                                          *)
(***************************************************************************)
EXTENDS Integers

CONSTANTS
  Ids,      \* the ids orders are given
  Asset,    \* the assets traded
  Sides,    \* the two sides of a trade
  Price,    \* limits, a set of integers
  Size      \* sizes, a set of naturals

VARIABLES
  orders,   \* id -> an order that stands or is arriving
  taker     \* the id of the order that is arriving; {} when there is none

tradingVars == <<orders, taker>>

NewOrder == [asset : Asset, side : Sides, kind : {"market", "limit"},
             price : Price, size : Size, filled : {0}]

Left(o) == orders[o].size - orders[o].filled

TradingInit ==
  /\ orders = [o \in {} |-> {}]
  /\ taker  = {}

-----------------------------------------------------------------------------

Arrive(t) ==
  /\ taker = {}
  /\ t \in Ids \ DOMAIN orders
  /\ taker' = {t}
  /\ \E new \in NewOrder :
       orders' = [o \in DOMAIN orders \cup {t} |-> IF o = t THEN new ELSE orders[o]]

(***************************************************************************)
(* Orders that can trade with the newcomer t.                              *)
(***************************************************************************)
Counterparts(t) ==
  {m \in DOMAIN orders \ {t} :
     /\ orders[m].asset = orders[t].asset
     /\ orders[m].side # orders[t].side
     /\ Left(m) > 0}

Trade(t, m, q) ==
  /\ taker = {t}
  /\ m \in Counterparts(t)
  /\ q \in Nat /\ q <= Left(t) /\ q <= Left(m)
  /\ orders[t].side = "bids" =>
       /\ orders[m].price <= orders[t].price
       /\ \A n \in Counterparts(t) : orders[m].price <= orders[n].price
  /\ orders' = [o \in DOMAIN orders |->
                  IF o \in {t, m} THEN [orders[o] EXCEPT !.filled = @ + q] ELSE orders[o]]
  /\ UNCHANGED taker

(***************************************************************************)
(* Orders that are filled leave; nothing else makes a standing order leave. *)
(***************************************************************************)
Retire(S) ==
  /\ S \subseteq {o \in DOMAIN orders : Left(o) = 0} \ taker
  /\ orders' = [o \in DOMAIN orders \ S |-> orders[o]]
  /\ UNCHANGED taker

(***************************************************************************)
(* The newcomer is done: what is left of a limit order stands, a filled or *)
(* a market order goes.                                                    *)
(***************************************************************************)
Settle(t) ==
  /\ taker = {t}
  /\ taker' = {}
  /\ IF orders[t].kind = "limit" /\ Left(t) > 0
       THEN UNCHANGED orders
       ELSE orders' = [o \in DOMAIN orders \ {t} |-> orders[o]]

TradingNext ==
  \/ \E t \in Ids : Arrive(t) \/ Settle(t)
  \/ \E t, m \in DOMAIN orders : \E q \in 0 .. Left(t) : Trade(t, m, q)
  \/ \E S \in SUBSET DOMAIN orders : Retire(S)

TradingSpec == TradingInit /\ [][TradingNext]_tradingVars

=============================================================================
