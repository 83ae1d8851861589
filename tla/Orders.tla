------------------------------- MODULE Orders -------------------------------
(***************************************************************************)
(* The vocabulary of the order book: what an order form says once the API  *)
(* has parsed it, what Redis keeps of a resting order, and the price range *)
(* and priority the script order.lua sweeps the opposite book with.        *)
(*                                                                         *)
(* A UUIDv7 order id is a natural number: the sorted sets of Redis break   *)
(* score ties by comparing the ids byte by byte, and the only other thing  *)
(* the code needs of an id is that it is fresh.                            *)
(***************************************************************************)
EXTENDS Integers, FiniteSets

CONSTANTS
  Accounts,     \* account ids (UUIDv4)
  Assets,       \* asset ids (i32, not 0); the API takes any, registered or not
  OrderIds,     \* order ids, compared as numbers (UUIDv7)
  Prices,       \* the prices a form may carry (i32)
  Sizes,        \* the sizes a form may carry (u32)
  UnpackLimit   \* how many values Lua's unpack may push at once (8000)

ASSUME OrderIdsAssumption == OrderIds \subseteq Nat
ASSUME PricesAssumption   == Prices \subseteq Int
ASSUME SizesAssumption    == Sizes \subseteq Nat
ASSUME UnpackAssumption   == UnpackLimit \in Nat

-----------------------------------------------------------------------------

Books == {"bids", "offers"}

Opposite(side) == IF side = "bids" THEN "offers" ELSE "bids"

(***************************************************************************)
(* A request as the script receives it in KEYS and ARGV.  A market order   *)
(* carries no price and the script reads `price or 0'.                     *)
(***************************************************************************)
Requests ==
  LET Form(kinds, prices) ==
        [id : OrderIds, account : Accounts, asset : Assets, side : Books,
         kind : kinds, price : prices, size : Sizes]
  IN  Form({"market"}, {0}) \cup Form({"limit"}, Prices)

(***************************************************************************)
(* What the script is called with.  A limit bid has a positive price and   *)
(* size and an offer a positive size, or the reservation made before the   *)
(* call would have failed; a market bid reserves nothing and may have any  *)
(* size.  Exchange models the reservations and shows that this is so.      *)
(***************************************************************************)
Reservable(r) ==
  /\ r.side = "offers" => r.size > 0
  /\ r.side = "bids" /\ r.kind = "limit" => r.size > 0 /\ r.price > 0

(***************************************************************************)
(* The hash Redis keeps for a resting order.  `dollars' is the field       *)
(* dollar_volume_filled, `original' the field original_size.               *)
(***************************************************************************)
Resting == [account : Accounts, asset : Assets, price : Prices,
            size : Nat \ {0}, original : Nat, dollars : Int]

(***************************************************************************)
(* Sorted-set scores: bids are kept by negated price, so that ascending    *)
(* scores visit the highest bid and the lowest offer first.                *)
(***************************************************************************)
Score(side, price) == IF side = "bids" THEN -price ELSE price

(***************************************************************************)
(* The bounds of the ZRANGE ... BYSCORE the script runs on the opposite    *)
(* book: (-inf, price) for a buy, (-price, +inf) for a sell.               *)
(***************************************************************************)
\* Mutants of InRange: bounds that leave out the order's own price, and a buy that
\* reads the offers from its limit up.
InRangeExclusive(r, score) ==
  IF r.side = "bids" THEN score < r.price ELSE score > -r.price

InRangeUpwards(r, score) ==
  IF r.side = "bids" THEN score >= r.price ELSE score >= -r.price

InRange(r, score) ==
  IF r.side = "bids" THEN score <= r.price ELSE score >= -r.price

(***************************************************************************)
(* The order ZRANGE returns members in: by score, then by member.          *)
(***************************************************************************)
\* Mutant of Before: the order of arrival alone.
BeforeById(side, hash, o, p) == o < p

Before(side, hash, o, p) ==
  LET so == Score(side, hash[o].price)
      sp == Score(side, hash[p].price)
  IN  so < sp \/ (so = sp /\ o < p)

(***************************************************************************)
(* The members of the opposite book the script sweeps, given the book and  *)
(* the hashes it finds.                                                    *)
(***************************************************************************)
Candidates(r, book, hash) ==
  {o \in book[r.asset][Opposite(r.side)] :
     InRange(r, Score(Opposite(r.side), hash[o].price))}

-----------------------------------------------------------------------------
(***************************************************************************)
(* What the keys of Redis must satisfy together, for the properties of the *)
(* modules that change them.                                               *)
(***************************************************************************)

\* Every member of a book has a hash of its asset, every hash is in exactly one
\* book, and what an account's set lists is an order of that account.
Agree(book, hash, open) ==
  /\ \A a \in Assets, s \in Books : \A o \in book[a][s] :
       o \in DOMAIN hash /\ hash[o].asset = a
  /\ \A o \in DOMAIN hash : \E s \in Books :
       o \in book[hash[o].asset][s] /\ o \notin book[hash[o].asset][Opposite(s)]
  /\ \A c \in Accounts : \A o \in open[c] :
       o \in DOMAIN hash /\ hash[o].account = c

\* No bid and offer of one asset rest at the same price.
Unlocked(book, hash) ==
  \A a \in Assets : \A b \in book[a]["bids"], o \in book[a]["offers"] :
    hash[b].price # hash[o].price

\* A resting bid's dollar volume is at most its limit times the shares bought.
NoOverpayment(book, hash) ==
  \A a \in Assets : \A b \in book[a]["bids"] :
    hash[b].dollars <= hash[b].price * (hash[b].original - hash[b].size)

=============================================================================
