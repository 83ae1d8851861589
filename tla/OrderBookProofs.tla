--------------------------- MODULE OrderBookProofs ---------------------------
(***************************************************************************)
(* What one command does to the keys of Redis, for every instance of       *)
(* OrderBook: the three structures agree, the book is never locked, buyers *)
(* never overpay, and the shares the sweep moves add up.                   *)
(***************************************************************************)
EXTENDS OrderBook, Sums

(***************************************************************************)
(* The strengthening: ids are never reused, so a newcomer has no hash yet, *)
(* and only finitely many orders have come, so that the sums of the sweep  *)
(* are numbers.                                                            *)
(***************************************************************************)
BookInv == BookTypeOK /\ IsFiniteSet(seen) /\ StoresAgree

(***************************************************************************)
(* What the command of request r leaves of the order o it finds, and what  *)
(* it may add.                                                             *)
(***************************************************************************)
Survives(o) ==
  /\ o \in DOMAIN hash
  /\ hash'[o].account = hash[o].account
  /\ hash'[o].asset = hash[o].asset
  /\ hash'[o].price = hash[o].price
  /\ hash'[o].size <= hash[o].size
  /\ hash'[o].original = hash[o].original
  /\ hash'[o].dollars = hash[o].dollars

Enters(r) ==
  /\ r.kind = "limit"
  /\ hash'[r.id].account = r.account
  /\ hash'[r.id].asset = r.asset
  /\ hash'[r.id].price = r.price
  /\ hash'[r.id].size = Unfilled(r) /\ hash'[r.id].size \in 1 .. r.size
  /\ hash'[r.id].original = r.size
  /\ hash'[r.id].dollars = Dollars(r)

Command(r) ==
  /\ \A o \in DOMAIN hash' : Survives(o) \/ (o = r.id /\ Enters(r))
  /\ \A a \in Assets, s \in Books : \A o \in book'[a][s] :
       o \in book[a][s] \/ (o = r.id /\ a = r.asset /\ s = r.side)

-----------------------------------------------------------------------------

\* Requests have the fields the script unpacks.
LEMMA RequestType ==
  ASSUME NEW r \in Requests
  PROVE  /\ r.id \in OrderIds /\ r.account \in Accounts /\ r.asset \in Assets
         /\ r.side \in Books /\ r.size \in Nat /\ r.price \in Int
         /\ r.kind \in {"market", "limit"}
         /\ r.kind = "limit" => r.price \in Prices
<1>1. /\ r \in [id : OrderIds, account : Accounts, asset : Assets, side : Books,
                kind : {"market", "limit"}, price : Prices \cup {0}, size : Sizes]
      /\ IF r.kind = "market" THEN r.price = 0 ELSE r.price \in Prices
  BY DEF Requests
<1>2. /\ r.id \in OrderIds /\ r.account \in Accounts /\ r.asset \in Assets
      /\ r.side \in Books /\ r.kind \in {"market", "limit"}
      /\ r.price \in Prices \cup {0} /\ r.size \in Sizes
  BY <1>1
<1>3. r.kind = "market" \/ r.kind = "limit"
  BY <1>2
<1>4. r.price \in Int
  <2>1. CASE r.price \in Prices
    BY <2>1, PricesAssumption
  <2>2. CASE r.price = 0
    BY <2>2
  <2>3. QED
    BY <1>2, <2>1, <2>2
<1>5. r.size \in Nat
  BY <1>2, SizesAssumption
<1>6. QED
  BY <1>1, <1>2, <1>3, <1>4, <1>5

\* A partly filled candidate keeps every field but its size, which shrinks and
\* stays positive.
LEMMA ShrunkEntry ==
  ASSUME NEW r, NEW h, NEW o \in DOMAIN h, h[o] \in Resting, hash[o] = h[o]
  PROVE  /\ DOMAIN Shrunk(r, h) = DOMAIN h
         /\ Shrunk(r, h)[o] \in Resting
         /\ Shrunk(r, h)[o].account = h[o].account
         /\ Shrunk(r, h)[o].asset = h[o].asset
         /\ Shrunk(r, h)[o].price = h[o].price
         /\ Shrunk(r, h)[o].original = h[o].original
         /\ Shrunk(r, h)[o].dollars = h[o].dollars
         /\ Shrunk(r, h)[o].size =
              IF o \in Partial(r) THEN h[o].size - SharesLeft(r, o) ELSE h[o].size
         /\ Shrunk(r, h)[o].size <= h[o].size
<1>1. CASE o \in Partial(r)
  <2>1. SharesLeft(r, o) \in 1 .. h[o].size - 1
    BY <1>1 DEF Partial
  <2>2. Shrunk(r, h)[o] = [h[o] EXCEPT !.size = @ - SharesLeft(r, o)]
    BY <1>1 DEF Shrunk
  <2>3. h[o].size - SharesLeft(r, o) \in Nat \ {0} /\ h[o].size - SharesLeft(r, o) <= h[o].size
    BY <2>1 DEF Resting
  <2> QED BY <1>1, <2>2, <2>3 DEF Shrunk, Resting
<1>2. CASE o \notin Partial(r)
  BY <1>2 DEF Shrunk, Resting
<1> QED BY <1>1, <1>2

\* The orders a sweep completes are on the book opposite to the newcomer's.
LEMMA CompletedOpposite ==
  ASSUME NEW r \in Requests
  PROVE  Completed(r) \subseteq book[r.asset][Opposite(r.side)]
  BY DEF Completed, Candidates


LEMMA OppositeType ==
  ASSUME NEW s \in Books
  PROVE  Opposite(s) \in Books /\ Opposite(s) # s /\ Opposite(Opposite(s)) = s
  BY DEF Books, Opposite

-----------------------------------------------------------------------------
(***************************************************************************)
(* The sweep.                                                              *)
(***************************************************************************)

Sweep(r) == Candidates(r, book, hash)

\* Every hash holds numbers, and there are finitely many of them.
LEMMA HashFacts ==
  ASSUME BookInv
  PROVE  /\ IsFiniteSet(DOMAIN hash)
         /\ \A o \in DOMAIN hash :
              /\ o \in Nat
              /\ hash[o].size \in Nat \ {0} /\ hash[o].price \in Int
              /\ hash[o].original \in Nat /\ hash[o].dollars \in Int
<1>1. DOMAIN hash \subseteq seen /\ seen \subseteq OrderIds /\ IsFiniteSet(seen)
  BY DEF BookInv, BookTypeOK
<1>2. IsFiniteSet(DOMAIN hash)
  BY <1>1, FS_Subset
<1>3. \A o \in DOMAIN hash : o \in Nat /\ hash[o] \in Resting
  BY <1>1, OrderIdsAssumption DEF BookInv, BookTypeOK
<1> QED BY <1>2, <1>3, PricesAssumption DEF Resting

LEMMA SweepFacts ==
  ASSUME BookInv, NEW r \in Requests
  PROVE  /\ Sweep(r) \subseteq DOMAIN hash /\ IsFiniteSet(Sweep(r))
         /\ Completed(r) \subseteq Sweep(r) /\ Partial(r) \subseteq Sweep(r)
<1>1. Sweep(r) \subseteq DOMAIN hash
  BY RequestType, OppositeType DEF Sweep, Candidates, BookInv, StoresAgree, Agree
<1> QED BY <1>1, HashFacts, FS_Subset DEF Sweep, Completed, Partial

\* Sums of sizes: naturals, grown by an order's size when it is added, and by any set
\* of orders.
LEMMA SumSizesFacts ==
  ASSUME BookInv
  PROVE  /\ SumSizes({}) = 0
         /\ \A S \in SUBSET DOMAIN hash : SumSizes(S) \in Nat
         /\ \A S \in SUBSET DOMAIN hash : \A e \in DOMAIN hash \ S :
              SumSizes(S \cup {e}) = hash[e].size + SumSizes(S)
         /\ \A S \in SUBSET DOMAIN hash : \A T \in SUBSET S : SumSizes(T) <= SumSizes(S)
<1> DEFINE w == [o \in DOMAIN hash |-> hash[o].size]
<1>1. \A S : SumSizes(S) = SumFunctionOnSet(w, S)
  BY DEF SumSizes
<1>2. \A o \in DOMAIN hash : w[o] = hash[o].size /\ w[o] \in Nat
  BY HashFacts
<1>3. \A S \in SUBSET DOMAIN hash : IsFiniteSet(S)
  BY HashFacts, FS_Subset
<1> HIDE DEF w
<1>4. SumSizes({}) = 0
  BY <1>1, SumEmpty
<1>5. \A S \in SUBSET DOMAIN hash : SumSizes(S) \in Nat
  BY <1>1, <1>2, <1>3, SumNat
<1>6. ASSUME NEW S \in SUBSET DOMAIN hash, NEW e \in DOMAIN hash \ S
      PROVE  SumSizes(S \cup {e}) = hash[e].size + SumSizes(S)
  BY <1>1, <1>2, <1>3, SumAdd
<1>7. ASSUME NEW S \in SUBSET DOMAIN hash, NEW T \in SUBSET S
      PROVE  SumSizes(T) <= SumSizes(S)
  BY <1>1, <1>2, <1>3, SumSubset
<1> QED BY <1>4, <1>5, <1>6, <1>7

\* The order of ZRANGE is a strict total order.
LEMMA Precedence ==
  ASSUME BookInv, NEW s
  PROVE  /\ \A o \in DOMAIN hash : ~Before(s, hash, o, o)
         /\ \A o, p \in DOMAIN hash : o # p => Before(s, hash, o, p) \/ Before(s, hash, p, o)
         /\ \A o, p, q \in DOMAIN hash :
              Before(s, hash, o, p) /\ Before(s, hash, p, q) => Before(s, hash, o, q)
<1>1. \A o \in DOMAIN hash : o \in Nat /\ Score(s, hash[o].price) \in Int
  BY HashFacts DEF Score
<1> QED BY <1>1 DEF Before

\* Of finitely many orders one is the last.
LEMMA LastOrder ==
  ASSUME BookInv, NEW s, NEW T \in SUBSET DOMAIN hash, T # {}
  PROVE  \E o \in T : \A p \in T \ {o} : Before(s, hash, p, o)
<1> DEFINE Last(t, o) == o \in t /\ \A p \in t \ {o} : Before(s, hash, p, o)
           D == {t \in SUBSET T : t # {} /\ ~\E o \in t : Last(t, o)}
<1>1. SUFFICES ASSUME D # {} PROVE FALSE
  BY <1>1
<1>2. PICK t \in D : \A u \in D : u \subseteq t => u = t
  <2> HIDE DEF D
  <2>1. D \in SUBSET SUBSET T /\ IsFiniteSet(T)
    BY HashFacts, FS_Subset DEF D
  <2> QED BY <1>1, <2>1, SmallestSubset
<1>3. t \in SUBSET T /\ \A o \in t : ~Last(t, o)
  OBVIOUS
<1>4. PICK x \in t : TRUE
  OBVIOUS
<1>5. t \ {x} # {}
  BY <1>3, <1>4
<1>6. PICK y \in t \ {x} : Last(t \ {x}, y)
  <2>1. t \ {x} \in SUBSET T /\ t \ {x} \notin D
    BY <1>2, <1>3, <1>4
  <2>2. \E o \in t \ {x} : Last(t \ {x}, o)
    BY <1>5, <2>1
  <2> QED BY <2>2
<1>7. \/ Before(s, hash, x, y)
      \/ Before(s, hash, y, x)
  BY <1>3, <1>4, <1>6, Precedence
<1>8. CASE Before(s, hash, x, y)
  <2>1. Last(t, y)
    BY <1>6, <1>8
  <2> QED BY <1>3, <1>6, <2>1
<1>9. CASE Before(s, hash, y, x)
  <2>1. \A p \in t \ {x} : p = y \/ Before(s, hash, p, y)
    BY <1>6
  <2>2. \A p \in t \ {x} : Before(s, hash, p, x)
    BY <1>3, <1>4, <1>6, <1>9, <2>1, Precedence
  <2> QED BY <1>3, <1>4, <2>2
<1> QED BY <1>7, <1>8, <1>9

\* The dollar volume is an integer.
LEMMA DollarsType ==
  ASSUME BookInv, NEW r \in Requests
  PROVE  Dollars(r) \in Int
<1> DEFINE v == [o \in Completed(r) |-> Score(Opposite(r.side), hash[o].price) * hash[o].size]
<1>1. IsFiniteSet(Completed(r)) /\ Completed(r) \subseteq DOMAIN hash
  BY SweepFacts, FS_Subset
<1>2. \A o \in Completed(r) : v[o] \in Int
  BY <1>1, HashFacts DEF Score
<1>3. Dollars(r) = SumFunctionOnSet(v, Completed(r))
  BY DEF Dollars, SumFunction
<1> QED BY <1>1, <1>2, <1>3, SumInt

\* What the reply says was filled is a number of shares.
LEMMA FilledType ==
  ASSUME BookInv, NEW r \in Requests
  PROVE  /\ Unfilled(r) \in Int /\ Unfilled(r) <= r.size
         /\ Filled(r) = IF Unfilled(r) > 0 THEN r.size - Unfilled(r) ELSE r.size
         /\ Filled(r) \in Nat
<1>1. SumSizes(Sweep(r)) \in Nat
  BY SweepFacts, SumSizesFacts
<1>2. r.size \in Nat
  BY RequestType
<1>3. Unfilled(r) = r.size - SumSizes(Sweep(r))
  BY DEF Unfilled, Sweep
<1>4. Unfilled(r) \in Int /\ Unfilled(r) <= r.size
  BY <1>1, <1>2, <1>3
<1>5. Max({0, Unfilled(r)}) = IF Unfilled(r) > 0 THEN Unfilled(r) ELSE 0
  BY <1>4 DEF Max
<1> QED BY <1>2, <1>4, <1>5 DEF Filled

(***************************************************************************)
(* How far the sweep gets.                                                 *)
(***************************************************************************)

\* The loop reaches o with what the candidates ahead of it have left.
LEMMA AheadFacts ==
  ASSUME BookInv, NEW r \in Requests, NEW o \in Sweep(r)
  PROVE  /\ Ahead(r, o) \subseteq Sweep(r) /\ o \notin Ahead(r, o)
         /\ SharesLeft(r, o) \in Int /\ SharesLeft(r, o) <= r.size
         /\ SharesLeft(r, o) = r.size - SumSizes(Ahead(r, o))
         /\ SumSizes(Ahead(r, o) \cup {o}) = hash[o].size + SumSizes(Ahead(r, o))
<1>1. o \in DOMAIN hash /\ Sweep(r) \subseteq DOMAIN hash
  BY SweepFacts
<1>2. Ahead(r, o) \subseteq Sweep(r)
  BY DEF Ahead, Sweep
<1>3. o \notin Ahead(r, o)
  BY <1>1, Precedence DEF Ahead
<1>4. Ahead(r, o) \in SUBSET DOMAIN hash /\ o \in DOMAIN hash \ Ahead(r, o)
  BY <1>1, <1>2, <1>3
<1>5. /\ SumSizes(Ahead(r, o)) \in Nat
      /\ SumSizes(Ahead(r, o) \cup {o}) = hash[o].size + SumSizes(Ahead(r, o))
  BY <1>4, SumSizesFacts
<1>6. SharesLeft(r, o) = r.size - SumSizes(Ahead(r, o)) /\ r.size \in Nat
  BY RequestType DEF SharesLeft
<1> QED BY <1>2, <1>3, <1>5, <1>6

\* A newcomer that is not filled has completed every candidate.
LEMMA SweepCompletes ==
  ASSUME BookInv, NEW r \in Requests, Unfilled(r) >= 0
  PROVE  Completed(r) = Sweep(r)
<1>1. SUFFICES ASSUME NEW o \in Sweep(r) PROVE o \in Completed(r)
  BY SweepFacts
<1>2. Ahead(r, o) \cup {o} \in SUBSET Sweep(r) /\ Sweep(r) \in SUBSET DOMAIN hash
  BY AheadFacts, SweepFacts
<1>3. SumSizes(Ahead(r, o) \cup {o}) <= SumSizes(Sweep(r))
  BY <1>2, SumSizesFacts
<1>4. hash[o].size + SumSizes(Ahead(r, o)) <= r.size
  <2>1. SumSizes(Sweep(r)) \in Nat /\ Unfilled(r) = r.size - SumSizes(Sweep(r))
    BY <1>2, SumSizesFacts DEF Unfilled, Sweep
  <2>2. SumSizes(Ahead(r, o) \cup {o}) \in Nat
    BY <1>2, SumSizesFacts
  <2>3. r.size \in Nat /\ SumSizes(Ahead(r, o) \cup {o}) <= r.size
    BY <1>3, <2>1, <2>2, RequestType
  <2> QED BY <2>3, AheadFacts
<1>5. SumSizes(Ahead(r, o)) \in Nat /\ hash[o].size \in Nat \ {0} /\ r.size \in Nat
  BY <1>2, SumSizesFacts, HashFacts, RequestType
<1>6. SharesLeft(r, o) = r.size - SumSizes(Ahead(r, o))
  BY AheadFacts
<1>7. hash[o].size <= SharesLeft(r, o) /\ SharesLeft(r, o) > 0
  BY <1>4, <1>5, <1>6
<1> QED BY <1>7 DEF Completed, Sweep

\* What the sweep takes from a candidate.
Taken(r, o) ==
  IF o \in Completed(r) THEN hash[o].size
  ELSE IF o \in Partial(r) THEN SharesLeft(r, o)
  ELSE 0

LEMMA TakenClamped ==
  ASSUME BookInv, NEW r \in Requests, NEW o \in Sweep(r)
  PROVE  /\ Taken(r, o) \in Nat
         /\ Taken(r, o) = IF SharesLeft(r, o) <= 0 THEN 0
                          ELSE IF hash[o].size <= SharesLeft(r, o) THEN hash[o].size
                          ELSE SharesLeft(r, o)
<1>1. SharesLeft(r, o) \in Int /\ hash[o].size \in Nat \ {0}
  BY AheadFacts, HashFacts, SweepFacts
<1>2. o \in Completed(r) <=> SharesLeft(r, o) > 0 /\ hash[o].size <= SharesLeft(r, o)
  BY DEF Completed, Sweep
<1>3. o \in Partial(r) <=> SharesLeft(r, o) \in 1 .. hash[o].size - 1
  BY DEF Partial, Sweep
<1> QED BY <1>1, <1>2, <1>3 DEF Taken

TakenFrom(r, S) == SumFunctionOnSet([o \in Sweep(r) |-> Taken(r, o)], S)

\* From the candidates up to any point the sweep takes all they have or, if that
\* is less, all the newcomer wants.
LEMMA PrefixTaken ==
  ASSUME BookInv, NEW r \in Requests, NEW T \in SUBSET Sweep(r),
         \A o \in T : Ahead(r, o) \subseteq T
  PROVE  TakenFrom(r, T) = IF SumSizes(T) <= r.size THEN SumSizes(T) ELSE r.size
<1> DEFINE side == Opposite(r.side)
           Prefix(t) == \A o \in t : Ahead(r, o) \subseteq t
           Good(t) == TakenFrom(r, t) = IF SumSizes(t) <= r.size THEN SumSizes(t) ELSE r.size
           D == {t \in SUBSET T : Prefix(t) /\ ~Good(t)}
<1>1. SUFFICES ASSUME D # {} PROVE FALSE
  BY <1>1
<1>2. PICK t \in D : \A u \in D : u \subseteq t => u = t
  <2> HIDE DEF D
  <2>1. D \in SUBSET SUBSET T /\ IsFiniteSet(T)
    BY SweepFacts, FS_Subset DEF D
  <2> QED BY <1>1, <2>1, SmallestSubset
<1>3. t \in SUBSET T /\ Prefix(t) /\ ~Good(t)
  OBVIOUS
<1>4. t \in SUBSET DOMAIN hash /\ T \in SUBSET DOMAIN hash
  BY <1>3, SweepFacts
<1>5. r.size \in Nat
  BY RequestType
<1>6. t # {}
  <2>1. TakenFrom(r, {}) = 0 /\ SumSizes({}) = 0
    BY SumEmpty, SumSizesFacts DEF TakenFrom
  <2> QED BY <1>3, <1>5, <2>1
<1>7. PICK o \in t : \A p \in t \ {o} : Before(side, hash, p, o)
  BY <1>4, <1>6, LastOrder
<1>8. t = Ahead(r, o) \cup {o} /\ o \in Sweep(r)
  BY <1>3, <1>7 DEF Ahead, Sweep
<1>9. Prefix(Ahead(r, o))
  <2> SUFFICES ASSUME NEW p \in Ahead(r, o), NEW q \in Ahead(r, p)
               PROVE  q \in Ahead(r, o)
    OBVIOUS
  <2>1. /\ p \in Sweep(r) /\ q \in Sweep(r)
        /\ Before(side, hash, q, p) /\ Before(side, hash, p, o)
    BY DEF Ahead, Sweep
  <2>2. Before(side, hash, q, o)
    BY <1>8, <2>1, SweepFacts, Precedence
  <2> QED BY <2>1, <2>2 DEF Ahead, Sweep
<1>10. Good(Ahead(r, o))
  <2>1. Ahead(r, o) \in SUBSET T /\ Ahead(r, o) # t /\ Ahead(r, o) \subseteq t
    BY <1>3, <1>8, AheadFacts
  <2>2. Ahead(r, o) \notin D
    BY <1>2, <2>1
  <2> QED BY <1>9, <2>1, <2>2
<1> DEFINE a == SumSizes(Ahead(r, o))
<1>11. SumSizes(t) = hash[o].size + a
  BY <1>8, AheadFacts
<1>12. TakenFrom(r, t) = Taken(r, o) + TakenFrom(r, Ahead(r, o))
  <2> DEFINE w == [p \in Sweep(r) |-> Taken(r, p)]
  <2>1. IsFiniteSet(Ahead(r, o)) /\ o \notin Ahead(r, o) /\ Ahead(r, o) \subseteq Sweep(r)
    BY <1>8, AheadFacts, SweepFacts, FS_Subset
  <2>2. \A p \in Ahead(r, o) \cup {o} : w[p] \in Int
    BY <1>8, <2>1, TakenClamped
  <2>3. w[o] = Taken(r, o)
    BY <1>8
  <2> HIDE DEF w
  <2>4. SumFunctionOnSet(w, Ahead(r, o) \cup {o}) = w[o] + SumFunctionOnSet(w, Ahead(r, o))
    BY <2>1, <2>2, SumAdd
  <2> QED BY <1>8, <2>3, <2>4 DEF TakenFrom, w
<1>13. a \in Nat /\ hash[o].size \in Nat \ {0} /\ SharesLeft(r, o) = r.size - a
  BY <1>4, <1>8, AheadFacts, SumSizesFacts, HashFacts
<1>14. Taken(r, o) = IF r.size - a <= 0 THEN 0
                     ELSE IF hash[o].size <= r.size - a THEN hash[o].size
                     ELSE r.size - a
  BY <1>8, <1>13, TakenClamped
<1>15. TakenFrom(r, Ahead(r, o)) = IF a <= r.size THEN a ELSE r.size
  BY <1>10
<1> HIDE DEF a, D
<1>16. Good(t)
  BY <1>5, <1>11, <1>12, <1>13, <1>14, <1>15
<1> QED BY <1>3, <1>16

\* The sweep takes from the candidates what the reply says was filled.
LEMMA FilledIsTaken ==
  ASSUME BookInv, NEW r \in Requests
  PROVE  TakenFrom(r, Sweep(r)) = Filled(r)
<1>1. TakenFrom(r, Sweep(r)) =
        IF SumSizes(Sweep(r)) <= r.size THEN SumSizes(Sweep(r)) ELSE r.size
  BY AheadFacts, PrefixTaken
<1>2. SumSizes(Sweep(r)) \in Nat /\ r.size \in Nat
  BY SweepFacts, SumSizesFacts, RequestType
<1>3. Unfilled(r) = r.size - SumSizes(Sweep(r))
  BY DEF Unfilled, Sweep
<1> QED BY <1>1, <1>2, <1>3, FilledType

-----------------------------------------------------------------------------
(***************************************************************************)
(* The script runs to its end.                                             *)
(***************************************************************************)

New(r)  == IF Rests(r) THEN {r.id} ELSE {}
Kept(r) == [o \in DOMAIN hash \ Completed(r) |-> hash[o]]

\* The hashes after the run: those the sweep leaves, and the newcomer's.
LEMMA ExecuteHash ==
  ASSUME BookInv, NEW r \in Requests, ExecuteOrder(r)
  PROVE  /\ DOMAIN hash' = (DOMAIN hash \ Completed(r)) \cup New(r)
         /\ r.id \notin DOMAIN hash
         /\ \A o \in DOMAIN hash \ Completed(r) :
              /\ Survives(o)
              /\ hash'[o].size =
                   IF o \in Partial(r) THEN hash[o].size - SharesLeft(r, o) ELSE hash[o].size
         /\ Rests(r) => Enters(r)
         /\ \A o \in DOMAIN hash' : hash'[o] \in Resting
<1>1. r.id \notin DOMAIN hash
  BY DEF BookInv, BookTypeOK, ExecuteOrder
<1> DEFINE resting == [account |-> r.account, asset |-> r.asset, price |-> r.price,
                       size |-> Unfilled(r), original |-> r.size, dollars |-> Dollars(r)]
           after == Shrunk(r, Kept(r))
<1>2. hash' = [o \in DOMAIN after \cup New(r) |-> IF o \in New(r) THEN resting ELSE after[o]]
  BY DEF ExecuteOrder, Kept, New
<1>3. \A o \in DOMAIN Kept(r) : Kept(r)[o] \in Resting /\ hash[o] = Kept(r)[o]
  BY DEF BookInv, BookTypeOK, Kept
<1>4. \A o \in DOMAIN Kept(r) :
        /\ after[o] \in Resting
        /\ after[o].account = hash[o].account /\ after[o].asset = hash[o].asset
        /\ after[o].price = hash[o].price /\ after[o].size <= hash[o].size
        /\ after[o].original = hash[o].original /\ after[o].dollars = hash[o].dollars
        /\ after[o].size =
             IF o \in Partial(r) THEN hash[o].size - SharesLeft(r, o) ELSE hash[o].size
  BY <1>3, ShrunkEntry
<1>5. DOMAIN after = DOMAIN hash \ Completed(r)
  BY DEF Shrunk, Kept
<1> HIDE DEF after
<1>6. DOMAIN hash' = (DOMAIN hash \ Completed(r)) \cup New(r)
  BY <1>2, <1>5
<1>7. \A o \in DOMAIN hash \ Completed(r) : hash'[o] = after[o]
  BY <1>1, <1>2, <1>5 DEF New
<1>8. Rests(r) => hash'[r.id] = resting
  BY <1>2 DEF New
<1>9. Rests(r) => Unfilled(r) \in 1 .. r.size /\ r.kind = "limit"
  BY DEF Rests
<1>10. Rests(r) => resting \in Resting
  BY <1>9, RequestType, DollarsType DEF Resting
<1>11. Rests(r) => Enters(r)
  BY <1>8, <1>9 DEF Enters
<1>12. \A o \in DOMAIN hash \ Completed(r) :
         /\ Survives(o)
         /\ hash'[o].size =
              IF o \in Partial(r) THEN hash[o].size - SharesLeft(r, o) ELSE hash[o].size
  BY <1>4, <1>7 DEF Survives, Kept
<1>13. \A o \in DOMAIN hash' : hash'[o] \in Resting
  BY <1>4, <1>6, <1>7, <1>8, <1>10 DEF New, Kept
<1> QED BY <1>1, <1>6, <1>11, <1>12, <1>13

\* The books after the run: the opposite one loses the completed orders, the
\* newcomer's gains what is left of it.
LEMMA ExecuteBook ==
  ASSUME BookInv, NEW r \in Requests, ExecuteOrder(r)
  PROVE  /\ \A a \in Assets, s \in Books : \A o :
              o \in book'[a][s] <=>
                \/ o \in book[a][s] /\ ~(o \in Completed(r) /\ a = r.asset /\ s # r.side)
                \/ o \in New(r) /\ a = r.asset /\ s = r.side
         /\ book' \in [Assets -> [Books -> SUBSET OrderIds]]
<1>1. r.asset \in Assets /\ r.id \in OrderIds
  BY RequestType
<1>2. New(r) \subseteq OrderIds
  BY <1>1 DEF New
<1>3. book' = [book EXCEPT ![r.asset] =
                 [s \in Books |-> IF s = r.side THEN @[s] \cup New(r)
                                                ELSE @[s] \ Completed(r)]]
  BY DEF ExecuteOrder, New
<1> QED BY <1>1, <1>2, <1>3 DEF BookInv, BookTypeOK

\* The accounts' sets after the run.
LEMMA ExecuteOpen ==
  ASSUME BookInv, NEW r \in Requests, ExecuteOrder(r)
  PROVE  /\ \A c \in Accounts : \A o :
              o \in open'[c] <=>
                \/ o \in open[c] /\ ~(o \in Completed(r) /\ hash[o].account = c)
                \/ o \in New(r) /\ c = r.account
         /\ open' \in [Accounts -> SUBSET OrderIds]
<1>1. r.account \in Accounts /\ r.id \in OrderIds
  BY RequestType
<1>2. New(r) \subseteq OrderIds
  BY <1>1 DEF New
<1>3. open' = [Unlisted(Completed(r)) EXCEPT ![r.account] = @ \cup New(r)]
  BY DEF ExecuteOrder, New
<1> QED BY <1>1, <1>2, <1>3 DEF BookInv, BookTypeOK, Unlisted

-----------------------------------------------------------------------------
(***************************************************************************)
(* One command: BookInv is inductive, and Command holds of every step.     *)
(***************************************************************************)

\* A run that ends does what Command says and keeps the structures in agreement.
LEMMA ExecuteStep ==
  ASSUME BookInv, NEW r \in Requests, ExecuteOrder(r)
  PROVE  BookInv' /\ Command(r)
<1> DEFINE C == Completed(r)
<1>1. /\ r.id \in OrderIds /\ r.account \in Accounts /\ r.asset \in Assets
      /\ r.side \in Books
  BY RequestType
<1>2. /\ Opposite(r.side) \in Books /\ Opposite(r.side) # r.side
      /\ \A s \in Books : s = r.side \/ s = Opposite(r.side)
  BY <1>1 DEF Books, Opposite
<1>3. C \subseteq book[r.asset][Opposite(r.side)]
  BY CompletedOpposite
<1>4. /\ DOMAIN hash' = (DOMAIN hash \ C) \cup New(r)
      /\ r.id \notin DOMAIN hash
      /\ \A o \in DOMAIN hash \ C : Survives(o)
      /\ Rests(r) => Enters(r)
      /\ \A o \in DOMAIN hash' : hash'[o] \in Resting
  BY ExecuteHash
<1>5. /\ \A a \in Assets, s \in Books : \A o :
           o \in book'[a][s] <=>
             \/ o \in book[a][s] /\ ~(o \in C /\ a = r.asset /\ s # r.side)
             \/ o \in New(r) /\ a = r.asset /\ s = r.side
      /\ book' \in [Assets -> [Books -> SUBSET OrderIds]]
  BY ExecuteBook
<1>6. /\ \A c \in Accounts : \A o :
           o \in open'[c] <=>
             \/ o \in open[c] /\ ~(o \in C /\ hash[o].account = c)
             \/ o \in New(r) /\ c = r.account
      /\ open' \in [Accounts -> SUBSET OrderIds]
  BY ExecuteOpen
<1>7. seen' = seen \cup {r.id}
  BY DEF ExecuteOrder
<1>8. seen' \subseteq OrderIds /\ DOMAIN hash' \subseteq seen'
  BY <1>1, <1>4, <1>7 DEF BookInv, BookTypeOK, New
<1> HIDE DEF C
<1>9. \A a \in Assets, s \in Books : \A o \in book[a][s] :
        o \in DOMAIN hash /\ hash[o].asset = a /\ o # r.id
  BY <1>4 DEF BookInv, StoresAgree, Agree
<1>10. \A o \in DOMAIN hash : o \in C =>
         hash[o].asset = r.asset /\ o \in book[r.asset][Opposite(r.side)]
  BY <1>1, <1>2, <1>3, <1>9
<1>11. \A o \in DOMAIN hash : \E s \in Books :
         o \in book[hash[o].asset][s] /\ o \notin book[hash[o].asset][Opposite(s)]
  BY DEF BookInv, StoresAgree, Agree
<1>12. \A a \in Assets, s \in Books : \A o \in book'[a][s] :
         o \in DOMAIN hash' /\ hash'[o].asset = a
  <2> SUFFICES ASSUME NEW a \in Assets, NEW s \in Books, NEW o \in book'[a][s]
               PROVE  o \in DOMAIN hash' /\ hash'[o].asset = a
    OBVIOUS
  <2>1. CASE o \in New(r)
    <3>1. o = r.id /\ Rests(r)
      BY <2>1 DEF New
    <3>2. a = r.asset
      BY <1>5, <1>9, <3>1
    <3> QED BY <1>4, <2>1, <3>1, <3>2 DEF Enters
  <2>2. CASE o \notin New(r)
    <3>1. o \in book[a][s] /\ (o \in C => a # r.asset \/ s = r.side)
      BY <1>2, <1>5, <2>2
    <3>2. o \in DOMAIN hash /\ hash[o].asset = a
      BY <1>9, <3>1
    <3>3. o \notin C
      <4>1. SUFFICES ASSUME o \in C PROVE FALSE
        OBVIOUS
      <4>2. a = r.asset /\ o \in book[a][Opposite(s)] /\ o \in book[a][s] /\ s = r.side
        BY <1>10, <3>1, <3>2, <4>1
      <4> QED BY <1>2, <1>11, <3>2, <4>2 DEF Books, Opposite
    <3> QED BY <1>4, <3>2, <3>3 DEF Survives
  <2> QED BY <2>1, <2>2
<1>13. \A o \in DOMAIN hash' : \E s \in Books :
         o \in book'[hash'[o].asset][s] /\ o \notin book'[hash'[o].asset][Opposite(s)]
  <2> SUFFICES ASSUME NEW o \in DOMAIN hash'
               PROVE  \E s \in Books : /\ o \in book'[hash'[o].asset][s]
                                      /\ o \notin book'[hash'[o].asset][Opposite(s)]
    OBVIOUS
  <2>1. CASE o \in New(r)
    <3>1. o = r.id /\ Rests(r) /\ hash'[o].asset = r.asset
      BY <1>4, <2>1 DEF New, Enters
    <3>2. o \in book'[r.asset][r.side]
      BY <1>1, <1>5, <2>1
    <3>3. o \notin book'[r.asset][Opposite(r.side)]
      BY <1>1, <1>2, <1>5, <1>9, <3>1
    <3> QED BY <1>1, <3>1, <3>2, <3>3
  <2>2. CASE o \notin New(r)
    <3>1. o \in DOMAIN hash \ C /\ hash'[o].asset = hash[o].asset
      BY <1>4, <2>2 DEF Survives
    <3>2. PICK s \in Books : /\ o \in book[hash[o].asset][s]
                            /\ o \notin book[hash[o].asset][Opposite(s)]
      BY <1>11, <3>1
    <3>3. hash[o].asset \in Assets
      BY <3>1 DEF BookInv, BookTypeOK, Resting
    <3>4. Opposite(s) \in Books
      BY <3>2, OppositeType
    <3>5. o \in book'[hash[o].asset][s]
      BY <1>5, <3>1, <3>2, <3>3
    <3>6. o \notin book'[hash[o].asset][Opposite(s)]
      BY <1>5, <2>2, <3>2, <3>3, <3>4
    <3> QED BY <3>1, <3>2, <3>5, <3>6
  <2> QED BY <2>1, <2>2
<1>14. \A c \in Accounts : \A o \in open'[c] : o \in DOMAIN hash' /\ hash'[o].account = c
  <2> SUFFICES ASSUME NEW c \in Accounts, NEW o \in open'[c]
               PROVE  o \in DOMAIN hash' /\ hash'[o].account = c
    OBVIOUS
  <2>1. CASE o \in New(r) /\ c = r.account
    BY <1>4, <2>1 DEF New, Enters
  <2>2. CASE o \in open[c] /\ ~(o \in C /\ hash[o].account = c)
    <3>1. o \in DOMAIN hash /\ hash[o].account = c
      BY <2>2 DEF BookInv, StoresAgree, Agree
    <3> QED BY <1>4, <2>2, <3>1 DEF Survives
  <2> QED BY <1>6, <2>1, <2>2
<1>15. StoresAgree'
  BY <1>4, <1>5, <1>6, <1>12, <1>13, <1>14 DEF StoresAgree, Agree
<1>16. IsFiniteSet(seen')
  BY <1>7, FS_AddElement DEF BookInv
<1>17. reply' \in Replies
  <2>1. reply' = [error |-> FALSE, shares |-> Filled(r), dollars |-> Dollars(r),
                  completed |-> C]
    BY DEF ExecuteOrder, C
  <2>2. C \subseteq OrderIds
    BY SweepFacts DEF C, BookInv, BookTypeOK
  <2> QED BY <2>1, <2>2, DollarsType, FilledType DEF Replies
<1>18. hash' \in [DOMAIN hash' -> Resting]
  BY <1>4 DEF ExecuteOrder
<1>19. BookTypeOK'
  BY <1>5, <1>6, <1>8, <1>17, <1>18 DEF BookTypeOK
<1>20. BookInv'
  BY <1>15, <1>16, <1>19 DEF BookInv
<1>21. Command(r)
  BY <1>4, <1>5 DEF Command, New, Survives, Enters
<1> QED BY <1>20, <1>21

\* A run that stops at unpack has shrunk a candidate and cleaned the accounts'
\* sets; the books still agree with the hashes.
LEMMA AbortStep ==
  ASSUME BookInv, NEW r \in Requests, AbortOrder(r)
  PROVE  BookInv' /\ Command(r)
<1>1. r.id \in OrderIds
  BY RequestType
<1>2. hash' = Shrunk(r, hash) /\ book' = book /\ seen' = seen \cup {r.id}
  BY DEF AbortOrder
<1>3. DOMAIN hash' = DOMAIN hash
  BY <1>2 DEF Shrunk
<1>4. \A o \in DOMAIN hash : Survives(o) /\ hash'[o] \in Resting
  BY <1>2, ShrunkEntry DEF BookInv, BookTypeOK, Survives
<1>5. open' \in [Accounts -> SUBSET OrderIds] /\ \A c \in Accounts : open'[c] \subseteq open[c]
  BY DEF AbortOrder, Unlisted, BookInv, BookTypeOK
<1>6. seen' \subseteq OrderIds /\ DOMAIN hash' \subseteq seen'
  BY <1>1, <1>2, <1>3 DEF BookInv, BookTypeOK
<1>7. StoresAgree'
  BY <1>2, <1>3, <1>4, <1>5 DEF BookInv, StoresAgree, Agree, Survives
<1>8. IsFiniteSet(seen')
  BY <1>2, FS_AddElement DEF BookInv
<1>9. reply' \in Replies
  <2>1. reply' = [error |-> TRUE, shares |-> 0, dollars |-> 0, completed |-> {}]
    BY DEF AbortOrder, Failure, NoReply
  <2> QED BY <2>1 DEF Replies
<1>10. hash' \in [DOMAIN hash' -> Resting]
  BY <1>2, <1>3, <1>4 DEF Shrunk
<1>11. BookTypeOK'
  BY <1>2, <1>5, <1>6, <1>9, <1>10 DEF BookInv, BookTypeOK
<1>12. BookInv'
  BY <1>7, <1>8, <1>11 DEF BookInv
<1> QED BY <1>2, <1>3, <1>4, <1>12 DEF Command

LEMMA BookInvInit == BookInit => BookInv
  BY FS_EmptySet DEF BookInit, BookInv, BookTypeOK, StoresAgree, Agree, Replies, NoReply

LEMMA BookInvStep ==
  ASSUME BookInv, [BookNext]_bookVars
  PROVE  BookInv'
<1>1. CASE BookNext
  BY <1>1, ExecuteStep, AbortStep DEF BookNext, SubmitOrder
<1>2. CASE UNCHANGED bookVars
  BY <1>2 DEF bookVars, BookInv, BookTypeOK, StoresAgree, Agree
<1> QED BY <1>1, <1>2

\* The sorted sets and the hashes agree after every command, a script that
\* fails halfway through included, however many orders there are.
THEOREM BookStoresAgree == BookSpec => []StoresAgree
<1>1. BookInv => StoresAgree
  BY DEF BookInv
<1> QED BY <1>1, BookInvInit, BookInvStep, PTL DEF BookSpec

\* Every variable has its type in every reachable state, the sums included.
THEOREM BookTypeCorrect == BookSpec => []BookTypeOK
<1>1. BookInv => BookTypeOK
  BY DEF BookInv
<1> QED BY <1>1, BookInvInit, BookInvStep, PTL DEF BookSpec

-----------------------------------------------------------------------------
(***************************************************************************)
(* The book is never locked: a newcomer that rests has completed whatever  *)
(* rested at its price.                                                    *)
(***************************************************************************)

LEMMA NewcomerClears ==
  ASSUME BookInv, NEW r \in Requests, ExecuteOrder(r), Rests(r),
         NEW o \in book'[r.asset][Opposite(r.side)]
  PROVE  o \in book[r.asset][Opposite(r.side)] /\ hash[o].price # r.price
<1>1. r.asset \in Assets /\ Opposite(r.side) \in Books /\ Opposite(r.side) # r.side
  BY RequestType, OppositeType
<1>2. o \in book[r.asset][Opposite(r.side)] /\ o \notin Completed(r)
  BY <1>1, ExecuteBook
<1>3. Completed(r) = Sweep(r)
  BY SweepCompletes, FilledType DEF Rests
<1>4. ~InRange(r, Score(Opposite(r.side), hash[o].price))
  BY <1>2, <1>3 DEF Sweep, Candidates
<1>5. r.side \in {"bids", "offers"} /\ r.price \in Int
  BY RequestType DEF Books
<1> QED BY <1>2, <1>4, <1>5 DEF InRange, Score, Opposite

LEMMA LockedStep ==
  ASSUME BookInv, NeverLocked, NEW r \in Requests, SubmitOrder(r)
  PROVE  NeverLocked'
<1>1. BookInv' /\ Command(r)
  BY ExecuteStep, AbortStep DEF SubmitOrder
<1>2. SUFFICES ASSUME NEW a \in Assets,
                      NEW b \in book'[a]["bids"], NEW o \in book'[a]["offers"]
               PROVE  hash'[b].price # hash'[o].price
  BY DEF NeverLocked, Unlocked
<1>3. "bids" \in Books /\ "offers" \in Books
  BY DEF Books
<1>4. b \in DOMAIN hash' /\ o \in DOMAIN hash'
  BY <1>1, <1>3 DEF BookInv, StoresAgree, Agree
<1>5. CASE Survives(b) /\ Survives(o) /\ b # r.id /\ o # r.id
  <2>1. b \in book[a]["bids"] /\ o \in book[a]["offers"]
    BY <1>1, <1>3, <1>5 DEF Command
  <2> QED BY <1>5, <2>1 DEF NeverLocked, Unlocked, Survives
<1>6. CASE b = r.id \/ o = r.id
  <2>1. r.id \notin DOMAIN hash
    BY DEF SubmitOrder, ExecuteOrder, AbortOrder, BookInv, BookTypeOK
  <2>2. \A s \in Books : r.id \notin book[a][s]
    BY <2>1 DEF BookInv, StoresAgree, Agree
  <2>3. ExecuteOrder(r)
    <3>1. CASE AbortOrder(r)
      BY <1>3, <1>6, <2>2, <3>1 DEF AbortOrder
    <3> QED BY <3>1 DEF SubmitOrder
  <2>4. Rests(r) /\ a = r.asset /\ Enters(r)
    <3>1. r.id \in New(r) /\ a = r.asset
      BY <1>3, <1>6, <2>2, <2>3, ExecuteBook
    <3> QED BY <2>3, <3>1, ExecuteHash DEF New
  <2>5. ASSUME NEW p \in book'[a][Opposite(r.side)]
        PROVE  hash'[p].price # r.price
    <3>1. p \in book[a][Opposite(r.side)] /\ hash[p].price # r.price
      BY <2>3, <2>4, <2>5, NewcomerClears
    <3>2. p \in DOMAIN hash /\ p # r.id
      BY <2>1, <3>1, RequestType, OppositeType DEF BookInv, StoresAgree, Agree
    <3>3. p \in DOMAIN hash'
      BY <1>1, <2>5, RequestType, OppositeType DEF BookInv, StoresAgree, Agree
    <3>4. Survives(p)
      BY <1>1, <3>2, <3>3 DEF Command
    <3> QED BY <3>1, <3>4 DEF Survives
  <2>6. CASE b = r.id
    <3>1. r.side = "bids"
      BY <1>1, <1>3, <2>2, <2>6 DEF Command
    <3>2. Opposite(r.side) = "offers"
      BY <3>1 DEF Opposite
    <3> QED BY <2>4, <2>5, <2>6, <3>2 DEF Enters
  <2>7. CASE o = r.id
    <3>1. r.side = "offers"
      BY <1>1, <1>3, <2>2, <2>7 DEF Command
    <3>2. Opposite(r.side) = "bids"
      BY <3>1 DEF Opposite
    <3> QED BY <2>4, <2>5, <2>7, <3>2 DEF Enters
  <2> QED BY <1>6, <2>6, <2>7
<1> QED BY <1>1, <1>4, <1>5, <1>6 DEF Command

\* No bid and offer of one asset ever rest at the same price, whatever the orders.
THEOREM BookNeverLocked == BookSpec => []NeverLocked
<1>1. BookInit => BookInv /\ NeverLocked
  <2>1. BookInit => NeverLocked
    BY DEF BookInit, NeverLocked, Unlocked, Books
  <2> QED BY <2>1, BookInvInit
<1>2. BookInv /\ NeverLocked /\ [BookNext]_bookVars => BookInv' /\ NeverLocked'
  <2> SUFFICES ASSUME BookInv, NeverLocked, [BookNext]_bookVars
               PROVE  BookInv' /\ NeverLocked'
    OBVIOUS
  <2>1. CASE BookNext
    BY <2>1, BookInvStep, LockedStep DEF BookNext
  <2>2. CASE UNCHANGED bookVars
    BY <2>2, BookInvStep DEF bookVars, NeverLocked, Unlocked
  <2> QED BY <2>1, <2>2
<1> QED BY <1>1, <1>2, PTL DEF BookSpec

-----------------------------------------------------------------------------
(***************************************************************************)
(* Buyers never overpay.  A bid that rests has bought from offers within   *)
(* its limit; when it shrinks later it has bought more for the same        *)
(* recorded dollars, and since it was reserved for its price is positive.  *)
(***************************************************************************)

BidsPositive ==
  \A a \in Assets : \A b \in book[a]["bids"] : hash[b].price > 0

\* A buy pays at most its limit for every share of the orders it completes.
LEMMA DollarsBound ==
  ASSUME BookInv, NEW r \in Requests, r.side = "bids"
  PROVE  Dollars(r) <= r.price * SumSizes(Completed(r))
<1> DEFINE v == [o \in Completed(r) |-> Score(Opposite(r.side), hash[o].price) * hash[o].size]
           w == [o \in DOMAIN hash |-> hash[o].size]
<1>1. IsFiniteSet(Completed(r)) /\ Completed(r) \subseteq Sweep(r) /\ Sweep(r) \subseteq DOMAIN hash
  BY SweepFacts, FS_Subset
<1>2. Dollars(r) = SumFunctionOnSet(v, Completed(r))
  BY DEF Dollars, SumFunction
<1>3. SumSizes(Completed(r)) = SumFunctionOnSet(w, Completed(r))
  BY DEF SumSizes
<1>4. r.price \in Int
  BY RequestType
<1>5. ASSUME NEW o \in Completed(r)
      PROVE  v[o] \in Int /\ w[o] \in Int /\ v[o] <= r.price * w[o]
  <2>1. hash[o].price \in Int /\ hash[o].size \in Nat
    BY <1>1, HashFacts
  <2>2. hash[o].price <= r.price
    BY <1>1 DEF Sweep, Candidates, InRange, Score, Opposite
  <2>3. v[o] = hash[o].price * hash[o].size /\ w[o] = hash[o].size
    BY <1>1 DEF Score, Opposite
  <2>4. hash[o].price * hash[o].size <= r.price * hash[o].size
    BY <1>4, <2>1, <2>2, ProductMonotone
  <2> QED BY <2>1, <2>3, <2>4
<1> HIDE DEF v, w
<1> QED BY <1>1, <1>2, <1>3, <1>4, <1>5, SumBound

LEMMA MoneyStep ==
  ASSUME BookInv, BidsPositive, BuyersNeverOverpay,
         NEW r \in Requests, SubmitOrder(r), Reservable(r)
  PROVE  BidsPositive' /\ BuyersNeverOverpay'
<1>1. BookInv' /\ Command(r)
  BY ExecuteStep, AbortStep DEF SubmitOrder
<1>2. SUFFICES ASSUME NEW a \in Assets, NEW b \in book'[a]["bids"]
               PROVE  /\ hash'[b].price > 0
                      /\ hash'[b].dollars <= hash'[b].price * (hash'[b].original - hash'[b].size)
  BY DEF BidsPositive, BuyersNeverOverpay, NoOverpayment
<1>3. "bids" \in Books
  BY DEF Books
<1>4. b \in DOMAIN hash' /\ hash'[b] \in Resting
  BY <1>1, <1>3 DEF BookInv, BookTypeOK, StoresAgree, Agree
<1>5. CASE Survives(b) /\ b # r.id
  <2>1. b \in book[a]["bids"]
    BY <1>1, <1>3, <1>5 DEF Command
  <2>2. /\ hash[b].price > 0
        /\ hash[b].dollars <= hash[b].price * (hash[b].original - hash[b].size)
    BY <2>1 DEF BidsPositive, BuyersNeverOverpay, NoOverpayment
  <2> DEFINE p == hash[b].price
             m == hash[b].original - hash[b].size
             n == hash[b].original - hash'[b].size
  <2>3. b \in DOMAIN hash /\ hash[b].size \in Nat /\ hash[b].original \in Nat /\ p \in Int
    BY <1>5, HashFacts DEF Survives
  <2>4. hash'[b].size \in Nat /\ hash'[b].size <= hash[b].size
    BY <1>4, <1>5 DEF Survives, Resting
  <2>5. m \in Int /\ n \in Int /\ m <= n /\ p \in Nat
    BY <2>2, <2>3, <2>4
  <2>6. hash[b].dollars <= p * m /\ hash[b].dollars \in Int
    BY <2>2, <2>3, HashFacts
  <2> HIDE DEF p, m, n
  <2>7. m * p <= n * p
    BY <2>5, ProductMonotone
  <2>8. p * m = m * p /\ p * n = n * p /\ p * m \in Int /\ p * n \in Int
    BY <2>5
  <2>9. hash[b].dollars <= p * n
    BY <2>6, <2>7, <2>8
  <2> QED BY <1>5, <2>2, <2>9 DEF Survives, p, n
<1>6. CASE b = r.id
  <2>1. r.id \notin DOMAIN hash
    BY DEF SubmitOrder, ExecuteOrder, AbortOrder, BookInv, BookTypeOK
  <2>2. r.id \notin book[a]["bids"]
    BY <1>3, <2>1 DEF BookInv, StoresAgree, Agree
  <2>3. ExecuteOrder(r)
    <3>1. CASE AbortOrder(r)
      BY <1>6, <2>2, <3>1 DEF AbortOrder
    <3> QED BY <3>1 DEF SubmitOrder
  <2>4. Rests(r) /\ Enters(r) /\ r.side = "bids"
    <3>1. r.id \in New(r) /\ r.side = "bids"
      BY <1>3, <1>6, <2>2, <2>3, ExecuteBook
    <3> QED BY <2>3, <3>1, ExecuteHash DEF New
  <2>5. r.price > 0
    BY <2>4 DEF Reservable, Rests
  <2>6. Dollars(r) <= r.price * SumSizes(Sweep(r))
    BY <2>4, DollarsBound, SweepCompletes, FilledType DEF Rests
  <2>7. r.size - Unfilled(r) = SumSizes(Sweep(r))
    <3>1. Unfilled(r) = r.size - SumSizes(Sweep(r))
      BY DEF Unfilled, Sweep
    <3>2. r.size \in Nat /\ SumSizes(Sweep(r)) \in Nat
      BY RequestType, SweepFacts, SumSizesFacts
    <3> QED BY <3>1, <3>2
  <2> QED BY <1>6, <2>4, <2>5, <2>6, <2>7 DEF Enters
<1> QED BY <1>1, <1>4, <1>5, <1>6 DEF Command

\* The recorded dollar volume of a resting bid never exceeds its limit times the
\* shares it has bought, however many orders are matched with it and when.
THEOREM BookBuyersNeverOverpay == BookSpec => []BuyersNeverOverpay
<1> DEFINE Inv == BookInv /\ BidsPositive /\ BuyersNeverOverpay
<1>1. BookInit => Inv
  <2>1. BookInit => BidsPositive /\ BuyersNeverOverpay
    BY DEF BookInit, BidsPositive, BuyersNeverOverpay, NoOverpayment, Books
  <2> QED BY <2>1, BookInvInit
<1>2. Inv /\ [BookNext]_bookVars => Inv'
  <2> SUFFICES ASSUME Inv, [BookNext]_bookVars PROVE Inv'
    OBVIOUS
  <2>1. BookInv'
    BY BookInvStep
  <2>2. CASE BookNext
    BY <2>1, <2>2, MoneyStep DEF BookNext
  <2>3. CASE UNCHANGED bookVars
    BY <2>1, <2>3 DEF bookVars, BidsPositive, BuyersNeverOverpay, NoOverpayment
  <2> QED BY <2>2, <2>3
<1> QED BY <1>1, <1>2, PTL DEF BookSpec

-----------------------------------------------------------------------------
(***************************************************************************)
(* What a step takes from the resting orders.                              *)
(***************************************************************************)

\* A run that ends takes from every order what the sweep takes.
LEMMA ExecuteLoses ==
  ASSUME BookInv, NEW r \in Requests, ExecuteOrder(r), NEW o \in DOMAIN hash
  PROVE  Lost(o) = IF o \in Sweep(r) THEN Taken(r, o) ELSE 0
<1>1. /\ DOMAIN hash' = (DOMAIN hash \ Completed(r)) \cup New(r)
      /\ r.id \notin DOMAIN hash
      /\ o \notin Completed(r) =>
           hash'[o].size =
             IF o \in Partial(r) THEN hash[o].size - SharesLeft(r, o) ELSE hash[o].size
  BY ExecuteHash
<1>2. hash[o].size \in Nat
  BY HashFacts
<1>3. o \in DOMAIN hash' <=> o \notin Completed(r)
  BY <1>1 DEF New
<1>4. Completed(r) \subseteq Sweep(r) /\ Partial(r) \subseteq Sweep(r)
  BY SweepFacts
<1>5. CASE o \in Completed(r)
  BY <1>2, <1>3, <1>4, <1>5 DEF Lost, Taken
<1>6. CASE o \in Partial(r) /\ o \notin Completed(r)
  <2>1. SharesLeft(r, o) \in Int
    BY <1>4, <1>6, AheadFacts
  <2> QED BY <1>1, <1>2, <1>3, <1>4, <1>6, <2>1 DEF Lost, Taken
<1>7. CASE o \notin Partial(r) /\ o \notin Completed(r)
  BY <1>1, <1>2, <1>3, <1>7 DEF Lost, Taken
<1> QED BY <1>5, <1>6, <1>7

\* A command that succeeds takes from the orders at rest exactly what it reports.
THEOREM BookFillsBalance == BookSpec => FillsBalance
<1> DEFINE Balance ==
      ~reply'.error =>
         /\ SumFunction([o \in DOMAIN hash |-> Lost(o)]) = reply'.shares
         /\ \A o \in DOMAIN hash' \ DOMAIN hash :
              hash'[o].original = hash'[o].size + reply'.shares
<1>1. ASSUME BookInv, NEW r \in Requests, ExecuteOrder(r)
      PROVE  Balance
  <2>1. reply'.shares = Filled(r)
    BY <1>1 DEF ExecuteOrder
  <2>2. SumFunction([o \in DOMAIN hash |-> Lost(o)]) = Filled(r)
    <3> DEFINE w == [o \in DOMAIN hash |-> Lost(o)]
               v == [o \in Sweep(r) |-> Taken(r, o)]
    <3>1. IsFiniteSet(DOMAIN hash) /\ Sweep(r) \in SUBSET DOMAIN hash /\ IsFiniteSet(Sweep(r))
      BY <1>1, HashFacts, SweepFacts
    <3>2. \A o \in DOMAIN hash : w[o] = IF o \in Sweep(r) THEN Taken(r, o) ELSE 0
      BY <1>1, ExecuteLoses
    <3>3. \A o \in Sweep(r) : v[o] = Taken(r, o) /\ v[o] \in Nat
      BY <1>1, TakenClamped
    <3>4. SumFunction(w) = SumFunctionOnSet(w, DOMAIN hash)
      BY DEF SumFunction
    <3>5. TakenFrom(r, Sweep(r)) = SumFunctionOnSet(v, Sweep(r))
      BY DEF TakenFrom
    <3> HIDE DEF v, w
    <3>6. \A o \in Sweep(r) : w[o] = v[o]
      BY <3>1, <3>2, <3>3
    <3>7. \A o \in DOMAIN hash : w[o] \in Int
      BY <3>2, <3>3
    <3>8. SumFunctionOnSet(w, DOMAIN hash) = SumFunctionOnSet(w, Sweep(r))
      BY <3>1, <3>2, <3>7, SumSupport
    <3>9. SumFunctionOnSet(w, Sweep(r)) = SumFunctionOnSet(v, Sweep(r))
      BY <3>1, <3>6, SumSame
    <3>10. SumFunction(w) = Filled(r)
      BY <1>1, <3>4, <3>5, <3>8, <3>9, FilledIsTaken
    <3> QED BY <3>10 DEF w
  <2>3. ASSUME NEW o \in DOMAIN hash' \ DOMAIN hash
        PROVE  hash'[o].original = hash'[o].size + Filled(r)
    <3>1. o = r.id /\ Rests(r) /\ Enters(r)
      BY <1>1, ExecuteHash DEF New
    <3>2. Unfilled(r) \in 1 .. r.size /\ r.size \in Nat /\ Filled(r) = r.size - Unfilled(r)
      BY <1>1, <3>1, FilledType, RequestType DEF Rests
    <3> QED BY <3>1, <3>2 DEF Enters
  <2> QED BY <2>1, <2>2, <2>3
<1>2. ASSUME NEW r \in Requests, AbortOrder(r)
      PROVE  Balance
  BY <1>2 DEF AbortOrder, Failure, NoReply
<1>3. BookInv /\ [BookNext]_bookVars => [Balance]_bookVars
  BY <1>1, <1>2 DEF BookNext, SubmitOrder
<1> QED BY <1>3, BookInvInit, BookInvStep, PTL DEF BookSpec, FillsBalance

\* An order that is passed over for shares is never a better one.
THEOREM BookOffersTradeInPriority == BookSpec => OffersTradeInPriority
<1> DEFINE Priority ==
      \A a \in Assets : \A o, p \in book[a]["offers"] :
        (/\ ~reply'.error
         /\ hash[o].price < hash[p].price \/ (hash[o].price = hash[p].price /\ o < p)
         /\ Lost(p) > 0)
          => o \notin DOMAIN hash'
<1>1. ASSUME BookInv, NEW r \in Requests, ExecuteOrder(r)
      PROVE  Priority
  <2> SUFFICES ASSUME NEW a \in Assets, NEW o \in book[a]["offers"], NEW p \in book[a]["offers"],
                      hash[o].price < hash[p].price \/ (hash[o].price = hash[p].price /\ o < p),
                      Lost(p) > 0
               PROVE  o \notin DOMAIN hash'
    OBVIOUS
  <2>1. /\ o \in DOMAIN hash /\ hash[o].asset = a
        /\ p \in DOMAIN hash /\ hash[p].asset = a
    BY <1>1 DEF BookInv, StoresAgree, Agree, Books
  <2>2. p \in Sweep(r) /\ Taken(r, p) > 0
    BY <1>1, <2>1, ExecuteLoses
  <2>3. r.asset = a /\ r.side = "bids"
    <3>1. p \in book[r.asset][Opposite(r.side)] /\ r.asset \in Assets /\ r.side \in Books
      BY <2>2, RequestType DEF Sweep, Candidates
    <3>2. hash[p].asset = r.asset
      BY <1>1, <3>1, OppositeType DEF BookInv, StoresAgree, Agree
    <3>3. CASE r.side = "offers"
      <4>1. p \in book[a]["bids"]
        BY <2>1, <3>1, <3>2, <3>3 DEF Opposite
      <4>2. PICK s \in Books : p \in book[a][s] /\ p \notin book[a][Opposite(s)]
        BY <1>1, <2>1 DEF BookInv, StoresAgree, Agree
      <4> QED BY <4>1, <4>2 DEF Books, Opposite
    <3> QED BY <2>1, <3>1, <3>2, <3>3 DEF Books
  <2>4. /\ hash[o].price \in Int /\ hash[p].price \in Int /\ r.price \in Int
        /\ o \in Nat /\ p \in Nat
    BY <1>1, <2>1, HashFacts, RequestType
  <2>5. hash[p].price <= r.price
    BY <2>2, <2>3 DEF Sweep, Candidates, InRange, Score, Opposite
  <2>6. o \in Sweep(r) /\ o \in Ahead(r, p)
    BY <2>3, <2>4, <2>5 DEF Sweep, Ahead, Candidates, InRange, Score, Opposite, Before
  <2>7. Ahead(r, o) \cup {o} \subseteq Ahead(r, p)
    <3> SUFFICES ASSUME NEW q \in Ahead(r, o) PROVE q \in Ahead(r, p)
      BY <2>6
    <3>1. /\ q \in Sweep(r) /\ Before(Opposite(r.side), hash, q, o)
          /\ Before(Opposite(r.side), hash, o, p)
      BY <2>6 DEF Ahead, Sweep
    <3>2. q \in DOMAIN hash
      BY <1>1, <3>1, SweepFacts
    <3> QED BY <1>1, <2>1, <3>1, <3>2, Precedence DEF Ahead, Sweep
  <2>8. SumSizes(Ahead(r, o) \cup {o}) <= SumSizes(Ahead(r, p))
    <3>1. Ahead(r, p) \in SUBSET DOMAIN hash
      BY <1>1, <2>2, AheadFacts, SweepFacts
    <3> QED BY <1>1, <2>7, <3>1, SumSizesFacts
  <2>9. SharesLeft(r, p) > 0
    <3>1. SharesLeft(r, p) \in Int /\ (SharesLeft(r, p) <= 0 => Taken(r, p) = 0)
      BY <1>1, <2>2, TakenClamped, AheadFacts
    <3> QED BY <2>2, <3>1
  <2>10. o \in Completed(r)
    <3> DEFINE m == SumSizes(Ahead(r, o))
               n == SumSizes(Ahead(r, p))
    <3>1. /\ SharesLeft(r, o) = r.size - m /\ SharesLeft(r, p) = r.size - n
          /\ hash[o].size + m <= n
      BY <1>1, <2>2, <2>6, <2>8, AheadFacts
    <3>2. m \in Nat /\ n \in Nat /\ r.size \in Nat /\ hash[o].size \in Nat \ {0}
      <4>1. Ahead(r, o) \in SUBSET DOMAIN hash /\ Ahead(r, p) \in SUBSET DOMAIN hash
        BY <1>1, <2>2, <2>6, AheadFacts, SweepFacts
      <4> QED BY <1>1, <2>1, <4>1, SumSizesFacts, HashFacts, RequestType
    <3> HIDE DEF m, n
    <3>3. SharesLeft(r, o) > 0 /\ hash[o].size <= SharesLeft(r, o)
      BY <2>9, <3>1, <3>2
    <3> QED BY <2>6, <3>3 DEF Completed, Sweep
  <2>11. DOMAIN hash' = (DOMAIN hash \ Completed(r)) \cup New(r) /\ r.id \notin DOMAIN hash
    BY <1>1, ExecuteHash
  <2> QED BY <2>1, <2>10, <2>11 DEF New
<1>2. ASSUME NEW r \in Requests, AbortOrder(r)
      PROVE  Priority
  BY <1>2 DEF AbortOrder, Failure, NoReply
<1>3. BookInv /\ [BookNext]_bookVars => [Priority]_bookVars
  BY <1>1, <1>2 DEF BookNext, SubmitOrder
<1> QED BY <1>3, BookInvInit, BookInvStep, PTL DEF BookSpec, OffersTradeInPriority

\* An order leaves only when the command that was run reports it as completed, and
\* that command's order bought or sold at least as much.
THEOREM BookOnlyTradesRemove == BookSpec => OnlyTradesRemove
<1> DEFINE Traded ==
      \A o \in DOMAIN hash \ DOMAIN hash' :
        o \in reply'.completed /\ reply'.shares >= hash[o].size
<1>1. ASSUME BookInv, NEW r \in Requests, ExecuteOrder(r)
      PROVE  Traded
  <2> SUFFICES ASSUME NEW o \in DOMAIN hash \ DOMAIN hash'
               PROVE  o \in reply'.completed /\ reply'.shares >= hash[o].size
    OBVIOUS
  <2>1. reply'.completed = Completed(r) /\ reply'.shares = Filled(r)
    BY <1>1 DEF ExecuteOrder
  <2>2. o \in Completed(r)
    BY <1>1, ExecuteHash
  <2>3. o \in Sweep(r) /\ hash[o].size <= SharesLeft(r, o) /\ SharesLeft(r, o) <= r.size
    BY <1>1, <2>2, AheadFacts DEF Completed, Sweep
  <2>4. SumSizes(Ahead(r, o) \cup {o}) <= SumSizes(Sweep(r))
    <3>1. Ahead(r, o) \cup {o} \in SUBSET Sweep(r) /\ Sweep(r) \in SUBSET DOMAIN hash
      BY <1>1, <2>3, AheadFacts, SweepFacts
    <3> QED BY <1>1, <3>1, SumSizesFacts
  <2>5. SumSizes(Ahead(r, o) \cup {o}) = hash[o].size + SumSizes(Ahead(r, o))
    BY <1>1, <2>3, AheadFacts
  <2>6. /\ SumSizes(Sweep(r)) \in Nat /\ SumSizes(Ahead(r, o)) \in Nat
        /\ hash[o].size \in Nat /\ r.size \in Nat /\ SharesLeft(r, o) \in Int
    <3>1. Ahead(r, o) \in SUBSET DOMAIN hash /\ Sweep(r) \in SUBSET DOMAIN hash
      BY <1>1, <2>3, AheadFacts, SweepFacts
    <3> QED BY <1>1, <2>3, <3>1, AheadFacts, SumSizesFacts, HashFacts, RequestType
  <2>7. hash[o].size <= SumSizes(Sweep(r)) /\ hash[o].size <= r.size
    BY <2>3, <2>4, <2>5, <2>6
  <2>8. Unfilled(r) = r.size - SumSizes(Sweep(r))
    BY DEF Unfilled, Sweep
  <2>9. Filled(r) = IF Unfilled(r) > 0 THEN r.size - Unfilled(r) ELSE r.size
    BY <1>1, FilledType
  <2>10. Filled(r) >= hash[o].size
    BY <2>6, <2>7, <2>8, <2>9
  <2> QED BY <2>1, <2>2, <2>10
<1>2. ASSUME NEW r \in Requests, AbortOrder(r)
      PROVE  Traded
  BY <1>2 DEF AbortOrder, Shrunk
<1>3. BookInv /\ [BookNext]_bookVars => [Traded]_bookVars
  BY <1>1, <1>2 DEF BookNext, SubmitOrder
<1> QED BY <1>3, BookInvInit, BookInvStep, PTL DEF BookSpec, OnlyTradesRemove

=============================================================================
