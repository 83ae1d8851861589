--------------------------- MODULE ExchangeProofs ---------------------------
(***************************************************************************)
(* Theorems about Exchange.  The argument has three parts: the ledger      *)
(* keeps its limits, a reservation once made is never touched again, and   *)
(* order.lua never lets an order rest with more than its request asked     *)
(* for; so what rests is covered by what was reserved before it came, each *)
(* order by its transfer and an owner's orders by the sum of the transfers *)
(* its account shows as pending.                                           *)
(***************************************************************************)
EXTENDS Exchange, OrderBookProofs

LedgerTypeOK ==
  /\ DOMAIN ledger \subseteq LedgerIds
  /\ ledger \in [DOMAIN ledger -> Balance]
  /\ DOMAIN pending \subseteq OrderIds
  /\ pending \in [DOMAIN pending -> [account : LedgerIds, amount : Nat \ {0}]]

(***************************************************************************)
(* What an account's balance shows as pending is the sum of the transfers  *)
(* that hold it.  It is this sum, not the single transfers, that the       *)
(* ledger keeps within the account's means.                                *)
(***************************************************************************)
HeldBy(x) == {t \in DOMAIN pending : pending[t].account = x}
Outstanding(x) == SumFunctionOnSet([t \in DOMAIN pending |-> pending[t].amount], HeldBy(x))

PendingAddsUp ==
  /\ IsFiniteSet(DOMAIN pending)
  /\ \A t \in DOMAIN pending : pending[t].account \in DOMAIN ledger
  /\ \A x \in DOMAIN ledger : ledger[x].pending = Outstanding(x)

(***************************************************************************)
(* The accounts with a limit keep within it, which is what the ledger      *)
(* promises, and have no more than the bound of the model lets in.         *)
(***************************************************************************)
Solvent ==
  \A x \in DOMAIN ledger : Capped(x) =>
    /\ ledger[x].credits + ledger[x].pending <= ledger[x].debits
    /\ ledger[x].debits <= MaxDebits

LedgerInv == LedgerTypeOK /\ Solvent /\ PendingAddsUp

InflightTypeOK ==
  /\ DOMAIN inflight \subseteq OrderIds
  /\ inflight \in [DOMAIN inflight -> [req : Requests, next : Calls]]
  /\ \A o \in DOMAIN inflight : inflight[o].req.id = o

(***************************************************************************)
(* A request about to call the script holds the reservation it made, which *)
(* is of all that the order may cost: the product did not wrap.  One about *)
(* to reserve is an offer.                                                 *)
(***************************************************************************)
Cost(r) == IF r.side = "bids" THEN r.size * r.price ELSE r.size

Covered(r) ==
  /\ Reserves(r) /\ Reservable(r)
  /\ r.id \in DOMAIN pending
  /\ pending[r.id].account = Reserved(r)
  /\ pending[r.id].amount = Cost(r)

Held ==
  \A o \in DOMAIN inflight :
    IF inflight[o].next = "submit" THEN Covered(inflight[o].req)
                                   ELSE inflight[o].req.side = "offers"

ExchangeInv == BookInv /\ LedgerInv /\ InflightTypeOK /\ Held /\ BackedOrders

-----------------------------------------------------------------------------
(***************************************************************************)
(* The ledger.                                                             *)
(***************************************************************************)

\* As long as no transfer is added the sums stay.
LEMMA OutstandingKept ==
  ASSUME pending' = pending
  PROVE  \A x : Outstanding(x)' = Outstanding(x)
  BY DEF Outstanding, HeldBy

LEMMA LedgerKept ==
  ASSUME LedgerInv, UNCHANGED ledgerVars
  PROVE  LedgerInv'
<1>1. \A x : Outstanding(x)' = Outstanding(x)
  BY OutstandingKept DEF ledgerVars
<1> QED BY <1>1 DEF ledgerVars, LedgerInv, LedgerTypeOK, Solvent, PendingAddsUp

LEMMA BalanceKept ==
  ASSUME LedgerInv, pending' = pending, DOMAIN ledger' = DOMAIN ledger,
         \A x \in DOMAIN ledger : ledger'[x].pending = ledger[x].pending
  PROVE  PendingAddsUp'
<1>1. \A x : Outstanding(x)' = Outstanding(x)
  BY OutstandingKept
<1> QED BY <1>1 DEF LedgerInv, PendingAddsUp

LEMMA CreateAccountInv ==
  ASSUME LedgerInv, NEW x \in LedgerIds, CreateAccount(x)
  PROVE  LedgerInv'
<1> DEFINE zero == [debits |-> 0, credits |-> 0, pending |-> 0]
<1>1. /\ ledger' = [y \in DOMAIN ledger \cup {x} |->
                      IF y \in DOMAIN ledger THEN ledger[y] ELSE zero]
      /\ pending' = pending
  BY DEF CreateAccount
<1>2. zero \in Balance
  BY DEF Balance
<1>3. LedgerTypeOK'
  BY <1>1, <1>2 DEF LedgerInv, LedgerTypeOK
<1>4. Solvent'
  BY <1>1, ModulusAssumption DEF LedgerInv, Solvent
<1>5. DOMAIN ledger' = DOMAIN ledger \cup {x}
  BY <1>1
<1>6. ASSUME NEW y \in DOMAIN ledger'
      PROVE  ledger'[y].pending = Outstanding(y)
  <2>1. CASE y \in DOMAIN ledger
    BY <1>1, <2>1 DEF LedgerInv, PendingAddsUp
  <2>2. CASE y \notin DOMAIN ledger
    <3>1. HeldBy(y) = {}
      BY <2>2 DEF LedgerInv, PendingAddsUp, HeldBy
    <3>2. Outstanding(y) = 0
      BY <3>1, SumEmpty DEF Outstanding
    <3> QED BY <1>1, <1>6, <2>2, <3>2
  <2> QED BY <2>1, <2>2
<1>7. \A y : Outstanding(y)' = Outstanding(y)
  BY <1>1, OutstandingKept
<1>8. PendingAddsUp'
  BY <1>1, <1>5, <1>6, <1>7 DEF LedgerInv, PendingAddsUp
<1> QED BY <1>3, <1>4, <1>8 DEF LedgerInv

LEMMA PostInv ==
  ASSUME LedgerInv, NEW d, NEW c, NEW n \in Nat, Post(d, c, n),
         Capped(d) => ledger[d].debits + n <= MaxDebits
  PROVE  LedgerInv' /\ pending' = pending
<1>1. /\ d \in DOMAIN ledger /\ c \in DOMAIN ledger /\ d # c
      /\ Capped(c) => ledger[c].credits + ledger[c].pending + n <= ledger[c].debits
      /\ ledger' = [ledger EXCEPT ![d].debits = @ + n, ![c].credits = @ + n]
      /\ pending' = pending
  BY DEF Post, Admits
<1>2. \A x \in DOMAIN ledger : ledger[x] \in Balance
  BY DEF LedgerInv, LedgerTypeOK
<1>3. /\ DOMAIN ledger' = DOMAIN ledger
      /\ ledger'[d] = [ledger[d] EXCEPT !.debits = @ + n]
      /\ ledger'[c] = [ledger[c] EXCEPT !.credits = @ + n]
      /\ \A x \in DOMAIN ledger \ {d, c} : ledger'[x] = ledger[x]
      /\ ledger' \in [DOMAIN ledger -> {ledger'[x] : x \in DOMAIN ledger}]
  BY <1>1
<1>4. \A x \in DOMAIN ledger : ledger'[x] \in Balance
  BY <1>1, <1>2, <1>3 DEF Balance
<1>5. LedgerTypeOK'
  BY <1>1, <1>3, <1>4 DEF LedgerInv, LedgerTypeOK
<1>6. Solvent'
  BY <1>1, <1>2, <1>3, ModulusAssumption DEF LedgerInv, Solvent, Balance
<1>7. \A x \in DOMAIN ledger : ledger'[x].pending = ledger[x].pending
  BY <1>1, <1>2, <1>3 DEF Balance
<1>8. PendingAddsUp'
  BY <1>1, <1>3, <1>7, BalanceKept
<1> QED BY <1>1, <1>5, <1>6, <1>8 DEF LedgerInv

LEMMA HoldInv ==
  ASSUME LedgerInv, NEW t \in OrderIds, NEW d, NEW c, NEW n \in Int, Hold(t, d, c, n)
  PROVE  /\ LedgerInv'
         /\ t \notin DOMAIN pending
         /\ DOMAIN pending' = DOMAIN pending \cup {t}
         /\ \A u \in DOMAIN pending : pending'[u] = pending[u]
         /\ pending'[t] = [account |-> c, amount |-> n]
<1>1. /\ n > 0
      /\ c \in DOMAIN ledger
      /\ Capped(c) => ledger[c].credits + ledger[c].pending + n <= ledger[c].debits
      /\ t \notin DOMAIN pending
      /\ ledger' = [ledger EXCEPT ![c].pending = @ + n]
      /\ pending' = [u \in DOMAIN pending \cup {t} |->
                       IF u = t THEN [account |-> c, amount |-> n] ELSE pending[u]]
  BY DEF Hold, Admits
<1>2. \A x \in DOMAIN ledger : ledger[x] \in Balance
  BY DEF LedgerInv, LedgerTypeOK
<1>3. /\ DOMAIN ledger' = DOMAIN ledger
      /\ ledger'[c] = [ledger[c] EXCEPT !.pending = @ + n]
      /\ \A x \in DOMAIN ledger \ {c} : ledger'[x] = ledger[x]
      /\ ledger' \in [DOMAIN ledger -> {ledger'[x] : x \in DOMAIN ledger}]
  BY <1>1
<1>4. \A x \in DOMAIN ledger : ledger'[x] \in Balance
  BY <1>1, <1>2, <1>3 DEF Balance
<1>5. [account |-> c, amount |-> n] \in [account : LedgerIds, amount : Nat \ {0}]
  BY <1>1 DEF LedgerInv, LedgerTypeOK
<1>6. LedgerTypeOK'
  BY <1>1, <1>3, <1>4, <1>5 DEF LedgerInv, LedgerTypeOK
<1>7. Solvent'
  BY <1>1, <1>2, <1>3, ModulusAssumption DEF LedgerInv, Solvent, Balance
<1> DEFINE w == [u \in DOMAIN pending |-> pending[u].amount]
           w1 == [u \in DOMAIN pending' |-> pending'[u].amount]
<1>8. /\ DOMAIN pending' = DOMAIN pending \cup {t}
      /\ \A u \in DOMAIN pending : pending'[u] = pending[u]
      /\ pending'[t] = [account |-> c, amount |-> n]
  BY <1>1
<1>9. /\ \A u \in DOMAIN pending : w1[u] = w[u] /\ w1[u] \in Int
      /\ w1[t] = n /\ n \in Int
  BY <1>8 DEF LedgerInv, LedgerTypeOK
<1>10. /\ IsFiniteSet(DOMAIN pending) /\ IsFiniteSet(DOMAIN pending')
       /\ \A u \in DOMAIN pending : pending[u].account \in DOMAIN ledger
       /\ \A x \in DOMAIN ledger : ledger[x].pending = Outstanding(x)
  BY <1>8, FS_AddElement DEF LedgerInv, PendingAddsUp
<1>11. ASSUME NEW x \in DOMAIN ledger
       PROVE  ledger'[x].pending = Outstanding(x)'
  <2>1. Outstanding(x) = SumFunctionOnSet(w, HeldBy(x))
    BY DEF Outstanding
  <2>2. Outstanding(x)' = SumFunctionOnSet(w1, HeldBy(x)')
    BY DEF Outstanding
  <2> HIDE DEF w, w1
  <2>3. IsFiniteSet(HeldBy(x)) /\ HeldBy(x) \subseteq DOMAIN pending /\ t \notin HeldBy(x)
    BY <1>1, <1>10, FS_Subset DEF HeldBy
  <2>4. SumFunctionOnSet(w1, HeldBy(x)) = SumFunctionOnSet(w, HeldBy(x))
    BY <1>9, <2>3, SumSame
  <2>5. CASE x = c
    <3>1. HeldBy(x)' = HeldBy(x) \cup {t}
      BY <1>8, <2>5 DEF HeldBy
    <3>2. Outstanding(x)' = n + Outstanding(x)
      BY <1>9, <2>1, <2>2, <2>3, <2>4, <3>1, SumAdd
    <3>3. ledger'[x].pending = ledger[x].pending + n /\ ledger[x].pending \in Nat
      BY <1>2, <1>3, <2>5 DEF Balance
    <3> QED BY <1>9, <1>10, <3>2, <3>3
  <2>6. CASE x # c
    <3>1. HeldBy(x)' = HeldBy(x)
      BY <1>8, <2>6 DEF HeldBy
    <3> QED BY <1>3, <1>10, <2>1, <2>2, <2>4, <2>6, <3>1
  <2> QED BY <2>5, <2>6
<1>12. PendingAddsUp'
  BY <1>1, <1>3, <1>8, <1>10, <1>11 DEF PendingAddsUp
<1> QED BY <1>6, <1>7, <1>8, <1>1, <1>12 DEF LedgerInv

LEMMA GrantInv ==
  ASSUME LedgerInv, NEW x \in DOMAIN ledger, NEW n \in Nat, Grant(x, n)
  PROVE  LedgerInv'
<1>1. /\ ledger' = [ledger EXCEPT ![x].debits = @ + n] /\ pending' = pending
      /\ ledger[x].debits + n <= MaxDebits
  BY DEF Grant
<1>2. \A y \in DOMAIN ledger : ledger[y] \in Balance
  BY DEF LedgerInv, LedgerTypeOK
<1>3. /\ DOMAIN ledger' = DOMAIN ledger
      /\ ledger'[x] = [ledger[x] EXCEPT !.debits = @ + n]
      /\ \A y \in DOMAIN ledger \ {x} : ledger'[y] = ledger[y]
      /\ ledger' \in [DOMAIN ledger -> {ledger'[y] : y \in DOMAIN ledger}]
  BY <1>1
<1>4. \A y \in DOMAIN ledger : ledger'[y] \in Balance
  BY <1>1, <1>2, <1>3 DEF Balance
<1>5. LedgerTypeOK'
  BY <1>1, <1>3, <1>4 DEF LedgerInv, LedgerTypeOK
<1>6. Solvent'
  BY <1>1, <1>2, <1>3, ModulusAssumption DEF LedgerInv, Solvent, Balance
<1>7. \A y \in DOMAIN ledger : ledger'[y].pending = ledger[y].pending
  BY <1>1, <1>2, <1>3 DEF Balance
<1>8. PendingAddsUp'
  BY <1>1, <1>3, <1>7, BalanceKept
<1> QED BY <1>5, <1>6, <1>8 DEF LedgerInv

-----------------------------------------------------------------------------
(***************************************************************************)
(* The backing of an order.                                                *)
(***************************************************************************)

\* A part of something that costs at most k costs at most k, even at a negative
\* price, as long as k is positive.
LEMMA PartCostsLess ==
  ASSUME NEW p \in Int, NEW m \in Nat, NEW n \in Nat, m <= n,
         NEW k \in Nat \ {0}, n * p <= k
  PROVE  m * p <= k
<1>1. CASE p >= 0
  <2>1. m * p <= n * p
    BY <1>1
  <2> QED BY <2>1
<1>2. CASE p < 0
  <2>1. m * p <= 0
    BY <1>2
  <2> QED BY <2>1
<1> QED BY <1>1, <1>2

\* What a command of a covered request leaves on the books is backed.
LEMMA CommandBacked ==
  ASSUME BookInv, BookInv', LedgerTypeOK, BackedOrders, UNCHANGED pending,
         NEW r \in Requests, r.id \notin DOMAIN hash, Command(r),
         r.kind = "limit" => Covered(r)
  PROVE  BackedOrders'
<1>1. r.price \in Int /\ r.size \in Nat
  BY RequestType
<1>2. \A o \in DOMAIN hash : hash[o].price \in Int /\ hash[o].size \in Nat
  BY PricesAssumption DEF BookInv, BookTypeOK, Resting
<1>3. \A o \in DOMAIN hash' : hash'[o].price \in Int /\ hash'[o].size \in Nat
  BY PricesAssumption DEF BookInv, BookTypeOK, Resting
<1>4. \A o \in DOMAIN pending : pending[o].amount \in Nat \ {0}
  BY DEF LedgerTypeOK
<1>5. ASSUME NEW a \in Assets, NEW s \in Books, NEW o \in book'[a][s]
      PROVE  /\ o \in DOMAIN hash' /\ hash'[o].asset = a
             /\ \/ o \in book[a][s] /\ Survives(o)
                \/ /\ o = r.id /\ a = r.asset /\ s = r.side
                   /\ Enters(r) /\ Covered(r)
  <2>1. o \in DOMAIN hash' /\ hash'[o].asset = a
    BY DEF BookInv, StoresAgree, Agree
  <2>2. o \in book[a][s] => o \in DOMAIN hash
    BY DEF BookInv, StoresAgree, Agree
  <2> QED BY <2>1, <2>2 DEF Command, Survives, Enters
<1>6. ASSUME NEW a \in Assets, NEW o \in book'[a]["bids"]
      PROVE  /\ o \in DOMAIN pending
             /\ pending[o].account = <<hash'[o].account, Cash>>
             /\ hash'[o].size * hash'[o].price <= pending[o].amount
  <2>1. o \in DOMAIN hash'
    BY <1>5 DEF Books
  <2>2. CASE o \in book[a]["bids"] /\ Survives(o)
    <3>1. /\ o \in DOMAIN pending /\ pending[o].account = <<hash[o].account, Cash>>
          /\ hash[o].size * hash[o].price <= pending[o].amount
      BY <2>2 DEF BackedOrders
    <3>2. hash'[o].size * hash[o].price <= pending[o].amount
      BY <1>2, <1>3, <1>4, <2>1, <2>2, <3>1, PartCostsLess DEF Survives
    <3> QED BY <2>2, <3>1, <3>2 DEF Survives
  <2>3. CASE o = r.id /\ r.side = "bids" /\ Enters(r) /\ Covered(r)
    <3>1. /\ o \in DOMAIN pending /\ pending[o].account = <<r.account, Cash>>
          /\ pending[o].amount = r.size * r.price
      BY <2>3 DEF Covered, Reserved, Cost
    <3>2. hash'[o].size * r.price <= pending[o].amount
      BY <1>1, <1>3, <1>4, <2>1, <2>3, <3>1, PartCostsLess DEF Enters
    <3> QED BY <2>3, <3>1, <3>2 DEF Enters
  <2> QED BY <1>5, <2>2, <2>3 DEF Books
<1>7. ASSUME NEW a \in Assets, NEW o \in book'[a]["offers"]
      PROVE  /\ o \in DOMAIN pending
             /\ pending[o].account = <<hash'[o].account, a>>
             /\ hash'[o].size <= pending[o].amount
  <2>1. o \in DOMAIN hash'
    BY <1>5 DEF Books
  <2>2. CASE o \in book[a]["offers"] /\ Survives(o)
    <3>1. /\ o \in DOMAIN pending /\ pending[o].account = <<hash[o].account, a>>
          /\ hash[o].size <= pending[o].amount
      BY <2>2 DEF BackedOrders
    <3> QED BY <1>2, <1>3, <1>4, <2>1, <2>2, <3>1 DEF Survives
  <2>3. CASE o = r.id /\ a = r.asset /\ r.side = "offers" /\ Enters(r) /\ Covered(r)
    BY <2>3 DEF Covered, Reserved, Cost, Enters
  <2> QED BY <1>5, <2>2, <2>3 DEF Books
<1> QED BY <1>6, <1>7 DEF BackedOrders

-----------------------------------------------------------------------------
(***************************************************************************)
(* The invariant, step by step.                                            *)
(***************************************************************************)

\* The command a request ends in, if the request holds what it must.
LEMMA SubmitOrderInv ==
  ASSUME BookInv, LedgerTypeOK, BackedOrders, UNCHANGED pending,
         NEW r \in Requests, SubmitOrder(r), r.kind = "limit" => Covered(r)
  PROVE  BookInv' /\ BackedOrders'
<1>1. r.id \notin DOMAIN hash
  BY DEF SubmitOrder, ExecuteOrder, AbortOrder, BookInv, BookTypeOK
<1>2. BookInv' /\ Command(r)
  BY ExecuteStep, AbortStep DEF SubmitOrder
<1> QED BY <1>1, <1>2, CommandBacked

\* Calls of the ledger leave the book as it is, and a reservation once made.
LEMMA BookKept ==
  ASSUME BookInv, BackedOrders, UNCHANGED bookVars,
         DOMAIN pending \subseteq DOMAIN pending',
         \A t \in DOMAIN pending : pending'[t] = pending[t]
  PROVE  BookInv' /\ BackedOrders'
<1>1. BookInv'
  BY DEF bookVars, BookInv, BookTypeOK, Resting, StoresAgree, Agree
<1>2. BackedOrders'
  BY DEF bookVars, BackedOrders, Books
<1> QED BY <1>1, <1>2

LEMMA HeldKept ==
  ASSUME Held, UNCHANGED inflight,
         DOMAIN pending \subseteq DOMAIN pending',
         \A t \in DOMAIN pending : pending'[t] = pending[t]
  PROVE  Held'
  BY DEF Held, Covered

\* A sum that does not exceed what an account may have has not wrapped.
LEMMA Unwrapped ==
  ASSUME NEW M \in Nat \ {0}, NEW x \in Int, NEW b \in Nat, x < M, b < M + x,
         x % M <= b, x % M > 0
  PROVE  x > 0 /\ x % M = x
<1>1. CASE x > 0
  BY <1>1
<1>2. CASE x = 0
  BY <1>2
<1>3. CASE x < 0
  <2>1. (x + M) % M = x % M
    OBVIOUS
  <2>2. 0 < x + M /\ x + M < M
    BY <1>3
  <2>3. (x + M) % M = x + M
    BY <2>2
  <2>4. QED
    BY <2>1, <2>3
<1>4. QED
  BY <1>1, <1>2, <1>3

\* What the ledger admits as a reservation is what the order may cost.
LEMMA AdmittedCost ==
  ASSUME LedgerInv, NEW r \in Requests, Reserves(r),
         Hold(r.id, Against(r), Reserved(r), Reservation(r))
  PROVE  Reservable(r) /\ Reservation(r) = Cost(r)
<1>1. /\ Reservation(r) > 0 /\ Against(r) # Reserved(r) /\ Reserved(r) \in DOMAIN ledger
      /\ Capped(Reserved(r)) =>
           ledger[Reserved(r)].credits + ledger[Reserved(r)].pending + Reservation(r)
             <= ledger[Reserved(r)].debits
  BY DEF Hold, Admits
<1>2. r.size \in Nat /\ r.price \in Int /\ r.kind \in {"market", "limit"}
      /\ r.side \in Books /\ r.size \in Sizes
  BY RequestType DEF Requests
<1>3. CASE r.side = "offers"
  BY <1>1, <1>3 DEF Reservable, Reservation, Cost
<1>4. CASE r.side = "bids"
  <2> DEFINE x == r.size * r.price
             e == ledger[Reserved(r)]
  <2>1. r.kind = "limit" /\ r.price \in Prices
    BY <1>4, RequestType DEF Reserves
  <2>2. Modulus \in Nat \ {0} /\ MaxDebits \in Nat /\ x < Modulus /\ MaxDebits < Modulus + x
    BY <1>2, <2>1, ModulusAssumption
  <2>3. Capped(Reserved(r))
    BY <1>1, <1>4 DEF Capped, Reserved, Against
  <2>4. /\ e.credits \in Nat /\ e.pending \in Nat /\ e.debits \in Nat
        /\ e.debits <= MaxDebits
    BY <1>1, <2>3 DEF LedgerInv, LedgerTypeOK, Balance, Solvent
  <2>5. Reservation(r) = x % Modulus /\ Cost(r) = x /\ x \in Int
    BY <1>2, <1>4 DEF Reservation, Cost
  <2>6. e.credits + e.pending + Reservation(r) <= e.debits /\ Reservation(r) > 0
    BY <1>1, <2>3
  <2> HIDE DEF x, e
  <2>7. x % Modulus \in Int
    BY <2>2, <2>5
  <2>8. x % Modulus <= MaxDebits /\ x % Modulus > 0
    BY <2>2, <2>4, <2>5, <2>6, <2>7
  <2>9. x > 0 /\ x % Modulus = x
    BY <2>2, <2>5, <2>8, Unwrapped
  <2>10. r.price > 0
    BY <1>2, <2>9, PositivePrice DEF x
  <2>11. r.size > 0
    BY <1>2, <2>9 DEF x
  <2>12. QED
    BY <1>4, <2>5, <2>9, <2>10, <2>11 DEF Reservable
<1>5. QED
  BY <1>2, <1>3, <1>4 DEF Books

\* The first or second call of a request: a reservation, after which the request
\* is covered.
LEMMA ReserveInv ==
  ASSUME ExchangeInv, NEW r \in Requests, Reserves(r),
         Hold(r.id, Against(r), Reserved(r), Reservation(r)),
         Serve(r, "submit"), UNCHANGED bookVars
  PROVE  ExchangeInv'
<1>0. Reservable(r) /\ Reservation(r) = Cost(r)
  BY AdmittedCost DEF ExchangeInv
<1>1. r.id \in OrderIds /\ Reservation(r) \in Int
  BY <1>0, RequestType DEF Cost
<1>2. /\ LedgerInv'
      /\ r.id \notin DOMAIN pending
      /\ DOMAIN pending' = DOMAIN pending \cup {r.id}
      /\ \A u \in DOMAIN pending : pending'[u] = pending[u]
      /\ pending'[r.id] = [account |-> Reserved(r), amount |-> Reservation(r)]
  BY <1>1, HoldInv DEF ExchangeInv
<1>3. BookInv' /\ BackedOrders'
  BY <1>2, BookKept DEF ExchangeInv
<1>4. /\ DOMAIN inflight' = DOMAIN inflight \cup {r.id}
      /\ inflight'[r.id] = [req |-> r, next |-> "submit"]
      /\ \A o \in DOMAIN inflight \ {r.id} : inflight'[o] = inflight[o]
  BY DEF Serve
<1>5. InflightTypeOK'
  BY <1>1 DEF ExchangeInv, InflightTypeOK, Serve, Calls
<1>6. Covered(r)'
  BY <1>0, <1>2 DEF Covered
<1>7. Held'
  <2> SUFFICES ASSUME NEW o \in DOMAIN inflight'
               PROVE  IF inflight'[o].next = "submit" THEN Covered(inflight[o].req)'
                                                     ELSE inflight'[o].req.side = "offers"
    BY DEF Held
  <2>1. CASE o = r.id
    BY <1>4, <1>6, <2>1 DEF Covered
  <2>2. CASE o # r.id
    BY <1>2, <1>4, <2>2 DEF ExchangeInv, Held, Covered
  <2> QED BY <2>1, <2>2
<1> QED BY <1>2, <1>3, <1>5, <1>7 DEF ExchangeInv

\* A request that ends, whatever it leaves behind.
LEMMA AnswerInv ==
  ASSUME InflightTypeOK, Held, NEW o \in DOMAIN inflight, Answer(o), UNCHANGED pending
  PROVE  InflightTypeOK' /\ Held'
  BY DEF InflightTypeOK, Held, Answer, Covered

LEMMA ExchangeInvInit == ExchangeInit => ExchangeInv
<1> SUFFICES ASSUME ExchangeInit PROVE ExchangeInv
  OBVIOUS
<1>1. BookInv
  BY BookInvInit DEF ExchangeInit
<1>2. LedgerInv /\ InflightTypeOK /\ Held
  BY FS_EmptySet DEF ExchangeInit, LedgerInit, LedgerInv, LedgerTypeOK, Solvent,
     PendingAddsUp, InflightTypeOK, Held
<1>3. BackedOrders
  BY DEF ExchangeInit, BookInit, BackedOrders, Books
<1> QED BY <1>1, <1>2, <1>3 DEF ExchangeInv

LEMMA ExchangeInvStep ==
  ASSUME ExchangeInv, [ExchangeNext]_exchangeVars
  PROVE  ExchangeInv'
<1> USE DEF ExchangeInv
<1>1. ASSUME NEW r \in Requests, SubmitUnreserved(r)
      PROVE  ExchangeInv'
  <2>1. r.kind # "limit" /\ SubmitOrder(r) /\ UNCHANGED <<ledgerVars, inflight>>
    BY <1>1, RequestType DEF SubmitUnreserved, Reserves, Books
  <2>2. BookInv' /\ BackedOrders'
    BY <2>1, SubmitOrderInv DEF ledgerVars, LedgerInv
  <2>3. LedgerInv' /\ InflightTypeOK'
    BY <2>1, LedgerKept DEF InflightTypeOK
  <2>4. Held'
    BY <2>1 DEF ledgerVars, Held, Covered
  <2> QED BY <2>2, <2>3, <2>4
<1>2. ASSUME NEW r \in Requests, ReserveCash(r)
      PROVE  ExchangeInv'
  BY <1>2, ReserveInv DEF ReserveCash
<1>3. ASSUME NEW r \in Requests, OpenAssetAccount(r)
      PROVE  ExchangeInv'
  <2>1. /\ r.side = "offers" /\ CreateAccount(Reserved(r)) /\ Serve(r, "reserve")
        /\ UNCHANGED bookVars
    BY <1>3 DEF OpenAssetAccount
  <2>2. Reserved(r) \in LedgerIds
    BY <2>1, RequestType DEF Reserved, LedgerIds
  <2>3. LedgerInv' /\ pending' = pending
    BY <2>1, <2>2, CreateAccountInv DEF CreateAccount
  <2>4. BookInv' /\ BackedOrders'
    BY <2>1, <2>3, BookKept
  <2>5. InflightTypeOK'
    BY <2>1, RequestType DEF InflightTypeOK, Serve, Calls
  <2>6. Held'
    BY <2>1, <2>3 DEF Held, Covered, Serve
  <2> QED BY <2>3, <2>4, <2>5, <2>6
<1>4. ASSUME NEW o \in DOMAIN inflight, ReserveShares(o)
      PROVE  ExchangeInv'
  <2> DEFINE r == inflight[o].req
  <2>1. r \in Requests /\ r.id = o /\ r.side = "offers"
    BY <1>4 DEF ReserveShares, InflightTypeOK, Held
  <2> QED BY <1>4, <2>1, ReserveInv DEF ReserveShares, Reserves
<1>5. ASSUME NEW o \in DOMAIN inflight, Submit(o)
      PROVE  ExchangeInv'
  <2> DEFINE r == inflight[o].req
  <2>1. r \in Requests /\ Covered(r)
    BY <1>5 DEF Submit, InflightTypeOK, Held
  <2>2. SubmitOrder(r) /\ Answer(o) /\ UNCHANGED ledgerVars
    BY <1>5 DEF Submit
  <2>3. BookInv' /\ BackedOrders'
    BY <2>1, <2>2, SubmitOrderInv DEF ledgerVars, LedgerInv
  <2>4. LedgerInv'
    BY <2>2, LedgerKept
  <2>5. InflightTypeOK' /\ Held'
    BY <2>2, AnswerInv DEF ledgerVars
  <2> QED BY <2>3, <2>4, <2>5
<1>6. ASSUME NEW o \in DOMAIN inflight, Drop(o)
      PROVE  ExchangeInv'
  <2>1. Answer(o) /\ UNCHANGED <<bookVars, ledgerVars>>
    BY <1>6 DEF Drop
  <2>2. LedgerInv' /\ pending' = pending
    BY <2>1, LedgerKept DEF ledgerVars
  <2>3. InflightTypeOK' /\ Held'
    BY <2>1, <2>2, AnswerInv
  <2>4. BookInv' /\ BackedOrders'
    BY <2>1, <2>2, BookKept
  <2> QED BY <2>2, <2>3, <2>4
<1>7. ASSUME LedgerInv', pending' = pending, UNCHANGED <<bookVars, inflight>>
      PROVE  ExchangeInv'
  <2>1. BookInv' /\ BackedOrders'
    BY <1>7, BookKept
  <2>2. Held'
    BY <1>7, HeldKept
  <2>3. InflightTypeOK'
    BY <1>7 DEF InflightTypeOK
  <2> QED BY <1>7, <2>1, <2>2, <2>3
<1>8. ASSUME NEW c \in Accounts, OpenCashAccount(c)
      PROVE  ExchangeInv'
  <2>1. <<c, Cash>> \in LedgerIds
    BY DEF LedgerIds
  <2> QED BY <1>7, <1>8, <2>1, CreateAccountInv DEF OpenCashAccount, CreateAccount
<1>9. ASSUME NEW c \in Accounts, NEW n \in Amounts, Deposit(c, n) \/ Withdraw(c, n)
      PROVE  ExchangeInv'
  <2>1. n \in Nat /\ ~Capped(<<Admin, Cash>>)
    BY AmountsAssumption DEF Capped
  <2>2. LedgerInv' /\ pending' = pending
    BY <1>9, <2>1, PostInv DEF Deposit, Withdraw
  <2> QED BY <1>7, <1>9, <2>2 DEF Deposit, Withdraw
<1>10. ASSUME NEW x \in DOMAIN ledger, NEW n \in Amounts, Grant(x, n)
       PROVE  ExchangeInv'
  <2>1. LedgerInv'
    BY <1>10, GrantInv, AmountsAssumption
  <2> QED BY <1>7, <1>10, <2>1 DEF Grant
<1>11. CASE UNCHANGED exchangeVars
  <2>1. LedgerInv' /\ pending' = pending /\ UNCHANGED <<bookVars, inflight>>
    BY <1>11, LedgerKept DEF exchangeVars, ledgerVars
  <2> QED BY <1>7, <2>1
<1> QED BY <1>1, <1>2, <1>3, <1>4, <1>5, <1>6, <1>8, <1>9, <1>10, <1>11 DEF ExchangeNext

-----------------------------------------------------------------------------
(***************************************************************************)
(* The theorems.                                                           *)
(***************************************************************************)

\* The ledger and the table of requests in flight keep their types.
THEOREM ExchangeTypeCorrect == ExchangeSpec => []ExchangeTypeOK
<1>1. ExchangeInv => ExchangeTypeOK
  BY DEF ExchangeInv, LedgerInv, LedgerTypeOK, InflightTypeOK, ExchangeTypeOK
<1> QED BY <1>1, ExchangeInvInit, ExchangeInvStep, PTL DEF ExchangeSpec

\* Whatever the interleaving of the calls of any number of requests, with crashes
\* between them, what rests on the book is covered by its owner's reservation.
THEOREM OrdersAlwaysBacked == ExchangeSpec => []BackedOrders
<1>1. ExchangeInv => BackedOrders
  BY DEF ExchangeInv
<1> QED BY <1>1, ExchangeInvInit, ExchangeInvStep, PTL DEF ExchangeSpec

(***************************************************************************)
(* Owners can pay for everything they have resting at once.                *)
(***************************************************************************)

\* Orders that each cost no more than their own transfer out of account x cost
\* together no more than x is worth.
LEMMA HoldingsCover ==
  ASSUME LedgerInv, NEW x, x # <<Admin, Cash>>, NEW v, NEW S, S \subseteq HeldBy(x),
         \A o \in S : v[o] \in Int /\ v[o] <= pending[o].amount
  PROVE  SumFunctionOnSet(v, S) <= Worth(x)
<1> DEFINE w == [t \in DOMAIN pending |-> pending[t].amount]
<1>1. HeldBy(x) \subseteq DOMAIN pending
  BY DEF HeldBy
<1>2. IsFiniteSet(HeldBy(x)) /\ IsFiniteSet(S)
  BY <1>1, FS_Subset DEF LedgerInv, PendingAddsUp
<1>3. \A t \in HeldBy(x) : w[t] = pending[t].amount /\ w[t] \in Nat
  BY <1>1 DEF LedgerInv, LedgerTypeOK
<1>4. Outstanding(x) = SumFunctionOnSet(w, HeldBy(x))
  BY DEF Outstanding
<1> HIDE DEF w
<1>5. SumFunctionOnSet(v, S) <= 1 * SumFunctionOnSet(w, S)
  <2>1. \A o \in S : v[o] \in Int /\ w[o] \in Int /\ v[o] <= 1 * w[o]
    BY <1>3
  <2> QED BY <1>2, <2>1, SumBound
<1>6. SumFunctionOnSet(w, S) <= SumFunctionOnSet(w, HeldBy(x))
  BY <1>2, <1>3, SumSubset
<1>7. /\ SumFunctionOnSet(v, S) \in Int /\ SumFunctionOnSet(w, S) \in Int
      /\ SumFunctionOnSet(w, HeldBy(x)) \in Int
  BY <1>2, <1>3, SumInt
<1>8. SumFunctionOnSet(v, S) <= Outstanding(x)
  BY <1>4, <1>5, <1>6, <1>7
<1>9. CASE x \in DOMAIN ledger
  <2>1. ledger[x].pending = Outstanding(x) /\ ledger[x] \in Balance
    BY <1>9 DEF LedgerInv, LedgerTypeOK, PendingAddsUp
  <2>2. ledger[x].credits + ledger[x].pending <= ledger[x].debits
    BY <1>9 DEF LedgerInv, Solvent, Capped
  <2>3. /\ ledger[x].credits \in Nat /\ ledger[x].pending \in Nat
        /\ ledger[x].debits \in Nat
    BY <2>1 DEF Balance
  <2>4. Worth(x) = ledger[x].debits - ledger[x].credits
    BY <1>9 DEF Worth
  <2> QED BY <1>7, <1>8, <2>1, <2>2, <2>3, <2>4
<1>10. CASE x \notin DOMAIN ledger
  <2>1. S = {}
    BY <1>10 DEF HeldBy, LedgerInv, PendingAddsUp
  <2> QED BY <1>10, <2>1, SumEmpty DEF Worth
<1> QED BY <1>9, <1>10

\* Over all assets and however many orders, an owner's bids together cost no more
\* than its cash and its offers of an asset are no more than its shares.
THEOREM BookAlwaysFunded == ExchangeSpec => []FundedBook
<1>1. ASSUME ExchangeInv PROVE FundedBook
  <2>1. \A o \in DOMAIN hash : hash[o].asset \in Assets /\ hash[o].size \in Nat
                               /\ hash[o].price \in Int
    BY <1>1, HashFacts DEF ExchangeInv, BookInv, BookTypeOK, Resting
  <2>2. ASSUME NEW c \in Accounts, c # Admin
        PROVE  SumFunction([o \in RestingBids(c) |-> hash[o].size * hash[o].price])
                 <= Worth(<<c, Cash>>)
    <3> DEFINE v == [o \in RestingBids(c) |-> hash[o].size * hash[o].price]
    <3>1. ASSUME NEW o \in RestingBids(c)
          PROVE  /\ o \in HeldBy(<<c, Cash>>)
                 /\ v[o] \in Int /\ v[o] <= pending[o].amount
      <4>1. o \in DOMAIN hash /\ hash[o].account = c /\ o \in book[hash[o].asset]["bids"]
        BY DEF RestingBids
      <4>2. /\ o \in DOMAIN pending /\ pending[o].account = <<c, Cash>>
            /\ hash[o].size * hash[o].price <= pending[o].amount
        BY <1>1, <2>1, <4>1 DEF ExchangeInv, BackedOrders
      <4> QED BY <2>1, <4>1, <4>2 DEF HeldBy
    <3>2. <<c, Cash>> # <<Admin, Cash>>
      BY <2>2
    <3>3. SumFunction(v) = SumFunctionOnSet(v, RestingBids(c))
      BY DEF SumFunction
    <3> HIDE DEF v
    <3>4. SumFunctionOnSet(v, RestingBids(c)) <= Worth(<<c, Cash>>)
      BY <1>1, <3>1, <3>2, HoldingsCover DEF ExchangeInv
    <3> QED BY <3>3, <3>4 DEF v
  <2>3. ASSUME NEW c \in Accounts, NEW a \in Assets
        PROVE  SumSizes(RestingOffers(c, a)) <= Worth(<<c, a>>)
    <3> DEFINE v == [o \in DOMAIN hash |-> hash[o].size]
    <3>1. ASSUME NEW o \in RestingOffers(c, a)
          PROVE  /\ o \in HeldBy(<<c, a>>)
                 /\ v[o] \in Int /\ v[o] <= pending[o].amount
      <4>1. o \in book[a]["offers"] /\ hash[o].account = c
        BY DEF RestingOffers
      <4>2. o \in DOMAIN hash
        BY <1>1, <4>1 DEF ExchangeInv, BookInv, StoresAgree, Agree, Books
      <4>3. /\ o \in DOMAIN pending /\ pending[o].account = <<c, a>>
            /\ hash[o].size <= pending[o].amount
        BY <1>1, <4>1 DEF ExchangeInv, BackedOrders
      <4> QED BY <2>1, <4>2, <4>3 DEF HeldBy
    <3>2. <<c, a>> # <<Admin, Cash>>
      BY CashAssumption
    <3>3. SumSizes(RestingOffers(c, a)) = SumFunctionOnSet(v, RestingOffers(c, a))
      BY DEF SumSizes
    <3> HIDE DEF v
    <3> QED BY <1>1, <3>1, <3>2, <3>3, HoldingsCover DEF ExchangeInv
  <2> QED BY <2>2, <2>3 DEF FundedBook
<1> QED BY <1>1, ExchangeInvInit, ExchangeInvStep, PTL DEF ExchangeSpec

\* Seen from the book, every step of the exchange is a command or none.
LEMMA BookStep ==
  ASSUME ExchangeInv, [ExchangeNext]_exchangeVars
  PROVE  [BookNext]_bookVars
<1>1. ASSUME NEW r \in Requests, SubmitUnreserved(r)
      PROVE  BookNext
  BY <1>1, RequestType DEF SubmitUnreserved, BookNext, Reserves, Reservable, Books
<1>2. ASSUME NEW o \in DOMAIN inflight, Submit(o)
      PROVE  BookNext
  <2>1. inflight[o].req \in Requests /\ Covered(inflight[o].req)
    BY <1>2 DEF Submit, ExchangeInv, InflightTypeOK, Held
  <2>2. Reservable(inflight[o].req)
    BY <2>1 DEF Covered
  <2> QED BY <1>2, <2>1, <2>2 DEF Submit, BookNext
<1>3. ASSUME NEW r \in Requests, ReserveCash(r) \/ OpenAssetAccount(r)
      PROVE  UNCHANGED bookVars
  BY <1>3 DEF ReserveCash, OpenAssetAccount
<1>4. ASSUME NEW o \in DOMAIN inflight, ReserveShares(o) \/ Drop(o)
      PROVE  UNCHANGED bookVars
  BY <1>4 DEF ReserveShares, Drop
<1>5. ASSUME NEW c \in Accounts, OpenCashAccount(c)
      PROVE  UNCHANGED bookVars
  BY <1>5 DEF OpenCashAccount
<1>6. ASSUME NEW c \in Accounts, NEW n \in Amounts, Deposit(c, n) \/ Withdraw(c, n)
      PROVE  UNCHANGED bookVars
  BY <1>6 DEF Deposit, Withdraw
<1>7. ASSUME NEW x \in DOMAIN ledger, NEW n \in Amounts, Grant(x, n)
      PROVE  UNCHANGED bookVars
  BY <1>7 DEF Grant
<1>8. CASE UNCHANGED exchangeVars
  BY <1>8 DEF exchangeVars
<1> QED BY <1>1, <1>2, <1>3, <1>4, <1>5, <1>6, <1>7, <1>8 DEF ExchangeNext

\* The exchange implements OrderBook: its requests reach order.lua one command at a
\* time, limit bids and offers only after a reservation that the ledger admitted, and
\* so, the wrapped product of `as u128' included, only with a positive size and a bid
\* with a positive price; market bids reserve nothing and come in any size.
THEOREM ExchangeServesTheBook == ExchangeSpec => ServesTheBook
<1>1. ExchangeInit => BookInit
  BY DEF ExchangeInit
<1> QED BY <1>1, ExchangeInvInit, ExchangeInvStep, BookStep, PTL
     DEF ExchangeSpec, ServesTheBook, BookSpec

\* So the book stays fair behind the API as well: typed, unlocked, with its stores in
\* agreement and no buyer charged above its limit; and it trades by price and id, makes
\* and loses no shares and removes only what was traded.
THEOREM ExchangeKeepsTheBook ==
  ExchangeSpec => /\ [](BookTypeOK /\ StoresAgree /\ NeverLocked /\ BuyersNeverOverpay)
                  /\ FillsBalance /\ OffersTradeInPriority /\ OnlyTradesRemove
<1> QED BY ExchangeServesTheBook, BookTypeCorrect, BookStoresAgree, BookNeverLocked,
           BookBuyersNeverOverpay, BookFillsBalance, BookOffersTradeInPriority,
           BookOnlyTradesRemove, PTL DEF ServesTheBook

=============================================================================
