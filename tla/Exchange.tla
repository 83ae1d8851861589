------------------------------ MODULE Exchange ------------------------------
(***************************************************************************)
(* The API over its two stores of value: submit_orders_for_account         *)
(* reserves in TigerBeetle and then runs order.lua in Redis, with nothing  *)
(* that spans the two; deposits, withdrawals and other requests of any     *)
(* replica come in between, and a request may die between any two calls.   *)
(*                                                                         *)
(* A request is here from its first call to a store.  An error from a call *)
(* ends the request with a 500 and leaves what earlier calls did, which is *)
(* also what a crash of the replica and a lost answer leave: Drop.         *)
(***************************************************************************)
EXTENDS OrderBook, Ledger

CONSTANTS
  Amounts,    \* amounts of deposits, withdrawals and grants
  Modulus,    \* amounts of transfers wrap at it (2^128)
  MaxDebits   \* bound of the model: no account is debited beyond it from outside

ASSUME AmountsAssumption == Amounts \subseteq Nat

\* An i32 times a u32 is far from wrapping, and what a balance may come to leaves
\* that much room below the modulus.
ASSUME ModulusAssumption ==
  /\ Modulus \in Nat \ {0} /\ MaxDebits \in Nat
  /\ \A n \in Sizes, p \in Prices : n * p < Modulus /\ MaxDebits < Modulus + n * p

VARIABLES
  inflight    \* order id -> the request being served and the call it makes next

exchangeVars == <<bookVars, ledgerVars, inflight>>

Calls == {"reserve", "submit"}

ExchangeInit == BookInit /\ LedgerInit /\ inflight = [o \in {} |-> {}]

(***************************************************************************)
(* now_v7 returns an id no request has had; it says nothing of the order   *)
(* in which the requests reach the stores.  The id of a request that died  *)
(* without a trace in either store may be given again here.                *)
(***************************************************************************)
Fresh(o) == o \notin seen \cup DOMAIN inflight \cup DOMAIN pending

Serve(r, call) ==
  inflight' = [o \in DOMAIN inflight \cup {r.id} |->
                 IF o = r.id THEN [req |-> r, next |-> call] ELSE inflight[o]]

Answer(o) == inflight' = [p \in DOMAIN inflight \ {o} |-> inflight[p]]

\* Mutant of Reserves: offers are let through unreserved, as market bids are.
ReservesLimitBids(r) == r.side = "bids" /\ r.kind = "limit"

Reserves(r) == r.side = "offers" \/ r.kind = "limit"

\* Mutants of Reservation: the price of one share, whatever the size; and the price
\* as unsigned_abs gives it.
ReservationOfOne(r) == IF r.side = "bids" THEN r.price % Modulus ELSE r.size

ReservationUnsigned(r) ==
  IF r.side = "bids" THEN r.size * (IF r.price < 0 THEN -r.price ELSE r.price) ELSE r.size

(***************************************************************************)
(* The amount of a request's pending transfer.  `price as u128' extends    *)
(* the sign, and the product wraps, as arithmetic does in the release      *)
(* build that is deployed.  (A debug build panics instead, and the request *)
(* dies before its first call.)  A negative price so becomes an amount not *)
(* far below the modulus.                                                  *)
(***************************************************************************)
Reservation(r) == IF r.side = "bids" THEN (r.size * r.price) % Modulus ELSE r.size

\* Mutant of Reserved: the arguments of new_v5 are swapped.
ReservedSwapped(r) ==
  IF r.side = "bids" THEN <<r.account, Cash>> ELSE <<r.asset, r.account>>

\* The account and the counterpart of a request's reservation.
Reserved(r) == IF r.side = "bids" THEN <<r.account, Cash>> ELSE <<r.account, r.asset>>
Against(r)  == IF r.side = "bids" THEN <<Admin, Cash>> ELSE <<Admin, r.asset>>

-----------------------------------------------------------------------------

(***************************************************************************)
(* A market bid reserves nothing and goes straight to the script.          *)
(***************************************************************************)
SubmitUnreserved(r) ==
  /\ ~Reserves(r)
  /\ Fresh(r.id)
  /\ SubmitOrder(r)
  /\ UNCHANGED <<ledgerVars, inflight>>

(***************************************************************************)
(* A limit bid: its first call holds size * price of the account's cash.   *)
(***************************************************************************)
ReserveCash(r) ==
  /\ r.side = "bids" /\ Reserves(r)
  /\ Fresh(r.id)
  /\ Hold(r.id, Against(r), Reserved(r), Reservation(r))
  /\ Serve(r, "submit")
  /\ UNCHANGED bookVars

(***************************************************************************)
(* An offer: its first call creates the account of the asset, its second   *)
(* holds the shares.                                                       *)
(***************************************************************************)
OpenAssetAccount(r) ==
  /\ r.side = "offers"
  /\ Fresh(r.id)
  /\ CreateAccount(Reserved(r))
  /\ Serve(r, "reserve")
  /\ UNCHANGED bookVars

ReserveShares(o) ==
  /\ inflight[o].next = "reserve"
  /\ LET r == inflight[o].req
     IN  Hold(o, Against(r), Reserved(r), Reservation(r)) /\ Serve(r, "submit")
  /\ UNCHANGED bookVars

Submit(o) ==
  /\ inflight[o].next = "submit"
  /\ SubmitOrder(inflight[o].req)
  /\ Answer(o)
  /\ UNCHANGED ledgerVars

(***************************************************************************)
(* The request ends before its next call: the ledger refused, a connection *)
(* broke, the replica crashed.                                             *)
(***************************************************************************)
Drop(o) == Answer(o) /\ UNCHANGED <<bookVars, ledgerVars>>

(***************************************************************************)
(* The ledger's part of register, and of the start of a replica for Admin. *)
(***************************************************************************)
OpenCashAccount(c) ==
  /\ CreateAccount(<<c, Cash>>)
  /\ UNCHANGED <<bookVars, inflight>>

(***************************************************************************)
(* deposit_or_withdraw.                                                    *)
(***************************************************************************)
Deposit(c, n) ==
  /\ <<c, Cash>> \in DOMAIN ledger /\ ledger[<<c, Cash>>].debits + n <= MaxDebits
  /\ Post(<<c, Cash>>, <<Admin, Cash>>, n)
  /\ UNCHANGED <<bookVars, inflight>>

Withdraw(c, n) ==
  /\ Post(<<Admin, Cash>>, <<c, Cash>>, n)
  /\ UNCHANGED <<bookVars, inflight>>

(***************************************************************************)
(* No code of the repository debits an asset account, so without help from *)
(* outside no offer gets past its reservation.  Grant is that help: an     *)
(* operator's transfer of shares in TigerBeetle itself.                    *)
(***************************************************************************)
Grant(x, n) ==
  /\ x[2] # Cash /\ x[1] # Admin
  /\ ledger[x].debits + n <= MaxDebits
  /\ ledger' = [ledger EXCEPT ![x].debits = @ + n]
  /\ UNCHANGED <<pending, bookVars, inflight>>

(***************************************************************************)
(* get_equities_for_account reads the accounts of all assets.              *)
(***************************************************************************)
Holdings(c) ==
  {[asset |-> a, amount |-> ledger[<<c, a>>].credits - ledger[<<c, a>>].debits] :
     a \in {b \in Assets : <<c, b>> \in DOMAIN ledger}}

ExchangeNext ==
  \/ \E r \in Requests : SubmitUnreserved(r) \/ ReserveCash(r) \/ OpenAssetAccount(r)
  \/ \E o \in DOMAIN inflight : ReserveShares(o) \/ Submit(o) \/ Drop(o)
  \/ \E c \in Accounts : OpenCashAccount(c)
  \/ \E c \in Accounts, n \in Amounts : Deposit(c, n) \/ Withdraw(c, n)
  \/ \E x \in DOMAIN ledger, n \in Amounts : Grant(x, n)

ExchangeSpec == ExchangeInit /\ [][ExchangeNext]_exchangeVars

-----------------------------------------------------------------------------
(***************************************************************************)
(* Properties                                                              *)
(***************************************************************************)

\* The types of the ledger's and the API's variables.
ExchangeTypeOK ==
  /\ DOMAIN ledger \subseteq LedgerIds /\ ledger \in [DOMAIN ledger -> Balance]
  /\ DOMAIN pending \subseteq OrderIds
  /\ pending \in [DOMAIN pending -> [account : LedgerIds, amount : Nat \ {0}]]
  /\ DOMAIN inflight \subseteq OrderIds
  /\ inflight \in [DOMAIN inflight -> [req : Requests, next : Calls]]
  /\ \A o \in DOMAIN inflight : inflight[o].req.id = o

\* Every resting order, however often it has been filled in part, is backed by
\* the pending transfer that has its id: of its owner's cash for a bid, of its
\* owner's shares of the asset for an offer, and for at least what still rests.
BackedOrders ==
  \A a \in Assets :
    /\ \A o \in book[a]["bids"] :
         /\ o \in DOMAIN pending /\ pending[o].account = <<hash[o].account, Cash>>
         /\ hash[o].size * hash[o].price <= pending[o].amount
    /\ \A o \in book[a]["offers"] :
         /\ o \in DOMAIN pending /\ pending[o].account = <<hash[o].account, a>>
         /\ hash[o].size <= pending[o].amount

\* Owners can pay for everything they have resting at once: over all assets, an
\* account's bids cost no more than the cash it has not withdrawn, and its offers
\* of an asset are no more than the shares it has.  Of the admin's cash, which
\* has no limit, nothing is said.
RestingBids(c)      == {o \in DOMAIN hash : hash[o].account = c /\ o \in book[hash[o].asset]["bids"]}
RestingOffers(c, a) == {o \in book[a]["offers"] : hash[o].account = c}
Worth(x) == IF x \in DOMAIN ledger THEN ledger[x].debits - ledger[x].credits ELSE 0

FundedBook ==
  \A c \in Accounts :
    /\ c # Admin =>
         SumFunction([o \in RestingBids(c) |-> hash[o].size * hash[o].price])
           <= Worth(<<c, Cash>>)
    /\ \A a \in Assets :
         SumSizes(RestingOffers(c, a)) <= Worth(<<c, a>>)

\* An account's holding of an asset, as get_equities_for_account reports it, is the
\* number of shares the account has, which is never negative.  The code breaks
\* this: it subtracts debits from credits where shares are debits.
HoldingsAreShares ==
  \A c \in Accounts : \A h \in Holdings(c) : h.amount >= 0

\* What has to be reserved reaches Redis only after the ledger has admitted it, and
\* the ledger admits no offer of nothing, no bid for nothing and, `as u128'
\* notwithstanding, no bid at a price of zero or less: every call of order.lua is one
\* that OrderBook makes, so that all that is shown of OrderBook holds of the exchange.
\* (Market bids reserve nothing; OrderBook takes them in any size.)
ServesTheBook == BookSpec

=============================================================================
