------------------------------ MODULE OrderBook ------------------------------
(***************************************************************************)
(* The order book in Redis and the script order.lua that matches an order  *)
(* against it.  Redis runs a script with no other command in between, so   *)
(* one command is one step here; OrderScript takes the script apart and    *)
(* shows that its loops compute what this module says in closed form.      *)
(*                                                                         *)
(* Redis does not roll a script back when it fails halfway: AbortOrder is  *)
(* what remains when `unpack(completed_order_ids)' overflows Lua's stack.  *)
(***************************************************************************)
EXTENDS Orders, FiniteSetsExt

VARIABLES
  book,    \* [asset][side]: the members of the sorted sets <asset>_bids, <asset>_offers
  hash,    \* order id -> the hash stored under that id
  open,    \* [account]: the members of the sorted set stored under the account id
  seen,    \* ids already given to an order: now_v7 never returns them again
  reply    \* what the last command returned

bookVars == <<book, hash, open, seen, reply>>

Replies == [error : BOOLEAN, shares : Nat, dollars : Int, completed : SUBSET OrderIds]

NoReply == [error |-> FALSE, shares |-> 0, dollars |-> 0, completed |-> {}]
Failure == [NoReply EXCEPT !.error = TRUE]

BookInit ==
  /\ book  = [a \in Assets |-> [s \in Books |-> {}]]
  /\ hash  = [o \in {} |-> {}]
  /\ open  = [c \in Accounts |-> {}]
  /\ seen  = {}
  /\ reply = NoReply

-----------------------------------------------------------------------------
(***************************************************************************)
(* The sweep, in closed form.  SharesLeft(r, o) is what is left of the     *)
(* incoming order when the loop reaches candidate o; it is positive        *)
(* exactly when the loop does reach o.                                     *)
(***************************************************************************)

SumSizes(S) == SumFunctionOnSet([o \in DOMAIN hash |-> hash[o].size], S)

Ahead(r, o) ==
  {c \in Candidates(r, book, hash) : Before(Opposite(r.side), hash, c, o)}

SharesLeft(r, o) == r.size - SumSizes(Ahead(r, o))

\* Mutant of Completed: the loop does not tell a candidate it uses up from one it
\* only shrinks.
CompletedOrPartial(r) ==
  {o \in Candidates(r, book, hash) : SharesLeft(r, o) > 0}

Completed(r) ==
  {o \in Candidates(r, book, hash) :
     SharesLeft(r, o) > 0 /\ hash[o].size <= SharesLeft(r, o)}

Partial(r) ==
  {o \in Candidates(r, book, hash) : SharesLeft(r, o) \in 1 .. hash[o].size - 1}

\* What the sweep leaves of the incoming order; not positive once it is filled.
Unfilled(r) == r.size - SumSizes(Candidates(r, book, hash))

Filled(r) == r.size - Max({0, Unfilled(r)})

(***************************************************************************)
(* dollar_volume_filled adds score * size of every completed candidate: a  *)
(* bid's score is its price negated, and the share taken out of a partly   *)
(* filled candidate is not added.                                          *)
(***************************************************************************)
Dollars(r) ==
  SumFunction([o \in Completed(r) |->
                 Score(Opposite(r.side), hash[o].price) * hash[o].size])

-----------------------------------------------------------------------------

\* Mutant of Shrunk: the candidate is set to what the incoming order wants instead
\* of being reduced by it.
SetToWanted(r, h) ==
  [o \in DOMAIN h |->
     IF o \in Partial(r) THEN [h[o] EXCEPT !.size = SharesLeft(r, o)] ELSE h[o]]

Shrunk(r, h) ==
  [o \in DOMAIN h |->
     IF o \in Partial(r) THEN [h[o] EXCEPT !.size = @ - SharesLeft(r, o)] ELSE h[o]]

\* Mutant of Unlisted: the clean loop is missing.
LeftListed(S) == open

Unlisted(S) == [c \in Accounts |-> open[c] \ {o \in S : hash[o].account = c}]

\* Mutant of Rests: `size >= 0' for `size > 0'.
RestsWhenFilled(r) == r.kind = "limit" /\ Unfilled(r) \in 0 .. r.size

Rests(r) == r.kind = "limit" /\ Unfilled(r) \in 1 .. r.size

(***************************************************************************)
(* The script runs to its end: the partly filled candidate shrinks, the    *)
(* completed ones leave the three structures, and what is left of a limit  *)
(* order enters them.                                                      *)
(***************************************************************************)
ExecuteOrder(r) ==
  /\ r.id \notin seen
  /\ seen' = seen \cup {r.id}
  /\ Cardinality(Completed(r)) <= UnpackLimit
  /\ LET kept    == Shrunk(r, [o \in DOMAIN hash \ Completed(r) |-> hash[o]])
         resting == [account |-> r.account, asset |-> r.asset, price |-> r.price,
                     size |-> Unfilled(r), original |-> r.size,
                     dollars |-> Dollars(r)]
         new     == IF Rests(r) THEN {r.id} ELSE {}
     IN  /\ hash' = [o \in DOMAIN kept \cup new |->
                       IF o \in new THEN resting ELSE kept[o]]
         /\ book' = [book EXCEPT ![r.asset] =
                       [s \in Books |-> IF s = r.side THEN @[s] \cup new
                                                      ELSE @[s] \ Completed(r)]]
         /\ open' = [Unlisted(Completed(r)) EXCEPT ![r.account] = @ \cup new]
  /\ reply' = [error |-> FALSE, shares |-> Filled(r), dollars |-> Dollars(r),
               completed |-> Completed(r)]

(***************************************************************************)
(* More candidates are completed than unpack can push: the HINCRBY on the  *)
(* partly filled one and the ZREMs from the accounts' sets have been done, *)
(* the deletion and the insertion have not.                                *)
(***************************************************************************)
AbortOrder(r) ==
  /\ r.id \notin seen
  /\ seen' = seen \cup {r.id}
  /\ Cardinality(Completed(r)) > UnpackLimit
  /\ hash' = Shrunk(r, hash)
  /\ open' = Unlisted(Completed(r))
  /\ reply' = Failure
  /\ UNCHANGED book

SubmitOrder(r) == ExecuteOrder(r) \/ AbortOrder(r)

BookNext == \E r \in Requests : SubmitOrder(r) /\ Reservable(r)

BookSpec == BookInit /\ [][BookNext]_bookVars

-----------------------------------------------------------------------------
(***************************************************************************)
(* Properties                                                              *)
(***************************************************************************)

\* The types of the book's variables.
BookTypeOK ==
  /\ book \in [Assets -> [Books -> SUBSET OrderIds]]
  /\ hash \in [DOMAIN hash -> Resting] /\ DOMAIN hash \subseteq seen
  /\ open \in [Accounts -> SUBSET OrderIds]
  /\ seen \subseteq OrderIds
  /\ reply \in Replies

\* The sorted sets and the hashes of Redis are three separate structures.  Between
\* two runs of order.lua every member of a book has a hash of its asset, every hash
\* is in exactly one book, and what an account's set lists is a live order of that
\* account: an aborted run, which stops between its writes, leaves all this as well.
StoresAgree == Agree(book, hash, open)

\* An order and its remainder never rest on a book at the price of an order
\* on the other side: whichever came second would have been matched with it.
\* The two range bounds of order.lua both include the order's own price.
NeverLocked == Unlocked(book, hash)

\* No bid rests above an offer that rests: the later of the two would have been
\* matched with the earlier.  The code breaks this: a sell reads the bids from its
\* limit down instead of those from its limit up.
NeverCrossed ==
  \A a \in Assets : \A b \in book[a]["bids"], o \in book[a]["offers"] :
    hash[b].price <= hash[o].price

\* The dollar_volume_filled a resting bid is stored with never exceeds its
\* limit times the shares it has bought so far, whatever partial fills follow.
BuyersNeverOverpay == NoOverpayment(book, hash)

-----------------------------------------------------------------------------

Lost(o) == hash[o].size - (IF o \in DOMAIN hash' THEN hash'[o].size ELSE 0)

\* A command that succeeds takes from the resting orders exactly the shares it
\* reports as filled, and what it leaves resting of the incoming order is the
\* rest of it: no share is made or lost by the sweep.
FillsBalance ==
  [][~reply'.error =>
       /\ SumFunction([o \in DOMAIN hash |-> Lost(o)]) = reply'.shares
       /\ \A o \in DOMAIN hash' \ DOMAIN hash :
            hash'[o].original = hash'[o].size + reply'.shares]_bookVars

\* Offers trade in the order of their prices and, at one price, of their ids: when a
\* step takes shares from an offer, it leaves no better-priced offer of the asset
\* behind, nor one of the same price with an earlier id, unless the script aborted
\* before its deletions.
OffersTradeInPriority ==
  [][\A a \in Assets : \A o, p \in book[a]["offers"] :
       (/\ ~reply'.error
        /\ hash[o].price < hash[p].price \/ (hash[o].price = hash[p].price /\ o < p)
        /\ Lost(p) > 0)
         => o \notin DOMAIN hash']_bookVars

\* An order that leaves its book was traded away: the reply names it among the
\* completed orders, and some order of another side took its shares.
OnlyTradesRemove ==
  [][\A o \in DOMAIN hash \ DOMAIN hash' :
       o \in reply'.completed /\ reply'.shares >= hash[o].size]_bookVars

=============================================================================
