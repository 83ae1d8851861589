----------------------------- MODULE OrderScript -----------------------------
(***************************************************************************)
(* order.lua, one call that writes a key at a time.  While a script runs   *)
(* Redis serves no other command, so pc is never that of two scripts; what *)
(* other commands can see is the state in which pc is "idle".              *)
(*                                                                         *)
(* The phases of a run, from and back to idle:                             *)
(*   match -> clean -> remove -> delete -> insert -> store -> list         *)
(* remove and delete are skipped when nothing was completed, store and     *)
(* list when nothing comes to rest; and the run ends at remove when        *)
(* unpack(completed_order_ids) raises an error: the calls already made     *)
(* stay, since Redis does not roll a script back.                          *)
(***************************************************************************)
EXTENDS Orders

CONSTANT NoRequest   \* the value of req while no script runs

VARIABLES
  book, hash, open, seen,   \* the keys of Redis and the ids used up, as in OrderBook
  reply,
  pc,        \* where the running script is
  req,       \* its KEYS and ARGV
  todo,      \* candidates the match loop has still to visit
  left,      \* the variable size: what is left of the incoming order
  dollars,   \* dollar_volume_filled
  done,      \* completed_order_ids
  listed,    \* those of them the clean loop has still to visit
  visible    \* the keys as other commands see them (history, for the refinement)

keys   == <<book, hash, open, seen>>
locals == <<req, todo, left, dollars, done, listed>>
scriptVars == <<keys, reply, pc, locals, visible>>

Phases == {"idle", "match", "clean", "remove", "delete", "insert", "store", "list"}

NoReply == [error |-> FALSE, shares |-> 0, dollars |-> 0, completed |-> {}]

Running == pc # "idle"

ScriptInit ==
  /\ book = [a \in Assets |-> [s \in Books |-> {}]]
  /\ hash = [o \in {} |-> {}]
  /\ open = [c \in Accounts |-> {}]
  /\ seen = {}
  /\ reply = NoReply
  /\ pc = "idle"
  /\ req = NoRequest
  /\ todo = {} /\ left = 0 /\ dollars = 0 /\ done = {} /\ listed = {}
  /\ visible = [book |-> book, hash |-> hash, open |-> open, seen |-> seen]

-----------------------------------------------------------------------------

(***************************************************************************)
(* Unpack the arguments, choose the books and the range, read the          *)
(* candidates.                                                             *)
(***************************************************************************)
Start(r) ==
  /\ ~Running
  /\ r.id \notin seen
  /\ Reservable(r)
  /\ req' = r
  /\ todo' = Candidates(r, book, hash)
  /\ left' = r.size
  /\ dollars' = 0 /\ done' = {} /\ listed' = {}
  /\ seen' = seen \cup {r.id}
  /\ pc' = "match"
  /\ UNCHANGED <<book, hash, open, reply, visible>>

\* Mutants of Reaches: candidates in no order, as from a set that is not sorted, and
\* in the order of ZREVRANGE.
ReachesAny(o) == pc = "match" /\ o \in todo

ReachesLast(o) ==
  /\ pc = "match"
  /\ o \in todo
  /\ \A p \in todo \ {o} : Before(Opposite(req.side), hash, p, o)

Reaches(o) ==
  /\ pc = "match"
  /\ o \in todo
  /\ \A p \in todo \ {o} : Before(Opposite(req.side), hash, o, p)

\* Mutant of MatchPartially: `matching_size >= size'.
MatchPartiallyOrWhole(o) ==
  /\ Reaches(o)
  /\ hash[o].size >= left
  /\ hash' = [hash EXCEPT ![o].size = @ - left]
  /\ left' = 0
  /\ todo' = todo \ {o}
  /\ pc' = "clean"
  /\ listed' = done
  /\ UNCHANGED <<book, open, seen, reply, req, dollars, done, visible>>

(***************************************************************************)
(* The candidate is larger than what is left: it shrinks, the loop ends.   *)
(***************************************************************************)
MatchPartially(o) ==
  /\ Reaches(o)
  /\ hash[o].size > left
  /\ hash' = [hash EXCEPT ![o].size = @ - left]
  /\ left' = 0
  /\ todo' = todo \ {o}
  /\ pc' = "clean"
  /\ listed' = done
  /\ UNCHANGED <<book, open, seen, reply, req, dollars, done, visible>>

(***************************************************************************)
(* The candidate is used up; its hash keeps its size until the deletion.   *)
(***************************************************************************)
MatchWhole(o) ==
  /\ Reaches(o)
  /\ hash[o].size <= left
  /\ done' = done \cup {o}
  /\ dollars' = dollars + Score(Opposite(req.side), hash[o].price) * hash[o].size
  /\ left' = left - hash[o].size
  /\ todo' = todo \ {o}
  /\ IF left' = 0 THEN pc' = "clean" /\ listed' = done'
                  ELSE UNCHANGED <<pc, listed>>
  /\ UNCHANGED <<keys, reply, req, visible>>

(***************************************************************************)
(* No candidate is left to visit.                                          *)
(***************************************************************************)
MatchEnd ==
  /\ pc = "match"
  /\ todo = {}
  /\ pc' = "clean"
  /\ listed' = done
  /\ UNCHANGED <<keys, reply, req, todo, left, dollars, done, visible>>

\* Mutant of Clean: the hash is deleted here, before the member of the book.
CleanAndDelete(o) ==
  /\ pc = "clean"
  /\ o \in listed
  /\ open' = [open EXCEPT ![hash[o].account] = @ \ {o}]
  /\ hash' = [p \in DOMAIN hash \ {o} |-> hash[p]]
  /\ listed' = listed \ {o}
  /\ UNCHANGED <<book, seen, reply, pc, req, todo, left, dollars, done, visible>>

(***************************************************************************)
(* One iteration of the loop that takes the completed orders out of their  *)
(* accounts' sets.                                                         *)
(***************************************************************************)
Clean(o) ==
  /\ pc = "clean"
  /\ o \in listed
  /\ open' = [open EXCEPT ![hash[o].account] = @ \ {o}]
  /\ listed' = listed \ {o}
  /\ UNCHANGED <<book, hash, seen, reply, pc, req, todo, left, dollars, done, visible>>

CleanEnd ==
  /\ pc = "clean"
  /\ listed = {}
  /\ pc' = IF done = {} THEN "insert" ELSE "remove"
  /\ UNCHANGED <<keys, reply, locals, visible>>

(***************************************************************************)
(* The script ends: its locals die, its writes become visible.             *)
(***************************************************************************)
Return ==
  /\ pc' = "idle"
  /\ req' = NoRequest
  /\ todo' = {} /\ left' = 0 /\ dollars' = 0 /\ done' = {} /\ listed' = {}
  /\ visible' = [book |-> book', hash |-> hash', open |-> open', seen |-> seen']

\* Mutant of Remove: ZREM on book_to_insert.
RemoveFromOwnSide ==
  /\ pc = "remove"
  /\ Cardinality(done) <= UnpackLimit
  /\ book' = [book EXCEPT ![req.asset][req.side] = @ \ done]
  /\ pc' = "delete"
  /\ UNCHANGED <<hash, open, seen, reply, locals, visible>>

(***************************************************************************)
(* ZREM of the opposite book, the completed ids unpacked as its arguments. *)
(***************************************************************************)
Remove ==
  /\ pc = "remove"
  /\ Cardinality(done) <= UnpackLimit
  /\ book' = [book EXCEPT ![req.asset][Opposite(req.side)] = @ \ done]
  /\ pc' = "delete"
  /\ UNCHANGED <<hash, open, seen, reply, locals, visible>>

\* Mutant of Abort: the error of unpack is swallowed.
AbortSilently ==
  /\ pc = "remove"
  /\ Cardinality(done) > UnpackLimit
  /\ reply' = NoReply
  /\ UNCHANGED keys
  /\ Return

(***************************************************************************)
(* unpack raises "too many results to unpack" before ZREM is called: the   *)
(* script ends here.                                                       *)
(***************************************************************************)
Abort ==
  /\ pc = "remove"
  /\ Cardinality(done) > UnpackLimit
  /\ reply' = [NoReply EXCEPT !.error = TRUE]
  /\ UNCHANGED keys
  /\ Return

(***************************************************************************)
(* DEL of their hashes.  It unpacks as many ids as ZREM did, so it cannot  *)
(* fail where ZREM did not.                                                *)
(***************************************************************************)
Delete ==
  /\ pc = "delete"
  /\ hash' = [o \in DOMAIN hash \ done |-> hash[o]]
  /\ pc' = "insert"
  /\ UNCHANGED <<book, open, seen, reply, locals, visible>>

(***************************************************************************)
(* What is left of a limit order comes to rest: ZADD of its own book, HSET *)
(* of its hash, ZADD of its account's set.                                 *)
(***************************************************************************)
Rests == req.kind = "limit" /\ left > 0

Insert ==
  /\ pc = "insert"
  /\ Rests
  /\ book' = [book EXCEPT ![req.asset][req.side] = @ \cup {req.id}]
  /\ pc' = "store"
  /\ UNCHANGED <<hash, open, seen, reply, locals, visible>>

Remainder ==
  [account |-> req.account, asset |-> req.asset, price |-> req.price,
   size |-> left, original |-> req.size, dollars |-> dollars]

Store ==
  /\ pc = "store"
  /\ hash' = [o \in DOMAIN hash \cup {req.id} |-> IF o = req.id THEN Remainder ELSE hash[o]]
  /\ pc' = "list"
  /\ UNCHANGED <<book, open, seen, reply, locals, visible>>

Answer == [error |-> FALSE, shares |-> req.size - left, dollars |-> dollars,
           completed |-> done]

\* Mutant of List: the newcomer is not added to its account's set.
ListNowhere ==
  /\ pc = "list"
  /\ reply' = Answer
  /\ UNCHANGED keys
  /\ Return

List ==
  /\ pc = "list"
  /\ open' = [open EXCEPT ![req.account] = @ \cup {req.id}]
  /\ reply' = Answer
  /\ UNCHANGED <<book, hash, seen>>
  /\ Return

(***************************************************************************)
(* Nothing comes to rest: the script returns.                              *)
(***************************************************************************)
Finish ==
  /\ pc = "insert"
  /\ ~Rests
  /\ reply' = Answer
  /\ UNCHANGED keys
  /\ Return

ScriptNext ==
  \/ \E r \in Requests : Start(r)
  \/ \E o \in OrderIds : MatchPartially(o) \/ MatchWhole(o) \/ Clean(o)
  \/ MatchEnd \/ CleanEnd \/ Remove \/ Abort \/ Delete
  \/ Insert \/ Store \/ List \/ Finish

ScriptSpec == ScriptInit /\ [][ScriptNext]_scriptVars

-----------------------------------------------------------------------------
(***************************************************************************)
(* The script seen from outside: one step of OrderBook.                    *)
(***************************************************************************)
Atomic == INSTANCE OrderBook WITH
            book <- visible.book, hash <- visible.hash,
            open <- visible.open, seen <- visible.seen

(***************************************************************************)
(* Where the keys are out of step within a run: completed orders that are  *)
(* out of their book still have a hash, and the newcomer is in its book    *)
(* before it has one.  Between runs Kept is hash and Stored is book.       *)
(***************************************************************************)
Kept == [o \in DOMAIN hash \ (IF pc = "delete" THEN done ELSE {}) |-> hash[o]]

Stored == [a \in Assets |->
             [s \in Books |-> book[a][s] \ (IF pc = "store" THEN {req.id} ELSE {})]]

(***************************************************************************)
(* The script seen by traders.  A completed order counts as filled from    *)
(* its match until it is out of its book; the order being matched counts   *)
(* until the run ends, and from then on if it rests.                       *)
(***************************************************************************)
Arriving == IF Running THEN {req.id} ELSE {}

Incoming ==
  [asset |-> req.asset, side |-> req.side, kind |-> req.kind, price |-> req.price,
   size |-> req.size, filled |-> req.size - left]

Standing(o) ==
  [asset |-> hash[o].asset,
   side |-> IF o \in book[hash[o].asset]["bids"] THEN "bids" ELSE "offers",
   kind |-> "limit", price |-> hash[o].price, size |-> hash[o].original,
   filled |-> IF o \in done THEN hash[o].original ELSE hash[o].original - hash[o].size]

Traded == [o \in DOMAIN Kept \cup Arriving |->
             IF o \in Arriving THEN Incoming ELSE Standing(o)]

Promise == INSTANCE Trading WITH
             Ids <- OrderIds, Asset <- Assets, Sides <- Books,
             Price <- Prices \cup {0}, Size <- Sizes,
             orders <- Traded, taker <- Arriving

-----------------------------------------------------------------------------
(***************************************************************************)
(* Properties                                                              *)
(***************************************************************************)

\* The types of the keys and of the script's locals.
ScriptTypeOK ==
  /\ book \in [Assets -> [Books -> SUBSET OrderIds]]
  /\ hash \in [DOMAIN hash -> Resting] /\ DOMAIN hash \subseteq seen
  /\ open \in [Accounts -> SUBSET OrderIds]
  /\ seen \subseteq OrderIds
  /\ pc \in Phases
  /\ Running => req \in Requests
  /\ todo \subseteq OrderIds /\ done \subseteq OrderIds /\ listed \subseteq done
  /\ left \in Nat /\ dollars \in Int

\* The sorted sets and the hashes are separate structures, which order.lua updates
\* call by call and may leave between two calls for good: whenever another command
\* can look, after an aborted run too, they agree, and within a run only the orders
\* that Kept and Stored set aside are out of step.
StoresAgree == Agree(Stored, Kept, open)

\* An order and its remainder never rest at the price of an order on the other
\* side: whichever came second would have been matched with it, since both range
\* bounds of order.lua include the order's own price.
NeverLocked == Unlocked(Stored, hash)

\* The dollar_volume_filled a bid is stored with never exceeds its limit times
\* the shares it has bought, whatever is matched with it afterwards.
BuyersNeverOverpay == NoOverpayment(Stored, hash)

\* An order with a hash that its owner's set does not list, and that the script is
\* not about to delete or to list, is hidden from its owner for good.  Only a run that
\* aborts hides orders, those it completed: no other run loses one between the
\* structures, and what one has cleaned out of the accounts' sets it deletes.
InHand ==
  CASE pc \in {"clean", "remove", "delete"} -> done \ listed
    [] pc = "list" -> {req.id}
    [] OTHER -> {}

Hidden == {o \in DOMAIN hash : o \notin open[hash[o].account]} \ InHand

OnlyAbortsHide ==
  [][Hidden' \subseteq Hidden \/ (Abort /\ Hidden' = Hidden \cup done)]_scriptVars

\* A market order is matched as long as there is an order to match it with.  The
\* code breaks this: the range it reads for a market order is that of a limit
\* of 0.
MarketOrdersMatch ==
  (pc = "insert" /\ req.kind = "market") =>
    left = 0 \/ book[req.asset][Opposite(req.side)] = {}

\* Seen by other commands, which Redis never lets in while a script runs, the
\* loops of order.lua compute the closed form of OrderBook in one step.
RunsAtomically == Atomic!BookSpec

\* A script that does not abort keeps the promises of Trading: shares move one for
\* one between the newcomer and opposite orders, within a buyer's limit and cheapest
\* first, and an order leaves only filled or, arriving, as a market order.
KeepsPromises == Promise!TradingSpec

\* With runs that abort among them, every call of every run is still a step of
\* Trading or unseen by traders, save the one that aborts: after it, too, the orders
\* that are left trade as promised.
OnlyAbortsBreakPromises == [][Promise!TradingNext \/ Abort]_<<Traded, Arriving>>

=============================================================================
