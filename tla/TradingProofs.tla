---------------------------- MODULE TradingProofs ----------------------------
(***************************************************************************)
(* What a run of order.lua promises: it implements Trading but for the     *)
(* call that aborts, which hides the orders the run completed from their   *)
(* owners and no other; and, whatever Lua can unpack, it trades as         *)
(* OrderBook does.                                                         *)
(***************************************************************************)
EXTENDS OrderScriptProofs

TradingInv == ScriptInv /\ MoneyInv

LEMMA TradingInvAlways == ScriptSpec => []TradingInv
  BY InvAlways, MoneyAlways, PTL DEF TradingInv

\* The promise's orders, field by field.
LEMMA TradedFacts ==
  ASSUME ScriptInv
  PROVE  /\ DOMAIN Traded = DOMAIN Kept \cup Arriving
         /\ pc # "delete" => Kept = hash
         /\ Running => Traded[req.id] = Incoming
         /\ pc # "list" => \A o \in DOMAIN Kept : Traded[o] = Standing(o) /\ o \notin Arriving
<1>1. pc # "delete" => Kept = hash
  BY DEF Kept, ScriptInv, ScriptTypeOK
<1>2. DOMAIN Kept \subseteq DOMAIN hash
  BY DEF Kept
<1>3. pc # "list" => \A o \in DOMAIN Kept : o \notin Arriving
  BY <1>2 DEF ScriptInv, Frame, Arriving, Running
<1>4. QED
  BY <1>1, <1>3 DEF Traded, Arriving

\* Which side an order stands on is told by the books.
LEMMA StandingSide ==
  ASSUME Agree(book, hash, open), NEW a \in Assets, NEW s \in Books, NEW o \in book[a][s]
  PROVE  Standing(o).side = s /\ Standing(o).asset = a
<1>1. o \in DOMAIN hash /\ hash[o].asset = a
  BY DEF Agree
<1>2. PICK t \in Books : o \in book[a][t] /\ o \notin book[a][Opposite(t)]
  BY <1>1 DEF Agree
<1>3. s = t
  BY <1>2 DEF Books, Opposite
<1>4. QED
  BY <1>1, <1>2, <1>3 DEF Standing, Books, Opposite

LEMMA SideStanding ==
  ASSUME ScriptTypeOK, Agree(book, hash, open), NEW o \in DOMAIN hash
  PROVE  /\ o \in book[hash[o].asset][Standing(o).side]
         /\ Standing(o).side \in Books /\ hash[o].asset \in Assets
<1>1. hash[o].asset \in Assets
  BY DEF ScriptTypeOK, Resting
<1>2. PICK t \in Books : o \in book[hash[o].asset][t]
  BY DEF Agree
<1>3. Standing(o).side = t
  BY <1>1, <1>2, StandingSide
<1>4. QED
  BY <1>1, <1>2, <1>3

LEMMA PromiseInit == ScriptInit => Promise!TradingInit
<1> SUFFICES ASSUME ScriptInit PROVE Promise!TradingInit
  OBVIOUS
<1>1. Arriving = {} /\ DOMAIN Kept = {}
  BY DEF ScriptInit, Arriving, Running, Kept
<1>2. Traded = [o \in {} |-> {}]
  BY <1>1 DEF Traded
<1>3. QED
  BY <1>1, <1>2 DEF Promise!TradingInit

LEMMA StartArrives ==
  ASSUME ScriptInv, NEW r \in Requests, Start(r)
  PROVE  Promise!Arrive(r.id)
<1> DEFINE new == [asset |-> r.asset, side |-> r.side, kind |-> r.kind,
                   price |-> r.price, size |-> r.size, filled |-> 0]
<1>1. /\ r.id \in OrderIds /\ r.asset \in Assets /\ r.side \in Books
      /\ r.kind \in {"market", "limit"} /\ r.size \in Nat
      /\ r.price \in Prices \cup {0} /\ r.size \in Sizes
  BY RequestType DEF Requests
<1>2. r.id \notin DOMAIN hash /\ done = {}
  BY DEF Start, ScriptInv, ScriptTypeOK, Frame
<1>3. Arriving = {} /\ Arriving' = {r.id}
  BY DEF Start, Arriving, Running
<1>4. new \in Promise!NewOrder
  BY <1>1 DEF Promise!NewOrder
<1>5. Incoming' = new
  BY <1>1 DEF Start, Incoming
<1>6. \A o \in DOMAIN hash : Standing(o)' = Standing(o)
  BY <1>2 DEF Start, Standing
<1>7. DOMAIN Kept' = DOMAIN hash /\ DOMAIN Kept = DOMAIN hash
  BY DEF Start, Kept, Running
<1>8. Traded' = [o \in DOMAIN Traded \cup {r.id} |-> IF o = r.id THEN new ELSE Traded[o]]
  BY <1>2, <1>3, <1>5, <1>6, <1>7 DEF Traded, Start
<1>9. r.id \in OrderIds \ DOMAIN Traded
  BY <1>1, <1>2, <1>3, <1>7 DEF Traded
<1>10. QED
  BY <1>3, <1>4, <1>8, <1>9 DEF Promise!Arrive

\* The candidate the loop visits next is a counterpart the promise allows.
LEMMA Visits ==
  ASSUME ScriptInv, MoneyInv, NEW o \in OrderIds, Reaches(o)
  PROVE  /\ o \in DOMAIN hash /\ o # req.id /\ o \notin done
         /\ hash[o].size \in Nat \ {0} /\ hash[o].original \in Nat /\ hash[o].price \in Int
         /\ req \in Requests /\ left \in Nat /\ Traded[o] = Standing(o)
         /\ o \in Promise!Counterparts(req.id)
         /\ req.side = "bids" =>
              /\ hash[o].price <= req.price
              /\ \A n \in Promise!Counterparts(req.id) : hash[o].price <= Traded[n].price
<1>1. Running /\ req \in Requests /\ left \in Nat
  BY DEF Reaches, Running, ScriptInv, ScriptTypeOK
<1>2. o \in Candidates(req, book, hash) /\ o \notin done
  BY DEF Reaches, ScriptInv, Work
<1>3. o \in DOMAIN hash /\ o \in book[req.asset][Opposite(req.side)]
  BY <1>1, <1>2, CandidatesRest DEF ScriptInv, Reaches
<1>4. o # req.id
  BY <1>1, <1>3 DEF ScriptInv, Frame, Reaches
<1>5. hash[o].size \in Nat \ {0} /\ hash[o].original \in Nat /\ hash[o].price \in Int
  BY <1>3, PricesAssumption DEF ScriptInv, ScriptTypeOK, Resting
<1>6. /\ req.asset \in Assets /\ req.side \in Books /\ Opposite(req.side) \in Books
      /\ Opposite(req.side) # req.side /\ req.price \in Int
  BY <1>1, RequestType, OppositeType
<1>7. /\ Traded[o] = Standing(o) /\ Traded[req.id] = Incoming /\ Kept = hash
      /\ Agree(book, hash, open)
  BY <1>1, <1>3, TradedFacts DEF Reaches, ScriptInv, Agreement
<1>8. o \in Promise!Counterparts(req.id)
  <2>1. Traded[o].asset = req.asset /\ Traded[o].side = Opposite(req.side)
    BY <1>3, <1>6, <1>7, StandingSide
  <2>2. Traded[o].size - Traded[o].filled > 0
    BY <1>2, <1>5, <1>7 DEF Standing
  <2>3. Traded[req.id].asset = req.asset /\ Traded[req.id].side = req.side
    BY <1>7 DEF Incoming
  <2>4. o \in DOMAIN Traded
    BY <1>3, <1>7, TradedFacts
  <2>5. QED
    BY <1>4, <1>6, <2>1, <2>2, <2>3, <2>4 DEF Promise!Counterparts, Promise!Left
<1>9. ASSUME req.side = "bids", NEW n \in Promise!Counterparts(req.id)
      PROVE  hash[o].price <= req.price /\ hash[o].price <= Traded[n].price
  <2>1. hash[o].price <= req.price
    BY <1>2, <1>9 DEF Candidates, InRange, Score, Opposite
  <2>2. /\ n \in DOMAIN hash /\ Traded[n] = Standing(n)
        /\ Standing(n).asset = req.asset /\ Standing(n).side # "bids"
        /\ Standing(n).size - Standing(n).filled > 0
    BY <1>1, <1>7, <1>9, TradedFacts
    DEF Promise!Counterparts, Promise!Left, Arriving, Incoming, Reaches
  <2>3. hash[n].asset = req.asset /\ n \in book[req.asset]["offers"]
    BY <1>7, <2>2, SideStanding DEF ScriptInv, Standing, Books
  <2>4. hash[n].original \in Nat /\ hash[n].price \in Int
    BY <2>2, PricesAssumption DEF ScriptInv, ScriptTypeOK, Resting
  <2>5. n \notin done
    BY <2>2, <2>4 DEF Standing
  <2>6. CASE n \in Candidates(req, book, hash)
    <3>1. n = o \/ Before("offers", hash, o, n)
      BY <1>9, <2>5, <2>6 DEF ScriptInv, Work, Reaches, Opposite
    <3>2. hash[o].price <= hash[n].price
      BY <1>5, <2>4, <3>1 DEF Before, Score
    <3>3. QED
      BY <2>1, <2>2, <3>2 DEF Standing
  <2>7. CASE n \notin Candidates(req, book, hash)
    <3>1. hash[n].price > req.price
      BY <1>6, <1>9, <2>3, <2>4, <2>7 DEF Candidates, InRange, Score, Opposite
    <3>2. QED
      BY <1>5, <1>6, <2>1, <2>2, <2>4, <3>1 DEF Standing
  <2>8. QED
    BY <2>6, <2>7
<1>10. QED
  BY <1>1, <1>2, <1>3, <1>4, <1>5, <1>7, <1>8, <1>9

LEMMA PartialTrades ==
  ASSUME ScriptInv, MoneyInv, NEW o \in OrderIds, MatchPartially(o)
  PROVE  Promise!Trade(req.id, o, left) /\ left \in 0 .. Promise!Left(req.id)
<1>1. Reaches(o) /\ Running /\ Running' /\ req' = req /\ done' = done /\ book' = book
  BY DEF MatchPartially, Reaches, Running
<1>2. Arriving = {req.id} /\ Arriving' = {req.id}
  BY <1>1 DEF Arriving
<1>0. Traded[req.id] = Incoming /\ Traded[o] = Standing(o)
  BY <1>1, Visits, TradedFacts
<1>3. Promise!Left(req.id) = left /\ left <= req.size /\ req.size \in Nat
  BY <1>0, <1>1, Visits, RequestType DEF Promise!Left, Incoming, MoneyInv, Newcomer
<1>4. Promise!Left(o) = hash[o].size /\ left < hash[o].size
  BY <1>0, <1>1, Visits DEF Promise!Left, Standing, MatchPartially
<1>5. Incoming' = [Incoming EXCEPT !.filled = @ + left]
  BY <1>1, <1>3, Visits DEF Incoming, MatchPartially
<1>6. Standing(o)' = [Standing(o) EXCEPT !.filled = @ + left]
  BY <1>1, Visits, ShrinkFacts DEF Standing
<1>7. \A p \in DOMAIN hash \ {o} : Standing(p)' = Standing(p)
  BY <1>1, ShrinkFacts DEF Standing
<1>8. Traded' = [p \in DOMAIN Traded |->
                   IF p \in {req.id, o} THEN [Traded[p] EXCEPT !.filled = @ + left]
                                        ELSE Traded[p]]
  <2>1. DOMAIN hash' = DOMAIN hash /\ req.id \notin DOMAIN hash /\ o \in DOMAIN hash
    BY <1>1, ShrinkFacts DEF ScriptInv, Frame, MatchPartially, Reaches
  <2>2. DOMAIN Kept' = DOMAIN hash /\ DOMAIN Kept = DOMAIN hash
    BY <1>1, <2>1 DEF Kept, MatchPartially, Reaches
  <2>3. Traded' = [p \in DOMAIN hash \cup {req.id} |->
                     IF p \in {req.id} THEN Incoming' ELSE Standing(p)']
    BY <1>2, <2>1, <2>2 DEF Traded
  <2>4. DOMAIN Traded = DOMAIN hash \cup {req.id} /\ Traded[req.id] = Incoming
    BY <1>1, <1>2, <2>2, TradedFacts
  <2>5. \A p \in DOMAIN hash : Traded[p] = Standing(p)
    BY <2>2, TradedFacts DEF MatchPartially, Reaches
  <2>6. QED
    BY <1>5, <1>6, <1>7, <2>1, <2>3, <2>4, <2>5
<1>9. /\ Traded[req.id].side = req.side /\ Traded[req.id].price = req.price
      /\ Traded[o].price = hash[o].price
  BY <1>0, <1>1, Visits DEF Incoming, Standing
<1>10. QED
  BY <1>1, <1>2, <1>3, <1>4, <1>8, <1>9, Visits DEF Promise!Trade

LEMMA WholeTrades ==
  ASSUME ScriptInv, MoneyInv, NEW o \in OrderIds, MatchWhole(o)
  PROVE  /\ Promise!Trade(req.id, o, hash[o].size)
         /\ hash[o].size \in 0 .. Promise!Left(req.id)
<1>1. /\ Reaches(o) /\ Running /\ Running' /\ req' = req /\ book' = book /\ hash' = hash
      /\ done' = done \cup {o} /\ left' = left - hash[o].size /\ hash[o].size <= left
  BY DEF MatchWhole, Reaches, Running, keys
<1>2. Arriving = {req.id} /\ Arriving' = {req.id}
  BY <1>1 DEF Arriving
<1>0. Traded[req.id] = Incoming /\ Traded[o] = Standing(o)
  BY <1>1, Visits, TradedFacts
<1>3. Promise!Left(req.id) = left /\ left <= req.size /\ req.size \in Nat
  BY <1>0, <1>1, Visits, RequestType DEF Promise!Left, Incoming, MoneyInv, Newcomer
<1>4. Promise!Left(o) = hash[o].size
  BY <1>0, <1>1, Visits DEF Promise!Left, Standing
<1>5. Incoming' = [Incoming EXCEPT !.filled = @ + hash[o].size]
  BY <1>1, <1>3, Visits DEF Incoming
<1>6. Standing(o)' = [Standing(o) EXCEPT !.filled = @ + hash[o].size]
  BY <1>1, Visits DEF Standing
<1>7. \A p \in DOMAIN hash \ {o} : Standing(p)' = Standing(p)
  BY <1>1 DEF Standing
<1>8. Traded' = [p \in DOMAIN Traded |->
                   IF p \in {req.id, o} THEN [Traded[p] EXCEPT !.filled = @ + hash[o].size]
                                        ELSE Traded[p]]
  <2>1. req.id \notin DOMAIN hash /\ o \in DOMAIN hash
    BY <1>1, Visits DEF ScriptInv, Frame, MatchWhole, Reaches
  <2>2. DOMAIN Kept' = DOMAIN hash /\ DOMAIN Kept = DOMAIN hash
    BY <1>1 DEF Kept, MatchWhole, Reaches
  <2>3. Traded' = [p \in DOMAIN hash \cup {req.id} |->
                     IF p \in {req.id} THEN Incoming' ELSE Standing(p)']
    BY <1>1, <1>2, <2>2 DEF Traded
  <2>4. DOMAIN Traded = DOMAIN hash \cup {req.id} /\ Traded[req.id] = Incoming
    BY <1>1, <1>2, <2>2, TradedFacts
  <2>5. \A p \in DOMAIN hash : Traded[p] = Standing(p)
    BY <2>2, TradedFacts DEF MatchWhole, Reaches
  <2>6. QED
    BY <1>5, <1>6, <1>7, <2>1, <2>3, <2>4, <2>5
<1>9. /\ Traded[req.id].side = req.side /\ Traded[req.id].price = req.price
      /\ Traded[o].price = hash[o].price
  BY <1>0, <1>1, Visits DEF Incoming, Standing
<1>10. QED
  BY <1>1, <1>2, <1>3, <1>4, <1>8, <1>9, Visits DEF Promise!Trade

LEMMA RemoveRetires ==
  ASSUME ScriptInv, Remove
  PROVE  Promise!Retire(done) /\ done \in SUBSET DOMAIN Traded
<1>1. /\ pc = "remove" /\ Running /\ Running'
      /\ req' = req /\ done' = done /\ left' = left /\ hash' = hash
  BY DEF Remove, Running, locals
<1>2. Arriving = {req.id} /\ Arriving' = {req.id} /\ req.id \notin DOMAIN hash
  BY <1>1 DEF Arriving, ScriptInv, Frame
<1>3. Kept = hash /\ done \subseteq DOMAIN hash /\ DOMAIN Kept' = DOMAIN hash \ done
  BY <1>1, TradedFacts, RemoveFacts
<1>4. /\ DOMAIN Traded = DOMAIN hash \cup {req.id} /\ Traded[req.id] = Incoming
      /\ \A o \in DOMAIN hash : Traded[o] = Standing(o)
  BY <1>1, <1>2, <1>3, TradedFacts
<1>5. \A o \in done : Promise!Left(o) = 0 /\ o \notin Arriving
  <2> SUFFICES ASSUME NEW o \in done
               PROVE  Promise!Left(o) = 0 /\ o \notin Arriving
    OBVIOUS
  <2>1. hash[o] \in Resting /\ Traded[o] = Standing(o) /\ o \notin Arriving
    BY <1>2, <1>3, <1>4 DEF ScriptInv, ScriptTypeOK
  <2>2. Standing(o).size = hash[o].original /\ Standing(o).filled = hash[o].original
    BY DEF Standing
  <2>3. hash[o].original \in Nat
    BY <2>1 DEF Resting
  <2>4. QED
    BY <2>1, <2>2, <2>3 DEF Promise!Left
<1>6. \A o \in DOMAIN hash \ done : Standing(o)' = Standing(o)
  <2> SUFFICES ASSUME NEW o \in DOMAIN hash \ done
               PROVE  Standing(o)' = Standing(o)
    OBVIOUS
  <2>1. hash[o].asset \in Assets
    BY DEF ScriptInv, ScriptTypeOK, Resting
  <2>2. o \in book'[hash[o].asset]["bids"] <=> o \in book[hash[o].asset]["bids"]
    BY <2>1, RemoveFacts DEF Books
  <2>3. QED
    BY <1>1, <2>1, <2>2 DEF Standing
<1>7. Traded' = [o \in DOMAIN Traded \ done |-> Traded[o]]
  <2>1. Traded' = [o \in (DOMAIN hash \ done) \cup {req.id} |->
                     IF o \in {req.id} THEN Incoming' ELSE Standing(o)']
    BY <1>2, <1>3 DEF Traded
  <2>2. Incoming' = Incoming
    BY <1>1 DEF Incoming
  <2>3. QED
    BY <1>2, <1>3, <1>4, <1>6, <2>1, <2>2
<1>8. QED
  BY <1>2, <1>3, <1>4, <1>5, <1>7 DEF Promise!Retire

\* A step within a run that leaves the newcomer and what stands as they were.
LEMMA Unseen ==
  ASSUME Running, Running', req' = req, left' = left,
         DOMAIN Kept' \cup {req.id} = DOMAIN Kept \cup {req.id},
         \A o \in DOMAIN Kept \ {req.id} : Standing(o)' = Standing(o)
  PROVE  UNCHANGED <<Traded, Arriving>>
<1>1. Arriving = {req.id} /\ Arriving' = {req.id}
  BY DEF Arriving
<1>2. Incoming' = Incoming
  BY DEF Incoming
<1>3. Traded' = [o \in DOMAIN Kept \cup {req.id} |->
                   IF o \in {req.id} THEN Incoming' ELSE Standing(o)']
  BY <1>1 DEF Traded
<1>4. Traded = [o \in DOMAIN Kept \cup {req.id} |->
                  IF o \in {req.id} THEN Incoming ELSE Standing(o)]
  BY <1>1 DEF Traded
<1>5. QED
  BY <1>1, <1>2, <1>3, <1>4

LEMMA DeleteUnseen ==
  ASSUME ScriptInv, Delete
  PROVE  UNCHANGED <<Traded, Arriving>>
<1>1. /\ Running /\ Running' /\ pc' = "insert" /\ book' = book
      /\ req' = req /\ left' = left /\ done' = done
  BY DEF Delete, Running, locals
<1>2. DOMAIN Kept' = DOMAIN hash' /\ DOMAIN Kept = DOMAIN hash'
  BY <1>1, DeleteFacts DEF Kept
<1>3. \A o \in DOMAIN Kept : Standing(o)' = Standing(o)
  BY <1>1, <1>2, DeleteFacts DEF Standing
<1>4. QED
  BY <1>1, <1>2, <1>3, Unseen

LEMMA InsertUnseen ==
  ASSUME ScriptInv, Insert
  PROVE  UNCHANGED <<Traded, Arriving>>
<1>1. /\ Running /\ Running' /\ pc = "insert" /\ pc' = "store" /\ hash' = hash
      /\ req' = req /\ left' = left /\ done' = done
  BY DEF Insert, Running, locals
<1>2. DOMAIN Kept' = DOMAIN hash /\ DOMAIN Kept = DOMAIN hash
  BY <1>1 DEF Kept
<1>3. ASSUME NEW o \in DOMAIN Kept \ {req.id}
      PROVE  Standing(o)' = Standing(o)
  <2>1. hash[o].asset \in Assets
    BY <1>2, <1>3 DEF ScriptInv, ScriptTypeOK, Resting
  <2>2. o \in book'[hash[o].asset]["bids"] <=> o \in book[hash[o].asset]["bids"]
    BY <1>3, <2>1, InsertFacts DEF Books
  <2>3. QED
    BY <1>1, <2>2 DEF Standing
<1>4. QED
  BY <1>1, <1>2, <1>3, Unseen

LEMMA StoreUnseen ==
  ASSUME ScriptInv, Store
  PROVE  UNCHANGED <<Traded, Arriving>>
<1>1. /\ Running /\ Running' /\ pc = "store" /\ pc' = "list" /\ book' = book
      /\ req' = req /\ left' = left /\ done' = done
  BY DEF Store, Running, locals
<1>2. DOMAIN Kept' = DOMAIN hash \cup {req.id} /\ DOMAIN Kept = DOMAIN hash
  BY <1>1, StoreFacts DEF Kept
<1>3. \A o \in DOMAIN Kept \ {req.id} : Standing(o)' = Standing(o)
  BY <1>1, <1>2, StoreFacts DEF Standing
<1>4. QED
  BY <1>1, <1>2, <1>3, Unseen

\* At the end of a run no completed order has a hash.
LEMMA ListSettles ==
  ASSUME ScriptInv, MoneyInv, List
  PROVE  Promise!Settle(req.id)
<1>0. PICK t : t = req.id   \* rigid, unlike req
  OBVIOUS
<1>1. /\ pc = "list" /\ pc' = "idle" /\ Running /\ ~Running' /\ done' = {}
      /\ book' = book /\ hash' = hash /\ req \in Requests /\ left \in Nat
      /\ done \cap (DOMAIN hash \ {req.id}) = {}
      /\ req.id \in DOMAIN hash /\ hash[req.id] = Remainder /\ Rests
  BY DEF List, Return, Running, ScriptInv, ScriptTypeOK, Frame, Work
<1>2. Arriving = {req.id} /\ Arriving' = {} /\ DOMAIN Kept = DOMAIN hash
      /\ DOMAIN Kept' = DOMAIN hash
  BY <1>1 DEF Arriving, Kept
<1>3. Traded = [o \in DOMAIN hash |-> IF o \in {req.id} THEN Incoming ELSE Standing(o)]
  BY <1>1, <1>2 DEF Traded
<1>4. Traded' = [o \in DOMAIN hash |-> Standing(o)']
  BY <1>2 DEF Traded
<1>5. \A o \in DOMAIN hash \ {req.id} : Standing(o)' = Standing(o)
  BY <1>1 DEF Standing
<1>6. Standing(t)' = Incoming
  <2>1. req.asset \in Assets /\ req.side \in Books
    BY <1>1, RequestType
  <2>2. req.id \in book[req.asset]["bids"] <=> req.side = "bids"
    BY <1>1, <2>1 DEF ScriptInv, Frame, Books
  <2>3. (IF req.id \in book[req.asset]["bids"] THEN "bids" ELSE "offers") = req.side
    BY <2>1, <2>2 DEF Books
  <2>4. /\ hash[req.id].asset = req.asset /\ hash[req.id].price = req.price
        /\ hash[req.id].original = req.size /\ hash[req.id].size = left
    BY <1>1 DEF Remainder
  <2>5. Standing(t)' = [asset |-> req.asset, side |-> req.side, kind |-> "limit",
                        price |-> req.price, size |-> req.size, filled |-> req.size - left]
    BY <1>0, <1>1, <2>3, <2>4 DEF Standing
  <2>6. QED
    BY <1>1, <2>5 DEF Incoming, Rests
<1>7. \A o \in DOMAIN hash :
        Standing(o)' = IF o \in {req.id} THEN Incoming ELSE Standing(o)
  <2> TAKE o \in DOMAIN hash
  <2>1. CASE o = req.id
    BY <1>0, <1>6, <2>1
  <2>2. CASE o # req.id
    BY <1>5, <2>2
  <2>3. QED
    BY <2>1, <2>2
<1>8. Traded' = Traded
  BY <1>3, <1>4, <1>7
<1>9. Promise!Left(req.id) = left /\ Traded[req.id].kind = "limit" /\ left > 0
  BY <1>1, TradedFacts, RequestType DEF Promise!Left, Incoming, Rests
<1>10. QED
  BY <1>2, <1>8, <1>9 DEF Promise!Settle

LEMMA FinishSettles ==
  ASSUME ScriptInv, MoneyInv, Finish
  PROVE  Promise!Settle(req.id)
<1>1. /\ pc = "insert" /\ pc' = "idle" /\ Running /\ ~Running' /\ done' = {}
      /\ book' = book /\ hash' = hash /\ req \in Requests /\ left \in Nat
      /\ done \cap DOMAIN hash = {} /\ req.id \notin DOMAIN hash /\ ~Rests
  BY DEF Finish, Return, Running, ScriptInv, ScriptTypeOK, Frame, Work, keys
<1>2. Arriving = {req.id} /\ Arriving' = {} /\ Kept = hash /\ DOMAIN Kept' = DOMAIN hash
  BY <1>1, TradedFacts DEF Arriving, Kept
<1>3. /\ DOMAIN Traded = DOMAIN hash \cup {req.id} /\ Traded[req.id] = Incoming
      /\ \A o \in DOMAIN hash : Traded[o] = Standing(o)
  BY <1>1, <1>2, TradedFacts
<1>4. \A o \in DOMAIN hash : Standing(o)' = Standing(o)
  BY <1>1 DEF Standing
<1>5. Traded' = [o \in DOMAIN hash |-> Standing(o)']
  BY <1>2 DEF Traded
<1>6. Traded' = [o \in DOMAIN Traded \ {req.id} |-> Traded[o]]
  BY <1>1, <1>3, <1>4, <1>5
<1>7. Promise!Left(req.id) = left /\ Traded[req.id].kind = req.kind
  BY <1>1, <1>3, RequestType DEF Promise!Left, Incoming
<1>8. QED
  BY <1>1, <1>2, <1>6, <1>7 DEF Promise!Settle, Rests

-----------------------------------------------------------------------------

LEMMA PromiseStep ==
  ASSUME TradingInv, [ScriptNext]_scriptVars
  PROVE  [Promise!TradingNext \/ Abort]_<<Traded, Arriving>>
<1> USE DEF TradingInv
<1>1. CASE UNCHANGED scriptVars
  BY <1>1 DEF scriptVars, keys, locals, Traded, Kept, Arriving, Running, Incoming, Standing
<1>2. ASSUME NEW r \in Requests, Start(r)
      PROVE  Promise!TradingNext
  BY <1>2, StartArrives, RequestType DEF Promise!TradingNext
<1>3. ASSUME NEW o \in OrderIds, MatchPartially(o)
      PROVE  Promise!TradingNext
  <2>1. req.id \in DOMAIN Traded /\ o \in DOMAIN Traded
    BY <1>3, Visits, TradedFacts DEF MatchPartially, Reaches, Arriving, Running
  <2>2. QED
    BY <1>3, <2>1, PartialTrades DEF Promise!TradingNext
<1>4. ASSUME NEW o \in OrderIds, MatchWhole(o)
      PROVE  Promise!TradingNext
  <2>1. req.id \in DOMAIN Traded /\ o \in DOMAIN Traded
    BY <1>4, Visits, TradedFacts DEF MatchWhole, Reaches, Arriving, Running
  <2>2. QED
    BY <1>4, <2>1, WholeTrades DEF Promise!TradingNext
<1>5. ASSUME NEW o \in OrderIds, Clean(o)
      PROVE  UNCHANGED <<Traded, Arriving>>
  BY <1>5 DEF Clean, Traded, Kept, Arriving, Running, Incoming, Standing
<1>6. CASE MatchEnd
  BY <1>6 DEF MatchEnd, keys, Traded, Kept, Arriving, Running, Incoming, Standing
<1>7. CASE CleanEnd
  BY <1>7 DEF CleanEnd, keys, locals, Traded, Kept, Arriving, Running, Incoming, Standing
<1>8. CASE Remove
  BY <1>8, RemoveRetires DEF Promise!TradingNext
<1>9. CASE Delete \/ Insert \/ Store
  BY <1>9, DeleteUnseen, InsertUnseen, StoreUnseen
<1>10. CASE List \/ Finish
  <2>1. req.id \in OrderIds
    BY <1>10, RequestType DEF ScriptInv, ScriptTypeOK, List, Finish, Running
  <2>2. QED
    BY <1>10, <2>1, ListSettles, FinishSettles DEF Promise!TradingNext
<1>11. QED
  BY <1>1, <1>2, <1>3, <1>4, <1>5, <1>6, <1>7, <1>8, <1>9, <1>10 DEF ScriptNext

\* Whatever Lua can unpack and however many orders there have been, every call
\* order.lua makes is a step of Trading or changes nothing a trader can see, save
\* the call that aborts; the runs that follow an aborted one trade as promised.
THEOREM OnlyAbortsBreakPromisesAlways == ScriptSpec => OnlyAbortsBreakPromises
<1>1. TradingInv /\ [ScriptNext]_scriptVars
        => [Promise!TradingNext \/ Abort]_<<Traded, Arriving>>
  BY PromiseStep
<1>2. QED
  BY <1>1, TradingInvAlways, PTL DEF ScriptSpec, OnlyAbortsBreakPromises

\* A behaviour in which no run aborts keeps the promises of Trading from its start:
\* nothing but the abort stands between order.lua and them.
THEOREM ScriptKeepsPromises == ScriptSpec /\ [][~Abort]_scriptVars => KeepsPromises
<1>1. /\ TradingInv /\ [ScriptNext]_scriptVars /\ [~Abort]_scriptVars
      => [Promise!TradingNext]_<<Traded, Arriving>>
  <2> SUFFICES ASSUME TradingInv, [ScriptNext]_scriptVars, [~Abort]_scriptVars
               PROVE  [Promise!TradingNext]_<<Traded, Arriving>>
    OBVIOUS
  <2>1. CASE UNCHANGED scriptVars
    BY <2>1 DEF scriptVars, keys, locals, Traded, Kept, Arriving, Running, Incoming, Standing
  <2>2. CASE ~Abort
    BY <2>2, PromiseStep
  <2>3. QED
    BY <2>1, <2>2
<1>2. QED
  BY <1>1, TradingInvAlways, PromiseInit, PTL
  DEF ScriptSpec, KeepsPromises, Promise!TradingSpec, Promise!tradingVars

-----------------------------------------------------------------------------
(***************************************************************************)
(* Which orders their owners cannot list.                                  *)
(***************************************************************************)
Unowned == {o \in DOMAIN hash : o \notin open[hash[o].account]}

LEMMA HiddenStep ==
  ASSUME ScriptInv, [ScriptNext]_scriptVars
  PROVE  Hidden' \subseteq Hidden \/ (Abort /\ Hidden' = Hidden \cup done)
<1>0. Hidden = Unowned \ InHand /\ Hidden' = Unowned' \ InHand'
  BY DEF Hidden, Unowned
<1>1. CASE UNCHANGED scriptVars
  BY <1>1 DEF scriptVars, keys, locals, Hidden, InHand
<1>2. ASSUME NEW r \in Requests, Start(r)
      PROVE  Hidden' \subseteq Hidden
  BY <1>2 DEF Start, Running, Hidden, InHand
<1>3. ASSUME NEW o \in OrderIds, MatchPartially(o)
      PROVE  Hidden' \subseteq Hidden
  <2>1. Unowned' = Unowned
    BY <1>3, ShrinkFacts DEF MatchPartially, Unowned
  <2>2. InHand = {} /\ InHand' = {}
    BY <1>3 DEF MatchPartially, Reaches, InHand
  <2>3. QED
    BY <1>0, <2>1, <2>2
<1>4. ASSUME NEW o \in OrderIds, MatchWhole(o)
      PROVE  Hidden' \subseteq Hidden
  BY <1>4 DEF MatchWhole, Reaches, keys, Hidden, InHand
<1>5. CASE MatchEnd
  BY <1>5 DEF MatchEnd, keys, Hidden, InHand
<1>6. ASSUME NEW o \in OrderIds, Clean(o)
      PROVE  Hidden' \subseteq Hidden
  <2>1. \A c \in Accounts : open[c] \ {o} \subseteq open'[c]
    BY <1>6 DEF Clean, ScriptInv, ScriptTypeOK
  <2>2. \A p \in DOMAIN hash : hash[p].account \in Accounts
    BY DEF ScriptInv, ScriptTypeOK, Resting
  <2>3. Unowned' \subseteq Unowned \cup {o}
    BY <1>6, <2>1, <2>2 DEF Clean, Unowned
  <2>4. InHand \cup {o} \subseteq InHand'
    BY <1>6 DEF Clean, InHand, ScriptInv, ScriptTypeOK
  <2>5. QED
    BY <1>0, <2>3, <2>4
<1>7. CASE CleanEnd
  BY <1>7 DEF CleanEnd, keys, locals, Hidden, InHand
<1>8. CASE Remove
  BY <1>8 DEF Remove, locals, Hidden, InHand
<1>9. CASE Abort
  <2>1. Unowned' = Unowned /\ InHand' = {}
    BY <1>9 DEF Abort, Return, keys, Unowned, InHand
  <2>2. InHand = done
    BY <1>9 DEF Abort, InHand, ScriptInv, Cleaned
  <2>3. done \subseteq Unowned
    <3> SUFFICES ASSUME NEW o \in done PROVE o \in Unowned
      OBVIOUS
    <3>1. o \in DOMAIN hash
      BY <1>9, CandidatesRest DEF Abort, ScriptInv, Work
    <3>2. hash[o].account \in Accounts
      BY <3>1 DEF ScriptInv, ScriptTypeOK, Resting
    <3>3. QED
      BY <1>9, <3>1, <3>2 DEF Abort, ScriptInv, Cleaned, Unowned
  <2>4. QED
    BY <1>0, <1>9, <2>1, <2>2, <2>3
<1>10. CASE Delete
  <2>1. Unowned' \subseteq Unowned \ done
    BY <1>10, DeleteFacts DEF Delete, Unowned
  <2>2. InHand \subseteq done
    BY <1>10 DEF Delete, InHand
  <2>3. QED
    BY <1>0, <2>1, <2>2
<1>11. CASE Insert
  BY <1>11 DEF Insert, locals, Hidden, InHand
<1>12. CASE Store
  <2>1. Unowned' \subseteq Unowned \cup {req.id}
    BY <1>12, StoreFacts DEF Store, Unowned
  <2>2. InHand = {} /\ InHand' = {req.id}
    BY <1>12 DEF Store, locals, InHand
  <2>3. QED
    BY <1>0, <2>1, <2>2
<1>13. CASE List
  <2>1. /\ req.account \in Accounts /\ hash[req.id].account = req.account
        /\ \A p \in DOMAIN hash : hash[p].account \in Accounts
    BY <1>13, RequestType
    DEF List, ScriptInv, ScriptTypeOK, Frame, Remainder, Resting, Running
  <2>2. Unowned' \subseteq Unowned \ {req.id}
    BY <1>13, <2>1 DEF List, ScriptInv, ScriptTypeOK, Unowned
  <2>3. InHand = {req.id}
    BY <1>13 DEF List, InHand
  <2>4. QED
    BY <1>0, <2>2, <2>3
<1>14. CASE Finish
  BY <1>14 DEF Finish, Return, keys, Hidden, InHand
<1>15. QED
  BY <1>1, <1>2, <1>3, <1>4, <1>5, <1>6, <1>7, <1>8, <1>9, <1>10, <1>11, <1>12, <1>13, <1>14
  DEF ScriptNext

\* No run hides an order from its owner but one that aborts, and that one exactly
\* the orders it completed, however many orders there have been.
THEOREM OnlyAbortsHideAlways == ScriptSpec => OnlyAbortsHide
<1>1. ScriptInv /\ [ScriptNext]_scriptVars
        => [Hidden' \subseteq Hidden \/ (Abort /\ Hidden' = Hidden \cup done)]_scriptVars
  BY HiddenStep
<1>2. QED
  BY <1>1, InvAlways, PTL DEF ScriptSpec, OnlyAbortsHide

-----------------------------------------------------------------------------
(***************************************************************************)
(* What is proved of OrderBook carries over to the loops of order.lua: the *)
(* visible keys and the replies of ScriptSpec behave as BookSpec says.     *)
(***************************************************************************)
Proved == INSTANCE OrderBookProofs WITH
            book <- visible.book, hash <- visible.hash,
            open <- visible.open, seen <- visible.seen

\* OrderBook is instantiated twice, by OrderScript and together with its proofs: the
\* definitions expand to the same text.
LEMMA SameSpec == Atomic!BookSpec => Proved!BookSpec
<1>1. Atomic!BookInit => Proved!BookInit
  BY DEF Atomic!BookInit, Proved!BookInit, Atomic!Books, Proved!Books,
         Atomic!NoReply, Proved!NoReply
<1>2. Atomic!BookNext => Proved!BookNext
  BY DEF
         Atomic!BookNext, Atomic!Requests, Atomic!Books, Atomic!Reservable,
         Atomic!SubmitOrder, Atomic!ExecuteOrder,
         Atomic!AbortOrder, Atomic!Completed, Atomic!Shrunk, Atomic!Partial,
         Atomic!SharesLeft, Atomic!SumSizes, Atomic!Ahead, Atomic!Candidates,
         Atomic!Before, Atomic!Opposite, Atomic!Score, Atomic!InRange, Atomic!Unlisted,
         Atomic!Rests, Atomic!Unfilled, Atomic!Filled, Atomic!Max, Atomic!Dollars,
         Atomic!SumFunction, Atomic!SumFunctionOnSet, Atomic!FoldFunctionOnSet,
         Atomic!MapThenFoldSet, Atomic!Cardinality, Atomic!Failure, Atomic!NoReply,
         Proved!BookNext, Proved!Requests, Proved!Books, Proved!Reservable,
         Proved!SubmitOrder, Proved!ExecuteOrder,
         Proved!AbortOrder, Proved!Completed, Proved!Shrunk, Proved!Partial,
         Proved!SharesLeft, Proved!SumSizes, Proved!Ahead, Proved!Candidates,
         Proved!Before, Proved!Opposite, Proved!Score, Proved!InRange, Proved!Unlisted,
         Proved!Rests, Proved!Unfilled, Proved!Filled, Proved!Max, Proved!Dollars,
         Proved!SumFunction, Proved!SumFunctionOnSet, Proved!FoldFunctionOnSet,
         Proved!MapThenFoldSet, Proved!Cardinality, Proved!Failure, Proved!NoReply
<1>3. UNCHANGED Atomic!bookVars => UNCHANGED Proved!bookVars
  BY DEF Atomic!bookVars, Proved!bookVars
<1> QED BY <1>1, <1>2, <1>3, PTL DEF Atomic!BookSpec, Proved!BookSpec

\* Loop by loop, order.lua makes and loses no shares, trades offers in the order of
\* price and id and removes only what was traded, as far as other commands can see.
THEOREM ScriptTradesFairly ==
  ScriptSpec => /\ Atomic!FillsBalance
                /\ Atomic!OffersTradeInPriority
                /\ Atomic!OnlyTradesRemove
<1>1. Proved!BookSpec => /\ Proved!FillsBalance
                         /\ Proved!OffersTradeInPriority
                         /\ Proved!OnlyTradesRemove
  BY Proved!BookFillsBalance, Proved!BookOffersTradeInPriority, Proved!BookOnlyTradesRemove,
     OrderIdsAssumption, PricesAssumption, SizesAssumption, UnpackAssumption
<1>2. Proved!FillsBalance => Atomic!FillsBalance
  BY DEF Proved!FillsBalance, Proved!bookVars, Proved!Lost, Proved!SumFunction,
         Proved!SumFunctionOnSet, Proved!FoldFunctionOnSet, Proved!MapThenFoldSet,
         Atomic!FillsBalance, Atomic!bookVars, Atomic!Lost, Atomic!SumFunction,
         Atomic!SumFunctionOnSet, Atomic!FoldFunctionOnSet, Atomic!MapThenFoldSet
<1>3. Proved!OffersTradeInPriority => Atomic!OffersTradeInPriority
  BY DEF Proved!OffersTradeInPriority, Atomic!OffersTradeInPriority, Proved!bookVars, Atomic!bookVars,
         Proved!Lost, Atomic!Lost
<1>4. Proved!OnlyTradesRemove => Atomic!OnlyTradesRemove
  BY DEF Proved!OnlyTradesRemove, Atomic!OnlyTradesRemove, Proved!bookVars, Atomic!bookVars
<1>5. ScriptSpec => Proved!BookSpec
  BY ScriptRunsAtomically, SameSpec, PTL DEF RunsAtomically
<1> QED BY <1>1, <1>2, <1>3, <1>4, <1>5, PTL

=============================================================================
