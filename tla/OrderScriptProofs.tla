-------------------------- MODULE OrderScriptProofs --------------------------
(***************************************************************************)
(* Proofs about OrderScript, for every set of accounts, assets, ids,       *)
(* prices and sizes and every length a book may have: whenever no script   *)
(* runs the keys agree, and while one runs only the orders its next call   *)
(* deletes or stores are out of step; no bid and offer rest at one price   *)
(* and no buyer has overpaid; and seen from outside a run is one step of   *)
(* OrderBook.                                                              *)
(***************************************************************************)
EXTENDS OrderScript, Sums, TLAPS

-----------------------------------------------------------------------------
(***************************************************************************)
(* The inductive invariant of the keys and of the script's work lists.     *)
(***************************************************************************)

\* Where StoresAgree sets nothing aside, and what it sets aside elsewhere.
Agreement ==
  /\ pc \notin {"delete", "store"} => Agree(book, hash, open)
  /\ pc = "delete" => Agree(book, Kept, open)
  /\ pc = "store" => Agree(Stored, hash, open)

\* Between runs the locals are empty; during a run the newcomer's id is used up
\* and has no hash before it is stored.
Frame ==
  /\ ~Running => todo = {} /\ done = {} /\ listed = {}
  /\ Running => req.id \in seen
  /\ pc \notin {"idle", "list"} => req.id \notin DOMAIN hash
  /\ pc \in {"store", "list"} =>
       /\ Rests
       /\ \A a \in Assets, s \in Books :
            req.id \in book[a][s] <=> a = req.asset /\ s = req.side
  /\ pc = "list" => req.id \in DOMAIN hash /\ hash[req.id] = Remainder

\* The match loop has visited exactly the candidates it completed; they stay
\* candidates until they leave the book, have hashes until these are deleted, and
\* then none.
Work ==
  /\ pc = "match" => /\ todo \cup done = Candidates(req, book, hash)
                     /\ todo \cap done = {}
  /\ pc \in {"clean", "remove"} => done \subseteq Candidates(req, book, hash)
  /\ pc = "delete" => done \subseteq DOMAIN hash
  /\ pc \in {"insert", "store", "list"} => done \cap (DOMAIN hash \ {req.id}) = {}

\* A completed order the clean loop has passed is in no account's set, and the
\* removal starts when all have been passed.
Cleaned ==
  /\ pc \in {"clean", "remove", "delete"} =>
       \A c \in Accounts : open[c] \cap (done \ listed) = {}
  /\ pc \in {"remove", "delete"} => listed = {}

ScriptInv == ScriptTypeOK /\ Agreement /\ Frame /\ Work /\ Cleaned

-----------------------------------------------------------------------------
(***************************************************************************)
(* Facts about the vocabulary.                                             *)
(***************************************************************************)

LEMMA OppositeType == \A s \in Books : Opposite(s) \in Books /\ Opposite(s) # s
  BY DEF Books, Opposite

LEMMA RequestType ==
  ASSUME NEW r \in Requests
  PROVE  /\ r.id \in OrderIds /\ r.account \in Accounts /\ r.asset \in Assets
         /\ r.side \in Books /\ r.size \in Nat /\ r.price \in Int
         /\ r.kind \in {"market", "limit"}
         /\ r.kind = "market" => r.price = 0
         /\ r.kind = "limit" => r.price \in Prices
<1>1. /\ r \in [id : OrderIds, account : Accounts, asset : Assets, side : Books,
                kind : {"market", "limit"}, price : Prices \cup {0}, size : Sizes]
      /\ IF r.kind = "market" THEN r.price = 0 ELSE r.price \in Prices
  BY DEF Requests
<1>2. /\ r.id \in OrderIds /\ r.account \in Accounts /\ r.asset \in Assets
      /\ r.side \in Books /\ r.kind \in {"market", "limit"}
      /\ r.price \in Prices \cup {0} /\ r.size \in Sizes
  BY <1>1
<1>3. r.kind = "market" \/ r.kind = "limit"
  BY <1>2
<1>4. r.price \in Int
  <2>1. CASE r.price \in Prices
    BY <2>1, PricesAssumption
  <2>2. CASE r.price = 0
    BY <2>2
  <2>3. QED
    BY <1>2, <2>1, <2>2
<1>5. r.size \in Nat
  BY <1>2, SizesAssumption
<1>6. QED
  BY <1>1, <1>2, <1>3, <1>4, <1>5

LEMMA CandidatesRest ==
  ASSUME ScriptTypeOK, Agreement, pc \in {"match", "clean", "remove"}
  PROVE  /\ Candidates(req, book, hash) \subseteq DOMAIN hash
         /\ \A o \in Candidates(req, book, hash) :
              /\ o \in book[req.asset][Opposite(req.side)]
              /\ hash[o].asset = req.asset
  BY RequestType, OppositeType DEF ScriptTypeOK, Agreement, Agree, Candidates, Running

-----------------------------------------------------------------------------

LEMMA InvInit == ScriptInit => ScriptInv
  BY DEF ScriptInit, ScriptInv, ScriptTypeOK, Agreement, Agree, Frame, Work, Cleaned,
         Running, Phases

LEMMA StartInv ==
  ASSUME ScriptInv, NEW r \in Requests, Start(r)
  PROVE  ScriptInv'
<1> USE DEF Start, Running
<1>1. Candidates(r, book, hash) \subseteq OrderIds
  BY RequestType, OppositeType DEF ScriptInv, ScriptTypeOK, Candidates
<1>2. ScriptTypeOK'
  BY <1>1, RequestType DEF ScriptInv, ScriptTypeOK, Phases
<1>3. Agreement'
  BY DEF ScriptInv, Agreement, Agree
<1>4. Frame' /\ Work' /\ Cleaned'
  BY DEF ScriptInv, ScriptTypeOK, Frame, Work, Cleaned
<1>5. QED
  BY <1>2, <1>3, <1>4 DEF ScriptInv

\* What shrinking a candidate changes of the hashes, and what it leaves alone.
LEMMA ShrinkFacts ==
  ASSUME ScriptInv, NEW o \in OrderIds, MatchPartially(o)
  PROVE  /\ o \in DOMAIN hash
         /\ DOMAIN hash' = DOMAIN hash
         /\ hash' \in [DOMAIN hash -> Resting]
         /\ \A p \in DOMAIN hash :
              /\ hash'[p].account = hash[p].account
              /\ hash'[p].asset = hash[p].asset
              /\ hash'[p].price = hash[p].price
              /\ hash'[p].original = hash[p].original
              /\ hash'[p].dollars = hash[p].dollars
              /\ p # o => hash'[p].size = hash[p].size
         /\ hash'[o].size = hash[o].size - left
         /\ hash'[o].size > 0
<1>1. o \in DOMAIN hash
  BY CandidatesRest DEF ScriptInv, Work, MatchPartially, Reaches, Running
<1>2. hash[o] \in Resting /\ left \in Nat /\ hash[o].size > left
  BY <1>1 DEF ScriptInv, ScriptTypeOK, MatchPartially
<1>3. hash' = [hash EXCEPT ![o] = [hash[o] EXCEPT !.size = hash[o].size - left]]
  BY <1>1 DEF MatchPartially
<1>4. [hash[o] EXCEPT !.size = hash[o].size - left] \in Resting
  BY <1>2 DEF Resting
<1>5. hash \in [DOMAIN hash -> Resting]
  BY DEF ScriptInv, ScriptTypeOK
<1>6. \A p \in DOMAIN hash : p # o => hash'[p] = hash[p]
  BY <1>3, <1>5
<1>7. hash'[o] = [hash[o] EXCEPT !.size = hash[o].size - left]
  BY <1>1, <1>3, <1>5
<1>8. /\ hash'[o].account = hash[o].account
      /\ hash'[o].asset = hash[o].asset
      /\ hash'[o].price = hash[o].price
      /\ hash'[o].original = hash[o].original
      /\ hash'[o].dollars = hash[o].dollars
      /\ hash'[o].size = hash[o].size - left
  BY <1>2, <1>7 DEF Resting
<1>9. hash'[o].size > 0
  BY <1>2, <1>8 DEF Resting
<1>10. DOMAIN hash' = DOMAIN hash /\ hash' \in [DOMAIN hash -> Resting]
  BY <1>1, <1>3, <1>4, <1>5
<1>11. QED
  BY <1>1, <1>6, <1>8, <1>9, <1>10

LEMMA MatchPartiallyInv ==
  ASSUME ScriptInv, NEW o \in OrderIds, MatchPartially(o)
  PROVE  ScriptInv'
<1>1. ScriptTypeOK'
  BY ShrinkFacts DEF ScriptInv, ScriptTypeOK, MatchPartially, Reaches, Running, Phases
<1>2. Agreement'
  <2>1. Agree(book, hash, open) /\ pc' = "clean" /\ book' = book /\ open' = open
    BY DEF ScriptInv, Agreement, MatchPartially, Reaches
  <2>2. Agree(book', hash', open')
    BY <2>1, ShrinkFacts DEF Agree
  <2>3. QED
    BY <2>1, <2>2 DEF Agreement
<1>3. Frame'
  BY ShrinkFacts DEF ScriptInv, Frame, MatchPartially, Reaches, Running
<1>4. Candidates(req, book, hash)' = Candidates(req, book, hash)
  <2>1. \A p \in book[req.asset][Opposite(req.side)] : hash'[p].price = hash[p].price
    BY ShrinkFacts, RequestType, OppositeType
    DEF ScriptInv, ScriptTypeOK, Agreement, Agree, MatchPartially, Reaches, Running
  <2>2. QED
    BY <2>1 DEF Candidates, MatchPartially
<1>5. Work' /\ Cleaned'
  BY <1>4 DEF ScriptInv, Work, Cleaned, MatchPartially, Reaches
<1>6. QED
  BY <1>1, <1>2, <1>3, <1>5 DEF ScriptInv

LEMMA MatchWholeInv ==
  ASSUME ScriptInv, NEW o \in OrderIds, MatchWhole(o)
  PROVE  ScriptInv'
<1> USE DEF MatchWhole, Reaches, keys
<1>1. o \in DOMAIN hash /\ hash[o] \in Resting
  BY CandidatesRest DEF ScriptInv, Work, Running, ScriptTypeOK
<1>2. hash[o].size \in Nat /\ hash[o].price \in Int
  BY <1>1, PricesAssumption DEF Resting
<1>3. left' \in Nat
  BY <1>2 DEF ScriptInv, ScriptTypeOK
<1>4. dollars' \in Int
  <2>1. Score(Opposite(req.side), hash[o].price) \in Int
    BY <1>2 DEF Score
  <2>2. QED
    BY <2>1, <1>2 DEF ScriptInv, ScriptTypeOK
<1>5. ScriptTypeOK'
  BY <1>3, <1>4 DEF ScriptInv, ScriptTypeOK, Running, Phases
<1>6. Agreement'
  BY DEF ScriptInv, Agreement, Agree
<1>7. Frame' /\ Cleaned'
  BY DEF ScriptInv, Frame, Cleaned, Running
<1>8. Work'
  BY DEF ScriptInv, Work
<1>9. QED
  BY <1>5, <1>6, <1>7, <1>8 DEF ScriptInv

LEMMA MatchEndInv ==
  ASSUME ScriptInv, MatchEnd
  PROVE  ScriptInv'
<1> USE DEF MatchEnd, keys
<1>1. ScriptTypeOK' /\ Agreement'
  BY DEF ScriptInv, ScriptTypeOK, Agreement, Agree, Running, Phases
<1>2. Frame' /\ Work' /\ Cleaned'
  BY DEF ScriptInv, Frame, Work, Cleaned, Running
<1>3. QED
  BY <1>1, <1>2 DEF ScriptInv

LEMMA CleanInv ==
  ASSUME ScriptInv, NEW o \in OrderIds, Clean(o)
  PROVE  ScriptInv'
<1> USE DEF Clean
<1>1. hash[o].account \in Accounts
  BY CandidatesRest DEF ScriptInv, Work, Running, ScriptTypeOK, Resting
<1>2. open' \in [Accounts -> SUBSET OrderIds]
  BY <1>1 DEF ScriptInv, ScriptTypeOK
<1>3. ScriptTypeOK'
  BY <1>2 DEF ScriptInv, ScriptTypeOK, Running
<1>4. \A c \in Accounts : open'[c] \subseteq open[c]
  BY <1>1 DEF ScriptInv, ScriptTypeOK
<1>5. Agreement'
  BY <1>4 DEF ScriptInv, Agreement, Agree
<1>6. Frame' /\ Work'
  BY DEF ScriptInv, Frame, Work, Running
<1>7. \A c \in Accounts : o \notin open'[c]
  <2> TAKE c \in Accounts
  <2>1. CASE c = hash[o].account
    BY <1>1, <2>1 DEF ScriptInv, ScriptTypeOK
  <2>2. CASE c # hash[o].account
    BY <1>4, <2>2 DEF ScriptInv, Agreement, Agree
  <2>3. QED
    BY <2>1, <2>2
<1>8. Cleaned'
  BY <1>4, <1>7 DEF ScriptInv, Cleaned
<1>9. QED
  BY <1>3, <1>5, <1>6, <1>8 DEF ScriptInv

LEMMA CleanEndInv ==
  ASSUME ScriptInv, CleanEnd
  PROVE  ScriptInv'
<1> USE DEF CleanEnd, keys, locals
<1>1. ScriptTypeOK' /\ Agreement'
  BY DEF ScriptInv, ScriptTypeOK, Agreement, Agree, Running, Phases
<1>2. Frame' /\ Work' /\ Cleaned'
  BY DEF ScriptInv, Frame, Work, Cleaned, Running
<1>3. QED
  BY <1>1, <1>2 DEF ScriptInv

\* What the removal changes of the book, and which hashes it sets aside.
LEMMA RemoveFacts ==
  ASSUME ScriptInv, Remove
  PROVE  /\ done \subseteq DOMAIN hash
         /\ \A o \in done : o \in book[req.asset][Opposite(req.side)]
         /\ DOMAIN Kept' = DOMAIN hash \ done
         /\ \A o \in DOMAIN hash \ done : Kept'[o] = hash[o]
         /\ book' \in [Assets -> [Books -> SUBSET OrderIds]]
         /\ \A a \in Assets, s \in Books : \A o :
              o \in book'[a][s] <=>
                /\ o \in book[a][s]
                /\ ~(a = req.asset /\ s = Opposite(req.side) /\ o \in done)
         /\ \A a \in Assets, s \in Books : \A o \in book'[a][s] : o \in book[a][s] \ done
<1>1. req.asset \in Assets /\ req.side \in Books /\ Opposite(req.side) \in Books
      /\ Opposite(Opposite(req.side)) = req.side /\ Opposite(req.side) # req.side
  BY RequestType DEF ScriptInv, ScriptTypeOK, Remove, Running, Books, Opposite
<1>2. /\ book' \in [Assets -> [Books -> SUBSET OrderIds]]
      /\ \A a \in Assets, s \in Books : \A o :
           o \in book'[a][s] <=>
             /\ o \in book[a][s]
             /\ ~(a = req.asset /\ s = Opposite(req.side) /\ o \in done)
  BY <1>1 DEF ScriptInv, ScriptTypeOK, Remove
<1>3. Kept' = [o \in DOMAIN hash \ done |-> hash[o]]
  BY DEF Remove, Kept, locals
<1>4. \A o \in done : /\ o \in book[req.asset][Opposite(req.side)]
                       /\ hash[o].asset = req.asset
                       /\ o \in DOMAIN hash
  BY CandidatesRest DEF ScriptInv, Work, Remove
<1>5. Agree(book, hash, open)
  BY DEF ScriptInv, Agreement, Remove
<1>6. ASSUME NEW a \in Assets, NEW s \in Books, NEW o \in book'[a][s]
      PROVE  o \in book[a][s] \ done
  <2>1. o \in book[a][s]
    BY <1>2
  <2>2. CASE a = req.asset /\ s = Opposite(req.side)
    BY <2>1, <2>2, <1>2
  <2>3. CASE a # req.asset
    BY <2>1, <2>3, <1>4, <1>5 DEF Agree
  <2>4. CASE a = req.asset /\ s # Opposite(req.side)
    <3>1. s = req.side
      BY <2>4, <1>1 DEF Books, Opposite
    <3>2. o \notin book[a][Opposite(s)]
      BY <2>1, <3>1, <2>4, <1>1, <1>5 DEF Agree, Books, Opposite
    <3>3. QED
      BY <2>1, <3>1, <3>2, <2>4, <1>4
  <2>5. QED
    BY <2>2, <2>3, <2>4
<1>7. QED
  BY <1>2, <1>3, <1>4, <1>6

LEMMA RemoveInv ==
  ASSUME ScriptInv, Remove
  PROVE  ScriptInv'
<1>1. ScriptTypeOK'
  BY RemoveFacts DEF ScriptInv, ScriptTypeOK, Remove, locals, Running, Phases
<1>2. Agree(book, hash, open)
  BY DEF ScriptInv, Agreement, Remove
<1>3. Agree(book', Kept', open')
  <2>1. \A a \in Assets, s \in Books : \A o \in book'[a][s] :
          o \in DOMAIN Kept' /\ Kept'[o].asset = a
    BY <1>2, RemoveFacts DEF Agree
  <2>2. ASSUME NEW o \in DOMAIN Kept'
        PROVE  \E s \in Books : /\ o \in book'[Kept'[o].asset][s]
                                /\ o \notin book'[Kept'[o].asset][Opposite(s)]
    <3>1. o \in DOMAIN hash \ done /\ Kept'[o] = hash[o] /\ hash[o].asset \in Assets
      BY RemoveFacts DEF ScriptInv, ScriptTypeOK, Resting
    <3>2. PICK s \in Books : /\ o \in book[hash[o].asset][s]
                             /\ o \notin book[hash[o].asset][Opposite(s)]
      BY <3>1, <1>2 DEF Agree
    <3>3. o \in book'[hash[o].asset][s]
      BY <3>1, <3>2, RemoveFacts
    <3>4. o \notin book'[hash[o].asset][Opposite(s)]
      BY <3>1, <3>2, RemoveFacts, OppositeType
    <3>5. QED
      BY <3>1, <3>3, <3>4
  <2>3. \A c \in Accounts : \A o \in open'[c] :
          o \in DOMAIN Kept' /\ Kept'[o].account = c
    BY <1>2, RemoveFacts DEF ScriptInv, Agree, Cleaned, Remove
  <2>4. QED
    BY <2>1, <2>2, <2>3 DEF Agree
<1>4. Agreement'
  BY <1>3 DEF Agreement, Remove
<1>5. Frame' /\ Work' /\ Cleaned'
  BY RemoveFacts DEF ScriptInv, Frame, Work, Cleaned, Remove, locals, Running
<1>6. QED
  BY <1>1, <1>4, <1>5 DEF ScriptInv

LEMMA AbortInv ==
  ASSUME ScriptInv, Abort
  PROVE  ScriptInv'
<1> USE DEF Abort, Return, keys
<1>1. ScriptTypeOK' /\ Agreement'
  BY DEF ScriptInv, ScriptTypeOK, Agreement, Agree, Running, Phases
<1>2. Frame' /\ Work' /\ Cleaned'
  BY DEF ScriptInv, Frame, Work, Cleaned, Running
<1>3. QED
  BY <1>1, <1>2 DEF ScriptInv

\* The deletion leaves the hashes that were kept.
LEMMA DeleteFacts ==
  ASSUME ScriptInv, Delete
  PROVE  /\ hash' = Kept /\ DOMAIN hash' = DOMAIN hash \ done
         /\ \A o \in DOMAIN hash' : hash'[o] = hash[o]
         /\ hash' \in [DOMAIN hash' -> Resting]
         /\ \A a \in Assets, s \in Books : \A o \in book[a][s] : o \in DOMAIN hash'
<1>1. hash' = Kept /\ hash' = [o \in DOMAIN hash \ done |-> hash[o]]
  BY DEF Delete, Kept
<1>2. Agree(book, Kept, open)
  BY DEF ScriptInv, Agreement, Delete
<1>3. \A a \in Assets, s \in Books : \A o \in book[a][s] : o \in DOMAIN hash'
  BY <1>1, <1>2 DEF Agree
<1>4. QED
  BY <1>1, <1>3 DEF ScriptInv, ScriptTypeOK

LEMMA DeleteInv ==
  ASSUME ScriptInv, Delete
  PROVE  ScriptInv'
<1>1. ScriptTypeOK'
  BY DeleteFacts DEF ScriptInv, ScriptTypeOK, Delete, locals, Running, Phases
<1>2. Agree(book', hash', open')
  <2>1. Agree(book, Kept, open) /\ book' = book /\ open' = open
    BY DEF ScriptInv, Agreement, Delete
  <2>2. QED
    BY <2>1, DeleteFacts
<1>3. Agreement'
  BY <1>2 DEF Agreement, Delete
<1>4. Frame' /\ Work' /\ Cleaned'
  BY DeleteFacts DEF ScriptInv, Frame, Work, Cleaned, Delete, locals, Running
<1>5. QED
  BY <1>1, <1>3, <1>4 DEF ScriptInv

\* What the newcomer's arrival changes of the book.
LEMMA InsertFacts ==
  ASSUME ScriptInv, Insert
  PROVE  /\ req \in Requests
         /\ \A a \in Assets, s \in Books : req.id \notin book[a][s]
         /\ book' \in [Assets -> [Books -> SUBSET OrderIds]]
         /\ \A a \in Assets, s \in Books : \A o :
              o \in book'[a][s] <=>
                o \in book[a][s] \/ (a = req.asset /\ s = req.side /\ o = req.id)
         /\ Stored' = book
<1>1. req \in Requests /\ req.id \notin DOMAIN hash /\ Agree(book, hash, open)
  BY DEF ScriptInv, ScriptTypeOK, Frame, Agreement, Insert, Running
<1>2. req.asset \in Assets /\ req.side \in Books /\ req.id \in OrderIds
  BY <1>1, RequestType
<1>3. \A a \in Assets, s \in Books : req.id \notin book[a][s]
  BY <1>1 DEF Agree
<1>4. book \in [Assets -> [Books -> SUBSET OrderIds]]
  BY DEF ScriptInv, ScriptTypeOK
<1>5. /\ book' \in [Assets -> [Books -> SUBSET OrderIds]]
      /\ \A a \in Assets, s \in Books : \A o :
           o \in book'[a][s] <=>
             o \in book[a][s] \/ (a = req.asset /\ s = req.side /\ o = req.id)
  BY <1>2, <1>4 DEF Insert
<1>6. \A a \in Assets, s \in Books : book'[a][s] \ {req.id} = book[a][s]
  BY <1>3, <1>5
<1>7. Stored' = [a \in Assets |-> [s \in Books |-> book'[a][s] \ {req.id}]]
  BY DEF Stored, Insert, locals
<1>8. Stored' = [a \in Assets |-> [s \in Books |-> book[a][s]]]
  BY <1>6, <1>7
<1>9. Stored' = book
  BY <1>4, <1>8
<1>10. QED
  BY <1>1, <1>3, <1>5, <1>9

LEMMA InsertInv ==
  ASSUME ScriptInv, Insert
  PROVE  ScriptInv'
<1>1. ScriptTypeOK'
  BY InsertFacts DEF ScriptInv, ScriptTypeOK, Insert, locals, Running, Phases
<1>2. Agreement'
  BY InsertFacts DEF ScriptInv, Agreement, Insert
<1>3. \A a \in Assets, s \in Books : req.id \in book'[a][s] <=> a = req.asset /\ s = req.side
  BY InsertFacts
<1>4. Frame' /\ Work' /\ Cleaned'
  BY <1>3 DEF ScriptInv, Frame, Work, Cleaned, Insert, locals, Running, Rests
<1>5. QED
  BY <1>1, <1>2, <1>4 DEF ScriptInv

\* What it changes when the newcomer gets its hash.
LEMMA StoreFacts ==
  ASSUME ScriptInv, Store
  PROVE  /\ DOMAIN hash' = DOMAIN hash \cup {req.id}
         /\ req.id \notin DOMAIN hash
         /\ \A o \in DOMAIN hash : hash'[o] = hash[o]
         /\ hash'[req.id] = Remainder
         /\ Remainder \in Resting
         /\ hash' \in [DOMAIN hash' -> Resting]
<1>1. req \in Requests /\ req.id \notin DOMAIN hash /\ Rests
  BY DEF ScriptInv, ScriptTypeOK, Frame, Store, Running
<1>2. Remainder \in Resting
  BY <1>1, RequestType DEF ScriptInv, ScriptTypeOK, Remainder, Resting, Rests
<1>3. hash' = [o \in DOMAIN hash \cup {req.id} |-> IF o = req.id THEN Remainder ELSE hash[o]]
  BY DEF Store
<1>4. hash \in [DOMAIN hash -> Resting]
  BY DEF ScriptInv, ScriptTypeOK
<1>5. QED
  BY <1>1, <1>2, <1>3, <1>4

\* The member of the book that had no hash is the newcomer.
LEMMA StoredFacts ==
  ASSUME ScriptInv, pc = "store"
  PROVE  /\ req \in Requests
         /\ \A a \in Assets, s \in Books :
              req.id \in book[a][s] <=> a = req.asset /\ s = req.side
         /\ req.id \notin DOMAIN hash
         /\ Agree(Stored, hash, open)
         /\ \A a \in Assets, s \in Books : \A o :
              o \in Stored[a][s] <=> o \in book[a][s] /\ o # req.id
<1>1. /\ req \in Requests
      /\ \A a \in Assets, s \in Books :
           req.id \in book[a][s] <=> a = req.asset /\ s = req.side
      /\ req.id \notin DOMAIN hash /\ Agree(Stored, hash, open)
  BY DEF ScriptInv, ScriptTypeOK, Frame, Agreement, Running
<1>2. Stored = [a \in Assets |-> [s \in Books |-> book[a][s] \ {req.id}]]
  BY DEF Stored
<1>3. QED
  BY <1>1, <1>2

LEMMA StoreInv ==
  ASSUME ScriptInv, Store
  PROVE  ScriptInv'
<1>0. pc = "store" /\ pc' = "list" /\ book' = book /\ open' = open /\ req' = req
  BY DEF Store, locals
<1>1. ScriptTypeOK'
  <2>1. req.id \in seen
    BY <1>0 DEF ScriptInv, Frame, Running
  <2>2. QED
    BY <2>1, StoreFacts DEF ScriptInv, ScriptTypeOK, Store, locals, Running, Phases
<1>2. /\ Agree(Stored, hash, open)
      /\ \A a \in Assets, s \in Books : \A o :
           o \in Stored[a][s] <=> o \in book[a][s] /\ o # req.id
  BY <1>0, StoredFacts
<1>3. req.asset \in Assets /\ req.side \in Books /\ Opposite(req.side) \in Books
      /\ Opposite(req.side) # req.side
  BY <1>0, StoredFacts, RequestType, OppositeType
<1>4. \A a \in Assets, s \in Books : req.id \in book[a][s] <=> a = req.asset /\ s = req.side
  BY <1>0, StoredFacts
<1>5. \A a \in Assets, s \in Books : \A o \in book[a][s] :
        o \in DOMAIN hash' /\ hash'[o].asset = a
  BY <1>2, <1>4, StoreFacts DEF Agree, Remainder
<1>6. ASSUME NEW o \in DOMAIN hash'
      PROVE  \E s \in Books : /\ o \in book[hash'[o].asset][s]
                              /\ o \notin book[hash'[o].asset][Opposite(s)]
  <2>1. CASE o = req.id
    <3>1. hash'[o].asset = req.asset
      BY <2>1, StoreFacts DEF Remainder
    <3>2. QED
      BY <2>1, <3>1, <1>3, <1>4
  <2>2. CASE o # req.id
    <3>1. o \in DOMAIN hash /\ hash'[o] = hash[o] /\ hash[o].asset \in Assets
      BY <2>2, StoreFacts DEF ScriptInv, ScriptTypeOK, Resting
    <3>2. PICK s \in Books : /\ o \in Stored[hash[o].asset][s]
                             /\ o \notin Stored[hash[o].asset][Opposite(s)]
      BY <3>1, <1>2 DEF Agree
    <3>3. o \in book[hash[o].asset][s] /\ o \notin book[hash[o].asset][Opposite(s)]
      BY <2>2, <3>1, <3>2, <1>2, OppositeType
    <3>4. QED
      BY <3>1, <3>3
  <2>3. QED
    BY <2>1, <2>2
<1>7. \A c \in Accounts : \A o \in open[c] : o \in DOMAIN hash' /\ hash'[o].account = c
  BY <1>2, StoreFacts DEF Agree
<1>8. Agreement'
  BY <1>0, <1>5, <1>6, <1>7 DEF Agreement, Agree
<1>9. Frame' /\ Work' /\ Cleaned'
  BY <1>0, StoreFacts DEF ScriptInv, Frame, Work, Cleaned, Store, locals, Running, Rests,
     Remainder
<1>10. QED
  BY <1>1, <1>8, <1>9 DEF ScriptInv

LEMMA ListInv ==
  ASSUME ScriptInv, List
  PROVE  ScriptInv'
<1>0. pc = "list" /\ pc' = "idle" /\ book' = book /\ hash' = hash /\ seen' = seen
  BY DEF List, Return
<1>1. /\ req \in Requests /\ req.id \in DOMAIN hash /\ hash[req.id].account = req.account
      /\ Agree(book, hash, open)
  BY <1>0 DEF ScriptInv, ScriptTypeOK, Frame, Agreement, Running, Remainder
<1>2. /\ open' \in [Accounts -> SUBSET OrderIds]
      /\ \A c \in Accounts : \A o :
           o \in open'[c] <=> o \in open[c] \/ (c = req.account /\ o = req.id)
  BY <1>1, RequestType DEF ScriptInv, ScriptTypeOK, List
<1>3. ScriptTypeOK'
  BY <1>0, <1>2 DEF ScriptInv, ScriptTypeOK, List, Return, Running, Phases
<1>4. Agree(book', hash', open')
  BY <1>0, <1>1, <1>2 DEF Agree
<1>5. Agreement' /\ Frame' /\ Work' /\ Cleaned'
  BY <1>0, <1>4 DEF Agreement, Frame, Work, Cleaned, List, Return, Running
<1>6. QED
  BY <1>3, <1>5 DEF ScriptInv

LEMMA FinishInv ==
  ASSUME ScriptInv, Finish
  PROVE  ScriptInv'
<1> USE DEF Finish, Return, keys
<1>1. ScriptTypeOK' /\ Agreement'
  BY DEF ScriptInv, ScriptTypeOK, Agreement, Agree, Running, Phases
<1>2. Frame' /\ Work' /\ Cleaned'
  BY DEF ScriptInv, Frame, Work, Cleaned, Running
<1>3. QED
  BY <1>1, <1>2 DEF ScriptInv

LEMMA InvStep ==
  ASSUME ScriptInv, [ScriptNext]_scriptVars
  PROVE  ScriptInv'
<1>1. CASE UNCHANGED scriptVars
  <2>1. /\ book' = book /\ hash' = hash /\ open' = open /\ seen' = seen /\ pc' = pc
        /\ req' = req /\ todo' = todo /\ left' = left /\ dollars' = dollars /\ done' = done
        /\ listed' = listed
    BY <1>1 DEF scriptVars, keys, locals
  <2>2. Kept' = Kept /\ Stored' = Stored /\ Remainder' = Remainder
    BY <2>1 DEF Kept, Stored, Remainder
  <2>3. ScriptTypeOK'
    BY <2>1 DEF ScriptInv, ScriptTypeOK, Running
  <2>4. Agreement'
    BY <2>1, <2>2 DEF ScriptInv, Agreement, Agree
  <2>5. Frame' /\ Work' /\ Cleaned'
    BY <2>1, <2>2 DEF ScriptInv, Frame, Work, Cleaned, Running, Rests
  <2>6. QED
    BY <2>3, <2>4, <2>5 DEF ScriptInv
<1>2. CASE ScriptNext
  BY <1>2, StartInv, MatchPartiallyInv, MatchWholeInv, MatchEndInv, CleanInv, CleanEndInv,
     RemoveInv, AbortInv, DeleteInv, InsertInv, StoreInv, ListInv, FinishInv DEF ScriptNext
<1>3. QED
  BY <1>1, <1>2

LEMMA InvAlways == ScriptSpec => []ScriptInv
<1>1. ScriptInv /\ [ScriptNext]_scriptVars => ScriptInv'
  BY InvStep
<1>2. QED
  BY InvInit, <1>1, PTL DEF ScriptSpec

\* Every reachable state of the script is well typed.
THEOREM TypeCorrect == ScriptSpec => []ScriptTypeOK
  BY InvAlways, PTL DEF ScriptInv

\* Nothing is set aside of the books but the newcomer, before it is stored.
LEMMA StoredIsBook ==
  ASSUME ScriptTypeOK, pc # "store"
  PROVE  Stored = book
<1>1. \A a \in Assets, s \in Books : book[a][s] \ {} = book[a][s]
  OBVIOUS
<1>2. Stored = [a \in Assets |-> [s \in Books |-> book[a][s]]]
  BY <1>1 DEF Stored
<1>3. QED
  BY <1>2 DEF ScriptTypeOK

\* What is out of step is what Kept and Stored set aside, and nothing between runs.
LEMMA AgreementIsStoresAgree == ScriptInv => StoresAgree
<1> SUFFICES ASSUME ScriptInv PROVE StoresAgree
  OBVIOUS
<1>1. pc # "delete" => Kept = hash
  BY DEF Kept, ScriptInv, ScriptTypeOK
<1>2. pc # "store" => Stored = book
  BY StoredIsBook DEF ScriptInv
<1>3. QED
  BY <1>1, <1>2 DEF ScriptInv, Agreement, StoresAgree

\* Whenever another command of Redis can look, after an aborted run too, the sorted
\* sets, the hashes and the accounts' sets agree, whatever the length of the books;
\* within a run only the orders between two calls of it are out of step.
THEOREM StoresAlwaysAgree == ScriptSpec => []StoresAgree
  BY InvAlways, AgreementIsStoresAgree, PTL

-----------------------------------------------------------------------------
(***************************************************************************)
(* When something is left of the newcomer after the match loop, the loop   *)
(* completed every candidate; after the removal there are none.            *)
(***************************************************************************)
Swept ==
  left > 0 => /\ pc \in {"clean", "remove"} => Candidates(req, book, hash) \subseteq done
              /\ pc \in {"delete", "insert", "store"} => Candidates(req, book, hash) = {}

Apart ==
  /\ pc # "store" => Unlocked(book, hash)
  /\ pc = "store" => Unlocked(Stored, hash)

LockInv == Swept /\ Apart

LEMMA LockInit == ScriptInit => LockInv
<1> SUFFICES ASSUME ScriptInit PROVE LockInv
  OBVIOUS
<1>1. \A a \in Assets : book[a]["bids"] = {}
  BY DEF ScriptInit, Books
<1>2. QED
  BY <1>1 DEF ScriptInit, LockInv, Swept, Apart, Unlocked

LEMMA LockStep ==
  ASSUME ScriptInv, LockInv, [ScriptNext]_scriptVars
  PROVE  LockInv'
<1>1. CASE UNCHANGED scriptVars
  BY <1>1 DEF LockInv, Swept, Apart, Unlocked, Stored, scriptVars, keys, locals
<1>2. ASSUME NEW r \in Requests, Start(r)
      PROVE  LockInv'
  BY <1>2 DEF LockInv, Swept, Apart, Unlocked, Start, Running
<1>3. ASSUME NEW o \in OrderIds, MatchPartially(o)
      PROVE  LockInv'
  <2>1. Swept'
    BY <1>3 DEF Swept, MatchPartially
  <2>2. Apart'
    BY <1>3, ShrinkFacts
    DEF ScriptInv, Agreement, Agree, LockInv, Apart, Unlocked, MatchPartially, Reaches, Books
  <2>3. QED
    BY <2>1, <2>2 DEF LockInv
<1>4. ASSUME NEW o \in OrderIds, MatchWhole(o)
      PROVE  LockInv'
  BY <1>4 DEF LockInv, Swept, Apart, Unlocked, MatchWhole, Reaches, keys
<1>5. ASSUME NEW o \in OrderIds, Clean(o)
      PROVE  LockInv'
  BY <1>5 DEF LockInv, Swept, Apart, Unlocked, Clean
<1>6. CASE MatchEnd
  BY <1>6 DEF ScriptInv, Work, LockInv, Swept, Apart, Unlocked, MatchEnd, keys
<1>7. CASE CleanEnd
  BY <1>7 DEF LockInv, Swept, Apart, Unlocked, CleanEnd, keys, locals
<1>8. CASE Remove
  <2>1. /\ req \in Requests /\ req.asset \in Assets /\ Opposite(req.side) \in Books
        /\ pc = "remove" /\ pc' = "delete" /\ left' = left /\ req' = req /\ hash' = hash
    BY <1>8, RequestType, OppositeType DEF ScriptInv, ScriptTypeOK, Remove, Running, locals
  <2>2. Candidates(req, book', hash') \subseteq Candidates(req, book, hash) \ done
    BY <1>8, <2>1, RemoveFacts DEF Candidates
  <2>3. Swept'
    BY <2>1, <2>2 DEF LockInv, Swept
  <2>4. Apart'
    BY <1>8, <2>1, RemoveFacts DEF LockInv, Apart, Unlocked, Books
  <2>5. QED
    BY <2>3, <2>4 DEF LockInv
<1>9. CASE Abort
  BY <1>9 DEF LockInv, Swept, Apart, Unlocked, Abort, Return, keys
<1>10. CASE Delete
  <2>1. /\ req.asset \in Assets /\ Opposite(req.side) \in Books
        /\ pc = "delete" /\ pc' = "insert" /\ left' = left /\ req' = req /\ book' = book
    BY <1>10, RequestType, OppositeType DEF ScriptInv, ScriptTypeOK, Delete, Running, locals
  <2>2. \A a \in Assets, s \in Books : \A o \in book[a][s] : hash'[o] = hash[o]
    BY <1>10, DeleteFacts
  <2>3. Candidates(req, book', hash') = Candidates(req, book, hash)
    BY <2>1, <2>2 DEF Candidates
  <2>4. Swept'
    BY <2>1, <2>3 DEF LockInv, Swept
  <2>5. Apart'
    BY <2>1, <2>2 DEF LockInv, Apart, Unlocked, Books
  <2>6. QED
    BY <2>4, <2>5 DEF LockInv
<1>11. CASE Insert
  <2>1. /\ req.asset \in Assets /\ req.side \in Books /\ Opposite(req.side) \in Books
        /\ Opposite(req.side) # req.side
        /\ pc = "insert" /\ pc' = "store" /\ left' = left /\ req' = req /\ hash' = hash
    BY <1>11, InsertFacts, RequestType, OppositeType DEF Insert, locals
  <2>2. book'[req.asset][Opposite(req.side)] = book[req.asset][Opposite(req.side)]
    <3>1. \A o : o \in book'[req.asset][Opposite(req.side)]
                   <=> o \in book[req.asset][Opposite(req.side)]
      BY <1>11, <2>1, InsertFacts
    <3>2. QED
      BY <3>1
  <2>3. Swept'
    BY <2>1, <2>2 DEF LockInv, Swept, Candidates
  <2>4. Apart'
    BY <1>11, <2>1, InsertFacts DEF LockInv, Apart
  <2>5. QED
    BY <2>3, <2>4 DEF LockInv
<1>12. CASE Store
  <2>1. /\ req.asset \in Assets /\ req.side \in Books /\ Opposite(req.side) \in Books
        /\ req.price \in Int /\ Opposite(req.side) # req.side
        /\ pc = "store" /\ pc' = "list" /\ book' = book
    BY <1>12, StoredFacts, RequestType, OppositeType DEF Store
  <2>2. Swept'
    BY <2>1 DEF Swept
  <2>3. \A o \in book[req.asset][Opposite(req.side)] : hash[o].price # req.price
    <3>1. Candidates(req, book, hash) = {}
      BY <2>1 DEF LockInv, Swept, ScriptInv, Frame, Rests
    <3>2. \A o \in book[req.asset][Opposite(req.side)] :
            ~InRange(req, Score(Opposite(req.side), hash[o].price))
      BY <3>1 DEF Candidates
    <3>3. QED
      BY <2>1, <3>2 DEF InRange, Score, Opposite, Books
  <2>4. \A a \in Assets, s \in Books : \A o \in book[a][s] :
          \/ o \in Stored[a][s] /\ hash'[o] = hash[o]
          \/ a = req.asset /\ s = req.side /\ o = req.id /\ hash'[o].price = req.price
    <3> SUFFICES ASSUME NEW a \in Assets, NEW s \in Books, NEW o \in book[a][s]
                 PROVE  \/ o \in Stored[a][s] /\ hash'[o] = hash[o]
                        \/ /\ a = req.asset /\ s = req.side /\ o = req.id
                           /\ hash'[o].price = req.price
      OBVIOUS
    <3>1. CASE o = req.id
      BY <1>12, <2>1, <3>1, StoredFacts, StoreFacts DEF Remainder
    <3>2. CASE o # req.id
      <4>1. o \in Stored[a][s] /\ o \in DOMAIN hash
        BY <2>1, <3>2, StoredFacts DEF Agree
      <4>2. QED
        BY <1>12, <4>1, StoreFacts
    <3>3. QED
      BY <3>1, <3>2
  <2>5. \A o \in Stored[req.asset][Opposite(req.side)] : hash[o].price # req.price
    BY <2>1, <2>3, StoredFacts
  <2>6. Unlocked(Stored, hash)
    BY <2>1 DEF LockInv, Apart
  <2>7. Unlocked(book', hash')
    <3> SUFFICES ASSUME NEW a \in Assets, NEW b \in book[a]["bids"], NEW o \in book[a]["offers"]
                 PROVE  hash'[b].price # hash'[o].price
      BY <2>1 DEF Unlocked
    <3>1. CASE b \in Stored[a]["bids"] /\ hash'[b] = hash[b]
               /\ o \in Stored[a]["offers"] /\ hash'[o] = hash[o]
      BY <2>6, <3>1 DEF Unlocked
    <3>2. CASE /\ b \in Stored[a]["bids"] /\ hash'[b] = hash[b]
               /\ a = req.asset /\ "offers" = req.side /\ hash'[o].price = req.price
      BY <3>2, <2>5 DEF Opposite
    <3>3. CASE /\ o \in Stored[a]["offers"] /\ hash'[o] = hash[o]
               /\ a = req.asset /\ "bids" = req.side /\ hash'[b].price = req.price
      BY <3>3, <2>5 DEF Opposite
    <3>4. QED
      BY <2>4, <3>1, <3>2, <3>3 DEF Books
  <2>8. QED
    BY <2>1, <2>2, <2>7 DEF LockInv, Apart
<1>13. CASE List
  BY <1>13 DEF LockInv, Swept, Apart, Unlocked, List, Return
<1>14. CASE Finish
  BY <1>14 DEF LockInv, Swept, Apart, Unlocked, Finish, Return, keys
<1>15. QED
  BY <1>1, <1>2, <1>3, <1>4, <1>5, <1>6, <1>7, <1>8, <1>9, <1>10, <1>11, <1>12, <1>13, <1>14
  DEF ScriptNext

\* A bid and an offer of one asset never rest at the same price.
THEOREM NeverLockedAlways == ScriptSpec => []NeverLocked
<1>1. ScriptInv /\ LockInv /\ [ScriptNext]_scriptVars => LockInv'
  BY LockStep
<1>2. ScriptSpec => []LockInv
  BY LockInit, <1>1, InvAlways, PTL DEF ScriptSpec
<1>3. ScriptInv /\ LockInv => NeverLocked
  BY StoredIsBook DEF LockInv, Apart, NeverLocked, ScriptInv
<1>4. QED
  BY <1>2, <1>3, InvAlways, PTL

-----------------------------------------------------------------------------
(***************************************************************************)
(* What bids have paid.  A limit bid gets past the reservation only with a *)
(* positive price, so shares matched with it later, which order.lua adds   *)
(* to nobody's volume, leave the bound standing.                           *)
(***************************************************************************)
Resters == \A o \in DOMAIN hash : hash[o].size <= hash[o].original

\* The bids of b that have hashes have a price, and have not overpaid.
Paid(b) ==
  \A a \in Assets : \A o \in b[a]["bids"] :
    /\ hash[o].price > 0
    /\ hash[o].dollars <= hash[o].price * (hash[o].original - hash[o].size)

Newcomer ==
  Running => /\ Reservable(req)
             /\ left <= req.size
             /\ req.side = "bids" => dollars <= req.price * (req.size - left)

MoneyInv ==
  /\ Resters /\ Newcomer
  /\ pc # "store" => Paid(book)
  /\ pc = "store" => Paid(Stored)

LEMMA MoneyInit == ScriptInit => MoneyInv
<1> SUFFICES ASSUME ScriptInit PROVE MoneyInv
  OBVIOUS
<1>1. \A a \in Assets : book[a]["bids"] = {}
  BY DEF ScriptInit, Books
<1>2. QED
  BY <1>1 DEF ScriptInit, MoneyInv, Resters, Newcomer, Paid, Running

LEMMA MoneyMatchPartially ==
  ASSUME ScriptInv, MoneyInv, NEW o \in OrderIds, MatchPartially(o)
  PROVE  MoneyInv'
<1>1. left \in Nat /\ left' = 0 /\ req' = req /\ dollars' = dollars /\ pc = "match"
  BY DEF ScriptInv, ScriptTypeOK, MatchPartially, Reaches
<1>2. req \in Requests /\ req.size \in Nat /\ req.price \in Int
  BY <1>1, RequestType DEF ScriptInv, ScriptTypeOK, Running
<1>3. Resters'
  <2>1. \A p \in DOMAIN hash : hash[p].size \in Nat /\ hash[p].original \in Nat
    BY DEF ScriptInv, ScriptTypeOK, Resting
  <2>2. \A p \in DOMAIN hash' : hash'[p].size <= hash'[p].original
    BY <1>1, <2>1, ShrinkFacts DEF MoneyInv, Resters
  <2>3. QED
    BY <2>2 DEF Resters
<1>4. Newcomer'
  <2>1. Reservable(req) /\ (req.side = "bids" => dollars <= req.price * (req.size - left))
    BY <1>1 DEF MoneyInv, Newcomer, Running
  <2>2. CASE req.side = "bids"
    <3>1. req.price >= 0
      BY <1>2, <2>1, <2>2, RequestType DEF Reservable
    <3>2. left * req.price >= 0
      BY <1>1, <1>2, <3>1, ProductMonotone
    <3>3. req.price * (req.size - left) = req.price * req.size - req.price * left
      BY <1>1, <1>2
    <3>4. dollars \in Int
      BY DEF ScriptInv, ScriptTypeOK
    <3>5. dollars <= req.price * (req.size - 0)
      BY <1>1, <1>2, <2>1, <2>2, <3>2, <3>3, <3>4
    <3>6. QED
      BY <1>1, <1>2, <2>1, <3>5 DEF Newcomer, Reservable
  <2>3. CASE req.side # "bids"
    BY <1>1, <1>2, <2>1, <2>3 DEF Newcomer, Reservable
  <2>4. QED
    BY <2>2, <2>3
<1>5. Paid(book)'
  <2> SUFFICES ASSUME NEW a \in Assets, NEW b \in book'[a]["bids"]
               PROVE  /\ hash'[b].price > 0
                      /\ hash'[b].dollars <= hash'[b].price * (hash'[b].original - hash'[b].size)
    BY DEF Paid
  <2>1. b \in book[a]["bids"] /\ b \in DOMAIN hash
    BY <1>1 DEF MatchPartially, ScriptInv, Agreement, Agree, Books
  <2>2. /\ hash[b].dollars \in Int /\ hash[b].price \in Int
        /\ hash[b].original \in Nat /\ hash[b].size \in Nat
    BY <2>1, PricesAssumption DEF ScriptInv, ScriptTypeOK, Resting
  <2>3. /\ hash[b].price > 0
        /\ hash[b].dollars <= hash[b].price * (hash[b].original - hash[b].size)
    BY <1>1, <2>1 DEF MoneyInv, Paid
  <2>4. CASE b # o
    BY <2>1, <2>3, <2>4, ShrinkFacts
  <2>5. CASE b = o
    <3>1. hash[b].price >= 0 /\ 0 * left <= hash[b].price * left
      BY <1>1, <2>2, <2>3, ProductMonotone
    <3>2. hash[b].price * (hash[b].original - (hash[b].size - left))
            = hash[b].price * (hash[b].original - hash[b].size) + hash[b].price * left
      BY <1>1, <2>2
    <3>3. hash[b].dollars <= hash[b].price * (hash[b].original - (hash[b].size - left))
      BY <1>1, <2>2, <2>3, <3>1, <3>2
    <3>4. QED
      BY <2>1, <2>3, <2>5, <3>3, ShrinkFacts
  <2>6. QED
    BY <2>4, <2>5
<1>6. pc' = "clean"
  BY DEF MatchPartially
<1>7. QED
  BY <1>3, <1>4, <1>5, <1>6 DEF MoneyInv

LEMMA MoneyMatchWhole ==
  ASSUME ScriptInv, MoneyInv, NEW o \in OrderIds, MatchWhole(o)
  PROVE  MoneyInv'
<1> USE DEF MatchWhole, Reaches, keys
<1>1. pc = "match" /\ req' = req /\ left' = left - hash[o].size /\ left \in Nat
  BY DEF ScriptInv, ScriptTypeOK
<1>2. req \in Requests /\ req.size \in Nat /\ req.price \in Int
  BY <1>1, RequestType DEF ScriptInv, ScriptTypeOK, Running
<1>3. /\ o \in Candidates(req, book, hash)
      /\ hash[o].size \in Nat /\ hash[o].price \in Int /\ hash[o].size <= left
  <2>1. o \in Candidates(req, book, hash) /\ o \in DOMAIN hash
    BY CandidatesRest DEF ScriptInv, Work
  <2>2. QED
    BY <2>1, PricesAssumption DEF ScriptInv, ScriptTypeOK, Resting
<1>4. Resters' /\ Paid(book)' /\ pc' # "store"
  BY DEF MoneyInv, Resters, Paid
<1>5. Reservable(req) /\ left <= req.size
  BY <1>1 DEF MoneyInv, Newcomer, Running
<1>6. req.side = "bids" => dollars' <= req.price * (req.size - left')
  <2> SUFFICES ASSUME req.side = "bids"
               PROVE  dollars' <= req.price * (req.size - left')
    OBVIOUS
  <2>1. hash[o].price <= req.price
    BY <1>3 DEF Candidates, InRange, Score, Opposite
  <2>2. hash[o].price * hash[o].size <= req.price * hash[o].size
    BY <1>2, <1>3, <2>1, ProductMonotone
  <2>3. dollars <= req.price * (req.size - left) /\ dollars \in Int
    BY <1>1 DEF MoneyInv, Newcomer, Running, ScriptInv, ScriptTypeOK
  <2>4. dollars' = dollars + hash[o].price * hash[o].size
    BY DEF Score, Opposite
  <2>5. req.price * (req.size - (left - hash[o].size))
          = req.price * (req.size - left) + req.price * hash[o].size
    BY <1>1, <1>2, <1>3
  <2>6. /\ hash[o].price * hash[o].size \in Int /\ req.price * hash[o].size \in Int
        /\ req.price * (req.size - left) \in Int
    BY <1>1, <1>2, <1>3
  <2>7. QED
    BY <1>1, <2>2, <2>3, <2>4, <2>5, <2>6
<1>7. Newcomer'
  BY <1>1, <1>2, <1>3, <1>5, <1>6 DEF Newcomer, Reservable
<1>8. QED
  BY <1>4, <1>7 DEF MoneyInv

\* The newcomer has paid for what it has bought when it comes to rest.
LEMMA MoneyStore ==
  ASSUME ScriptInv, MoneyInv, Store
  PROVE  MoneyInv'
<1>1. /\ pc = "store" /\ pc' = "list" /\ book' = book /\ req' = req /\ left' = left
      /\ dollars' = dollars
  BY DEF Store, locals
<1>2. /\ req \in Requests /\ req.size \in Nat /\ req.price \in Int /\ left \in Nat
      /\ req.kind = "limit" /\ Reservable(req) /\ left <= req.size
      /\ req.side = "bids" => dollars <= req.price * (req.size - left)
  BY <1>1, RequestType DEF ScriptInv, ScriptTypeOK, Frame, Rests, MoneyInv, Newcomer, Running
<1>3. Newcomer'
  BY <1>1, <1>2 DEF Newcomer, Reservable
<1>4. Resters'
  BY <1>2, StoreFacts DEF MoneyInv, Resters, Remainder
<1>5. Paid(book)'
  <2> SUFFICES ASSUME NEW a \in Assets, NEW b \in book[a]["bids"]
               PROVE  /\ hash'[b].price > 0
                      /\ hash'[b].dollars <= hash'[b].price * (hash'[b].original - hash'[b].size)
    BY <1>1 DEF Paid
  <2>1. CASE b = req.id
    <3>1. req.side = "bids"
      BY <1>1, <2>1, StoredFacts DEF Books
    <3>2. hash'[b] = Remainder
      BY <2>1, StoreFacts
    <3>3. QED
      BY <1>2, <3>1, <3>2 DEF Remainder, Reservable
  <2>2. CASE b # req.id
    <3>1. b \in Stored[a]["bids"] /\ b \in DOMAIN hash
      BY <1>1, <2>2, StoredFacts DEF Agree, Books
    <3>2. hash'[b] = hash[b]
      BY <3>1, StoreFacts
    <3>3. QED
      BY <1>1, <3>1, <3>2 DEF MoneyInv, Paid
  <2>3. QED
    BY <2>1, <2>2
<1>6. QED
  BY <1>1, <1>3, <1>4, <1>5 DEF MoneyInv

LEMMA MoneyStep ==
  ASSUME ScriptInv, MoneyInv, [ScriptNext]_scriptVars
  PROVE  MoneyInv'
<1> USE DEF MoneyInv, Resters, Newcomer, Paid, Running
<1>1. CASE UNCHANGED scriptVars
  BY <1>1 DEF scriptVars, keys, locals, Reservable, Stored
<1>2. ASSUME NEW r \in Requests, Start(r)
      PROVE  MoneyInv'
  <2>1. r.size \in Nat /\ r.price \in Int
    BY RequestType
  <2>2. r.price * (r.size - r.size) = 0
    BY <2>1
  <2>3. Reservable(r)'
    BY <1>2 DEF Start, Reservable
  <2>4. QED
    BY <1>2, <2>1, <2>2, <2>3 DEF Start, Reservable
<1>3. ASSUME NEW o \in OrderIds, Clean(o)
      PROVE  MoneyInv'
  BY <1>3 DEF Clean, Reservable
<1>4. CASE MatchEnd
  BY <1>4 DEF MatchEnd, keys, Reservable
<1>5. CASE CleanEnd
  BY <1>5 DEF CleanEnd, keys, locals, Reservable
<1>6. CASE Remove
  <2>1. \A a \in Assets : \A b \in book'[a]["bids"] : b \in book[a]["bids"]
    BY <1>6, RemoveFacts DEF Books
  <2>2. QED
    BY <1>6, <2>1 DEF Remove, locals, Reservable
<1>7. CASE Abort
  BY <1>7 DEF Abort, Return, keys
<1>8. CASE Delete
  <2>1. \A a \in Assets : \A b \in book[a]["bids"] : hash'[b] = hash[b]
    BY <1>8, DeleteFacts DEF Books
  <2>2. Resters'
    BY <1>8, DeleteFacts
  <2>3. QED
    BY <1>8, <2>1, <2>2 DEF Delete, locals, Reservable
<1>9. CASE Insert
  <2>1. Stored' = book
    BY <1>9, InsertFacts
  <2>2. QED
    BY <1>9, <2>1 DEF Insert, locals, Reservable
<1>10. CASE List
  BY <1>10 DEF List, Return
<1>11. CASE Finish
  BY <1>11 DEF Finish, Return, keys
<1>12. QED
  BY <1>1, <1>2, MoneyMatchPartially, MoneyMatchWhole, <1>3, <1>4, <1>5, <1>6, <1>7, <1>8,
     <1>9, MoneyStore, <1>10, <1>11 DEF ScriptNext

LEMMA MoneyAlways == ScriptSpec => []MoneyInv
<1>1. ScriptInv /\ MoneyInv /\ [ScriptNext]_scriptVars => MoneyInv'
  BY MoneyStep
<1>2. QED
  BY MoneyInit, <1>1, InvAlways, PTL DEF ScriptSpec

\* The dollar volume stored with a resting bid never exceeds its limit times the
\* shares it has bought, for any sequence of orders and any prices.
THEOREM BuyersNeverOverpayAlways == ScriptSpec => []BuyersNeverOverpay
<1>1. ScriptInv /\ MoneyInv => BuyersNeverOverpay
  BY StoredIsBook DEF ScriptInv, MoneyInv, Paid, BuyersNeverOverpay, NoOverpayment
<1>2. QED
  BY <1>1, MoneyAlways, InvAlways, PTL

-----------------------------------------------------------------------------
(***************************************************************************)
(* The refinement of OrderBook: what the loops have computed, at each      *)
(* point of a run, in terms of the keys other commands still see.          *)
(***************************************************************************)

\* The keys as other commands see them are those of a book at rest.
VisibleOK ==
  /\ visible.book \in [Assets -> [Books -> SUBSET OrderIds]]
  /\ visible.hash \in [DOMAIN visible.hash -> Resting]
  /\ DOMAIN visible.hash \subseteq visible.seen
  /\ visible.open \in [Accounts -> SUBSET OrderIds]
  /\ visible.seen \subseteq OrderIds /\ IsFiniteSet(visible.seen)
  /\ Agree(visible.book, visible.hash, visible.open)

Shown ==
  /\ ~Running => visible = [book |-> book, hash |-> hash, open |-> open, seen |-> seen]
  /\ Running => /\ seen = visible.seen \cup {req.id}
                /\ req.id \notin visible.seen
                /\ Reservable(req)

\* The dollar volume of a set of candidates.
Volume(S) ==
  SumFunctionOnSet([o \in DOMAIN visible.hash |->
                      Score(Opposite(req.side), visible.hash[o].price) * visible.hash[o].size], S)

\* What the match loop has computed when it visits the next candidate.
Matched ==
  /\ book = visible.book /\ hash = visible.hash /\ open = visible.open
  /\ done \subseteq Atomic!Completed(req)
  /\ \A d \in done, t \in todo : Before(Opposite(req.side), visible.hash, d, t)
  /\ left = req.size - Atomic!SumSizes(done)
  /\ dollars = Volume(done)

\* What it has computed when it ends.
Settled ==
  /\ done = Atomic!Completed(req)
  /\ dollars = Atomic!Dollars(req)
  /\ left = IF Atomic!Unfilled(req) > 0 THEN Atomic!Unfilled(req) ELSE 0
  /\ open = Atomic!Unlisted(done \ listed)

Undeleted ==
  /\ book = visible.book
  /\ hash = Atomic!Shrunk(req, visible.hash)

Unpacked == listed = {} /\ Cardinality(done) <= UnpackLimit

\* The book and the hashes without what was completed, and with what comes to rest.
BookLeft == [visible.book EXCEPT ![req.asset][Opposite(req.side)] = @ \ done]
HashLeft == Atomic!Shrunk(req, [o \in DOMAIN visible.hash \ done |-> visible.hash[o]])
BookWith == [BookLeft EXCEPT ![req.asset][req.side] = @ \cup {req.id}]
HashWith == [o \in DOMAIN HashLeft \cup {req.id} |-> IF o = req.id THEN Remainder ELSE HashLeft[o]]

Computes ==
  /\ pc = "match" => Matched
  /\ pc \notin {"idle", "match"} => Settled
  /\ pc \in {"clean", "remove"} => Undeleted
  /\ pc \in {"delete", "insert", "store", "list"} => Unpacked
  /\ pc = "delete" => book = BookLeft /\ hash = Atomic!Shrunk(req, visible.hash)
  /\ pc = "insert" => book = BookLeft /\ hash = HashLeft
  /\ pc = "store" => book = BookWith /\ hash = HashLeft
  /\ pc = "list" => book = BookWith /\ hash = HashWith

RunInv == VisibleOK /\ Shown /\ Computes

-----------------------------------------------------------------------------

\* The words OrderBook shares with OrderScript mean the same in its instance.
LEMMA AtomicSum ==
  ASSUME NEW w, NEW S
  PROVE  Atomic!SumFunctionOnSet(w, S) = SumFunctionOnSet(w, S)
BY DEF SumFunctionOnSet, FoldFunctionOnSet, MapThenFoldSet,
       Atomic!SumFunctionOnSet, Atomic!FoldFunctionOnSet, Atomic!MapThenFoldSet

LEMMA AtomicWords ==
  /\ \A r, b, h : Atomic!Candidates(r, b, h) = Candidates(r, b, h)
  /\ \A s, h, o, p : Atomic!Before(s, h, o, p) = Before(s, h, o, p)
  /\ \A s : Atomic!Opposite(s) = Opposite(s)
  /\ \A s, p : Atomic!Score(s, p) = Score(s, p)
BY DEF Candidates, Before, Opposite, Score, InRange,
       Atomic!Candidates, Atomic!Before, Atomic!Opposite, Atomic!Score, Atomic!InRange

\* Finitely many hashes are visible, and they hold numbers.
LEMMA VisibleFacts ==
  ASSUME VisibleOK
  PROVE  /\ IsFiniteSet(DOMAIN visible.hash)
         /\ \A o \in DOMAIN visible.hash :
              /\ o \in Nat
              /\ visible.hash[o].size \in Nat \ {0} /\ visible.hash[o].price \in Int
              /\ visible.hash[o].account \in Accounts
<1>1. IsFiniteSet(DOMAIN visible.hash)
  BY FS_Subset DEF VisibleOK
<1>2. \A o \in DOMAIN visible.hash : o \in Nat /\ visible.hash[o] \in Resting
  BY OrderIdsAssumption DEF VisibleOK
<1> QED BY <1>1, <1>2, PricesAssumption DEF Resting

\* The candidates of a running script in the visible book.
Sweep == Candidates(req, visible.book, visible.hash)

\* The sweep visits visible hashes of the opposite book.
LEMMA SweepFacts ==
  ASSUME ScriptInv, VisibleOK, Running
  PROVE  /\ Sweep \subseteq DOMAIN visible.hash /\ IsFiniteSet(Sweep)
         /\ Sweep \subseteq visible.book[req.asset][Opposite(req.side)]
         /\ req \in Requests /\ req.size \in Nat
<1>1. req \in Requests
  BY DEF ScriptInv, ScriptTypeOK
<1>2. Sweep \subseteq visible.book[req.asset][Opposite(req.side)]
  BY DEF Sweep, Candidates
<1>3. Sweep \subseteq DOMAIN visible.hash
  BY <1>1, <1>2, RequestType, OppositeType DEF VisibleOK, Agree
<1> QED BY <1>1, <1>2, <1>3, VisibleFacts, FS_Subset, RequestType

\* The definitions of OrderBook, over the visible keys.
LEMMA SweepWords ==
  /\ Atomic!Unfilled(req) = req.size - Atomic!SumSizes(Sweep)
  /\ \A o : Atomic!SharesLeft(req, o) = req.size - Atomic!SumSizes(Atomic!Ahead(req, o))
  /\ \A o : Atomic!Ahead(req, o) =
              {c \in Sweep : Before(Opposite(req.side), visible.hash, c, o)}
  /\ Atomic!Completed(req) =
       {o \in Sweep : /\ Atomic!SharesLeft(req, o) > 0
                      /\ visible.hash[o].size <= Atomic!SharesLeft(req, o)}
  /\ Atomic!Partial(req) =
       {o \in Sweep : Atomic!SharesLeft(req, o) \in 1 .. visible.hash[o].size - 1}
<1>1. Atomic!Candidates(req, visible.book, visible.hash) = Sweep
  BY AtomicWords DEF Sweep
<1> HIDE DEF Sweep
<1>2. Atomic!Unfilled(req) = req.size - Atomic!SumSizes(Sweep)
  BY <1>1 DEF Atomic!Unfilled
<1>3. \A o : Atomic!SharesLeft(req, o) = req.size - Atomic!SumSizes(Atomic!Ahead(req, o))
  BY DEF Atomic!SharesLeft
<1>4. \A o : Atomic!Ahead(req, o) =
              {c \in Sweep : Before(Opposite(req.side), visible.hash, c, o)}
  BY <1>1, AtomicWords DEF Atomic!Ahead
<1>5. Atomic!Completed(req) =
       {o \in Sweep : /\ Atomic!SharesLeft(req, o) > 0
                      /\ visible.hash[o].size <= Atomic!SharesLeft(req, o)}
  BY <1>1 DEF Atomic!Completed
<1>6. Atomic!Partial(req) =
       {o \in Sweep : Atomic!SharesLeft(req, o) \in 1 .. visible.hash[o].size - 1}
  BY <1>1 DEF Atomic!Partial
<1> QED BY <1>2, <1>3, <1>4, <1>5, <1>6

\* Sums of visible sizes, and of visible volumes.
LEMMA VisibleSums ==
  ASSUME VisibleOK
  PROVE  /\ Atomic!SumSizes({}) = 0
         /\ \A S \in SUBSET DOMAIN visible.hash : Atomic!SumSizes(S) \in Nat
         /\ \A S \in SUBSET DOMAIN visible.hash : \A e \in DOMAIN visible.hash \ S :
              Atomic!SumSizes(S \cup {e}) = visible.hash[e].size + Atomic!SumSizes(S)
         /\ \A S \in SUBSET DOMAIN visible.hash : \A T \in SUBSET S :
              Atomic!SumSizes(T) <= Atomic!SumSizes(S)
<1> DEFINE w == [o \in DOMAIN visible.hash |-> visible.hash[o].size]
<1>1. \A S : Atomic!SumSizes(S) = SumFunctionOnSet(w, S)
  BY AtomicSum DEF Atomic!SumSizes
<1>2. \A o \in DOMAIN visible.hash : w[o] = visible.hash[o].size /\ w[o] \in Nat
  BY VisibleFacts
<1>3. \A S \in SUBSET DOMAIN visible.hash : IsFiniteSet(S)
  BY VisibleFacts, FS_Subset
<1> HIDE DEF w
<1>4. Atomic!SumSizes({}) = 0
  BY <1>1, SumEmpty
<1>5. \A S \in SUBSET DOMAIN visible.hash : Atomic!SumSizes(S) \in Nat
  BY <1>1, <1>2, <1>3, SumNat
<1>6. ASSUME NEW S \in SUBSET DOMAIN visible.hash, NEW e \in DOMAIN visible.hash \ S
      PROVE  Atomic!SumSizes(S \cup {e}) = visible.hash[e].size + Atomic!SumSizes(S)
  BY <1>1, <1>2, <1>3, SumAdd
<1>7. ASSUME NEW S \in SUBSET DOMAIN visible.hash, NEW T \in SUBSET S
      PROVE  Atomic!SumSizes(T) <= Atomic!SumSizes(S)
  BY <1>1, <1>2, <1>3, SumSubset
<1> QED BY <1>4, <1>5, <1>6, <1>7

\* The dollar volume of no candidate is 0, and each candidate adds its own.
LEMMA VolumeFacts ==
  ASSUME VisibleOK
  PROVE  /\ Volume({}) = 0
         /\ \A S \in SUBSET DOMAIN visible.hash : \A e \in DOMAIN visible.hash \ S :
              Volume(S \cup {e}) =
                Score(Opposite(req.side), visible.hash[e].price) * visible.hash[e].size
                  + Volume(S)
<1> DEFINE v == [o \in DOMAIN visible.hash |->
                   Score(Opposite(req.side), visible.hash[o].price) * visible.hash[o].size]
<1>1. \A S : Volume(S) = SumFunctionOnSet(v, S)
  BY DEF Volume
<1>2. \A o \in DOMAIN visible.hash :
        /\ v[o] = Score(Opposite(req.side), visible.hash[o].price) * visible.hash[o].size
        /\ v[o] \in Int
  BY VisibleFacts DEF Score
<1>3. \A S \in SUBSET DOMAIN visible.hash : IsFiniteSet(S)
  BY VisibleFacts, FS_Subset
<1> HIDE DEF v
<1>4. Volume({}) = 0
  BY <1>1, SumEmpty
<1>5. ASSUME NEW S \in SUBSET DOMAIN visible.hash, NEW e \in DOMAIN visible.hash \ S
      PROVE  Volume(S \cup {e}) = v[e] + Volume(S)
  BY <1>1, <1>2, <1>3, SumAdd
<1> QED BY <1>2, <1>4, <1>5

\* The dollar volume of OrderBook is that of what it completes.
LEMMA DollarsAreVolume ==
  ASSUME ScriptInv, VisibleOK, Running
  PROVE  Atomic!Dollars(req) = Volume(Atomic!Completed(req))
<1> DEFINE C == Atomic!Completed(req)
           score(o) == Score(Opposite(req.side), visible.hash[o].price) * visible.hash[o].size
<1>1. C \subseteq DOMAIN visible.hash /\ IsFiniteSet(C)
  BY SweepFacts, SweepWords, FS_Subset
<1>2. Atomic!Dollars(req) = Atomic!SumFunction([o \in C |-> score(o)])
  BY AtomicWords DEF Atomic!Dollars
<1> HIDE DEF C
<1>3. Atomic!Dollars(req) = SumFunctionOnSet([o \in C |-> score(o)], C)
  BY <1>2, AtomicSum DEF Atomic!SumFunction
<1>4. \A o \in C : [p \in C |-> score(p)][o] = [p \in DOMAIN visible.hash |-> score(p)][o]
  BY <1>1
<1>5. Volume(C) = SumFunctionOnSet([p \in DOMAIN visible.hash |-> score(p)], C)
  BY DEF Volume
<1> HIDE DEF score
<1>6. SumFunctionOnSet([o \in C |-> score(o)], C)
        = SumFunctionOnSet([p \in DOMAIN visible.hash |-> score(p)], C)
  BY <1>1, <1>4, SumSame
<1> QED BY <1>3, <1>5, <1>6 DEF C

\* ZRANGE's order is total on the visible orders.
LEMMA VisibleOrder ==
  ASSUME VisibleOK, NEW s
  PROVE  /\ \A o \in DOMAIN visible.hash : ~Before(s, visible.hash, o, o)
         /\ \A o, p \in DOMAIN visible.hash :
              Before(s, visible.hash, o, p) => ~Before(s, visible.hash, p, o)
<1>1. \A o \in DOMAIN visible.hash : o \in Nat /\ Score(s, visible.hash[o].price) \in Int
  BY VisibleFacts DEF Score
<1> QED BY <1>1 DEF Before

\* The candidate the loop visits has exactly the completed ones ahead of it, so what
\* is left is what OrderBook says; those behind it find less by its size.
LEMMA Reached ==
  ASSUME ScriptInv, VisibleOK, pc = "match", Matched, NEW o, Reaches(o)
  PROVE  /\ Sweep = done \cup todo /\ o \in Sweep \ done
         /\ Atomic!SharesLeft(req, o) = left /\ left \in Nat
         /\ visible.hash[o].size \in Nat \ {0}
         /\ \A p \in todo \ {o} : /\ Atomic!SharesLeft(req, p) \in Int
                                  /\ Atomic!SharesLeft(req, p) <= left - visible.hash[o].size
         /\ Atomic!Unfilled(req) \in Int
         /\ Atomic!Unfilled(req) <= left - visible.hash[o].size
<1> DEFINE side == Opposite(req.side)
           size == visible.hash[o].size
<1>1. Running /\ o \in todo /\ \A p \in todo \ {o} : Before(side, visible.hash, o, p)
  BY DEF Running, Reaches, Matched
<1>2. Sweep = done \cup todo /\ done \cap todo = {}
  BY DEF ScriptInv, Work, Matched, Sweep
<1>3. Sweep \subseteq DOMAIN visible.hash /\ req.size \in Nat
  BY <1>1, SweepFacts
<1>4. left \in Nat /\ left = req.size - Atomic!SumSizes(done)
  BY DEF ScriptInv, ScriptTypeOK, Matched
<1>5. \A d \in done : Before(side, visible.hash, d, o)
  BY <1>1 DEF Matched
<1>6. Atomic!Ahead(req, o) = done
  <2>1. \A c \in todo : ~Before(side, visible.hash, c, o)
    BY <1>1, <1>2, <1>3, VisibleOrder
  <2>2. Atomic!Ahead(req, o) = {c \in Sweep : Before(side, visible.hash, c, o)}
    BY SweepWords
  <2> QED BY <1>2, <1>5, <2>1, <2>2
<1>7. Atomic!SharesLeft(req, o) = left
  BY <1>4, <1>6, SweepWords
<1>8. size \in Nat \ {0}
  BY <1>1, <1>2, <1>3, VisibleFacts
<1>9. Atomic!SumSizes(done \cup {o}) = size + Atomic!SumSizes(done)
  <2>1. done \in SUBSET DOMAIN visible.hash /\ o \in DOMAIN visible.hash \ done
    BY <1>1, <1>2, <1>3
  <2> QED BY <2>1, VisibleSums
<1>10. ASSUME NEW S \in SUBSET Sweep, done \cup {o} \subseteq S
       PROVE  /\ req.size - Atomic!SumSizes(S) \in Int
              /\ req.size - Atomic!SumSizes(S) <= left - size
  <2>1. /\ S \in SUBSET DOMAIN visible.hash /\ done \cup {o} \in SUBSET S
        /\ done \in SUBSET DOMAIN visible.hash
    BY <1>2, <1>3, <1>10
  <2>2. Atomic!SumSizes(S) \in Nat /\ Atomic!SumSizes(done) \in Nat
    BY <2>1, VisibleSums
  <2>3. Atomic!SumSizes(done \cup {o}) <= Atomic!SumSizes(S)
    BY <2>1, VisibleSums
  <2> HIDE DEF size
  <2> QED BY <1>3, <1>4, <1>8, <1>9, <2>2, <2>3
<1>11. ASSUME NEW p \in todo \ {o}
       PROVE  /\ Atomic!SharesLeft(req, p) \in Int
              /\ Atomic!SharesLeft(req, p) <= left - size
  <2>1. \A d \in done : Before(side, visible.hash, d, p)
    BY DEF Matched
  <2>2. Atomic!Ahead(req, p) = {c \in Sweep : Before(side, visible.hash, c, p)}
    BY SweepWords
  <2>3. done \cup {o} \subseteq Atomic!Ahead(req, p) /\ Atomic!Ahead(req, p) \in SUBSET Sweep
    BY <1>1, <1>2, <2>1, <2>2
  <2>4. Atomic!SharesLeft(req, p) = req.size - Atomic!SumSizes(Atomic!Ahead(req, p))
    BY SweepWords
  <2> HIDE DEF size
  <2> QED BY <1>10, <2>3, <2>4
<1>12. Atomic!Unfilled(req) \in Int /\ Atomic!Unfilled(req) <= left - size
  <2>1. Atomic!Unfilled(req) = req.size - Atomic!SumSizes(Sweep)
    BY SweepWords
  <2>2. done \cup {o} \subseteq Sweep
    BY <1>1, <1>2
  <2> HIDE DEF size
  <2> QED BY <1>10, <2>1, <2>2
<1> QED BY <1>1, <1>2, <1>4, <1>7, <1>8, <1>11, <1>12

\* The loop ends at a candidate larger than what is left: nothing but it and the
\* completed ones is touched.
LEMMA EndsPartially ==
  ASSUME ScriptInv, VisibleOK, pc = "match", Matched, NEW o, Reaches(o),
         visible.hash[o].size > left
  PROVE  /\ done = Atomic!Completed(req)
         /\ Atomic!Partial(req) = IF left > 0 THEN {o} ELSE {}
         /\ Atomic!Unfilled(req) <= 0
<1>1. /\ Sweep = done \cup todo /\ o \in Sweep \ done
      /\ Atomic!SharesLeft(req, o) = left /\ left \in Nat
      /\ visible.hash[o].size \in Nat \ {0}
      /\ \A p \in todo \ {o} : /\ Atomic!SharesLeft(req, p) \in Int
                               /\ Atomic!SharesLeft(req, p) <= left - visible.hash[o].size
      /\ Atomic!Unfilled(req) \in Int
      /\ Atomic!Unfilled(req) <= left - visible.hash[o].size
  BY Reached
<1>2. \A p \in todo \ {o} : ~(Atomic!SharesLeft(req, p) > 0)
  BY <1>1
<1>3. done \subseteq Atomic!Completed(req)
  BY DEF Matched
<1>4. Atomic!Completed(req) =
        {c \in Sweep : /\ Atomic!SharesLeft(req, c) > 0
                       /\ visible.hash[c].size <= Atomic!SharesLeft(req, c)}
  BY SweepWords
<1>5. Atomic!Partial(req) =
        {c \in Sweep : Atomic!SharesLeft(req, c) \in 1 .. visible.hash[c].size - 1}
  BY SweepWords
<1>6. ~(visible.hash[o].size <= left)
  BY <1>1
<1>7. done = Atomic!Completed(req)
  BY <1>1, <1>2, <1>3, <1>4, <1>6
<1>8. \A d \in done : d \notin Atomic!Partial(req)
  <2> SUFFICES ASSUME NEW d \in done, d \in Atomic!Partial(req) PROVE FALSE
    OBVIOUS
  <2>1. /\ visible.hash[d].size <= Atomic!SharesLeft(req, d)
        /\ Atomic!SharesLeft(req, d) \in 1 .. visible.hash[d].size - 1
    BY <1>3, <1>4, <1>5
  <2>2. visible.hash[d].size \in Nat \ {0}
    BY <1>1, SweepFacts, VisibleFacts DEF Running
  <2> QED BY <2>1, <2>2
<1>9. \A p \in todo \ {o} : p \notin Atomic!Partial(req)
  BY <1>1, <1>2, <1>5
<1>10. o \in Atomic!Partial(req) <=> left > 0
  BY <1>1, <1>5
<1>11. Atomic!Partial(req) \subseteq Sweep
  BY <1>5
<1>12. Atomic!Partial(req) = IF left > 0 THEN {o} ELSE {}
  BY <1>1, <1>8, <1>9, <1>10, <1>11
<1> QED BY <1>1, <1>7, <1>12

\* It ends at a candidate that takes all that was left.
LEMMA EndsWhole ==
  ASSUME ScriptInv, VisibleOK, pc = "match", Matched, NEW o, Reaches(o),
         visible.hash[o].size <= left
  PROVE  /\ o \in Atomic!Completed(req)
         /\ left = visible.hash[o].size =>
              /\ done \cup {o} = Atomic!Completed(req)
              /\ Atomic!Partial(req) = {}
              /\ Atomic!Unfilled(req) <= 0
<1>1. /\ Sweep = done \cup todo /\ o \in Sweep \ done
      /\ Atomic!SharesLeft(req, o) = left /\ left \in Nat
      /\ visible.hash[o].size \in Nat \ {0}
      /\ \A p \in todo \ {o} : /\ Atomic!SharesLeft(req, p) \in Int
                               /\ Atomic!SharesLeft(req, p) <= left - visible.hash[o].size
      /\ Atomic!Unfilled(req) \in Int
      /\ Atomic!Unfilled(req) <= left - visible.hash[o].size
  BY Reached
<1>2. Atomic!Completed(req) =
        {c \in Sweep : /\ Atomic!SharesLeft(req, c) > 0
                       /\ visible.hash[c].size <= Atomic!SharesLeft(req, c)}
  BY SweepWords
<1>3. Atomic!Partial(req) =
        {c \in Sweep : Atomic!SharesLeft(req, c) \in 1 .. visible.hash[c].size - 1}
  BY SweepWords
<1>4. left > 0
  BY <1>1
<1>5. o \in Atomic!Completed(req)
  BY <1>1, <1>2, <1>4
<1>6. done \cup {o} \subseteq Atomic!Completed(req)
  BY <1>5 DEF Matched
<1>7. \A d \in Atomic!Completed(req) : d \notin Atomic!Partial(req)
  <2> SUFFICES ASSUME NEW d \in Atomic!Completed(req), d \in Atomic!Partial(req) PROVE FALSE
    OBVIOUS
  <2>1. /\ d \in Sweep
        /\ visible.hash[d].size <= Atomic!SharesLeft(req, d)
        /\ Atomic!SharesLeft(req, d) \in 1 .. visible.hash[d].size - 1
    BY <1>2, <1>3
  <2>2. visible.hash[d].size \in Nat \ {0}
    BY <2>1, SweepFacts, VisibleFacts DEF Running
  <2> QED BY <2>1, <2>2
<1>8. ASSUME left = visible.hash[o].size
      PROVE  /\ done \cup {o} = Atomic!Completed(req)
             /\ Atomic!Partial(req) = {}
             /\ Atomic!Unfilled(req) <= 0
  <2>1. \A p \in todo \ {o} : ~(Atomic!SharesLeft(req, p) > 0)
    BY <1>1, <1>8
  <2>2. done \cup {o} = Atomic!Completed(req)
    BY <1>1, <1>2, <1>6, <2>1
  <2>3. \A p \in todo \ {o} : p \notin Atomic!Partial(req)
    BY <1>1, <1>3, <2>1
  <2>4. Atomic!Partial(req) = {}
    <3>1. Atomic!Partial(req) \subseteq Sweep
      BY <1>3
    <3> QED BY <1>1, <1>7, <2>2, <2>3, <3>1
  <2> QED BY <1>1, <1>8, <2>2, <2>4
<1> QED BY <1>5, <1>8

\* It ends with no candidate left.
LEMMA EndsEmpty ==
  ASSUME ScriptInv, VisibleOK, pc = "match", Matched, todo = {}
  PROVE  /\ done = Atomic!Completed(req)
         /\ Atomic!Partial(req) = {}
         /\ Atomic!Unfilled(req) = left
<1>1. Sweep = done
  BY DEF ScriptInv, Work, Matched, Sweep
<1>2. Atomic!Completed(req) =
        {c \in Sweep : /\ Atomic!SharesLeft(req, c) > 0
                       /\ visible.hash[c].size <= Atomic!SharesLeft(req, c)}
  BY SweepWords
<1>3. Atomic!Partial(req) =
        {c \in Sweep : Atomic!SharesLeft(req, c) \in 1 .. visible.hash[c].size - 1}
  BY SweepWords
<1>4. done = Atomic!Completed(req)
  <2>1. done \subseteq Atomic!Completed(req)
    BY DEF Matched
  <2> QED BY <1>1, <1>2, <2>1
<1>5. Atomic!Partial(req) = {}
  <2> SUFFICES ASSUME NEW d \in Atomic!Partial(req) PROVE FALSE
    OBVIOUS
  <2>1. /\ d \in Sweep
        /\ visible.hash[d].size <= Atomic!SharesLeft(req, d)
        /\ Atomic!SharesLeft(req, d) \in 1 .. visible.hash[d].size - 1
    BY <1>1, <1>2, <1>3, <1>4
  <2>2. visible.hash[d].size \in Nat \ {0}
    BY <2>1, SweepFacts, VisibleFacts DEF Running
  <2> QED BY <2>1, <2>2
<1>6. Atomic!Unfilled(req) = left
  BY <1>1, SweepWords DEF Matched
<1> QED BY <1>4, <1>5, <1>6

-----------------------------------------------------------------------------
(***************************************************************************)
(* RunInv is inductive: one lemma for each call of the script.             *)
(***************************************************************************)

\* A call within a run leaves what OrderBook computes from the visible keys alone.
LEMMA WithinRun ==
  ASSUME VisibleOK, visible' = visible, req' = req
  PROVE  /\ VisibleOK'
         /\ Atomic!Completed(req)' = Atomic!Completed(req)
         /\ Atomic!Unfilled(req)' = Atomic!Unfilled(req)
         /\ Atomic!Dollars(req)' = Atomic!Dollars(req)
         /\ Atomic!SumSizes(done)' = Atomic!SumSizes(done')
         /\ Volume(done)' = Volume(done')
         /\ Atomic!Unlisted(done \ listed)' = Atomic!Unlisted(done' \ listed')
         /\ Atomic!Shrunk(req, visible.hash)' = Atomic!Shrunk(req, visible.hash)
         /\ Atomic!Shrunk(req, [o \in DOMAIN visible.hash \ done |-> visible.hash[o]])'
              = Atomic!Shrunk(req, [o \in DOMAIN visible.hash \ done' |-> visible.hash[o]])
<1>1. VisibleOK'
  BY DEF VisibleOK
<1> USE DEF Atomic!Completed, Atomic!Unfilled, Atomic!SumSizes, Atomic!Unlisted,
            Atomic!Shrunk, Atomic!SharesLeft, Atomic!Ahead, Atomic!Partial
<1>2. Atomic!Completed(req)' = Atomic!Completed(req) /\ Atomic!Unfilled(req)' = Atomic!Unfilled(req)
  OBVIOUS
<1>3. Atomic!Dollars(req)' = Atomic!Dollars(req)
  BY DEF Atomic!Dollars
<1>4. /\ Atomic!SumSizes(done)' = Atomic!SumSizes(done')
      /\ Volume(done)' = Volume(done')
      /\ Atomic!Unlisted(done \ listed)' = Atomic!Unlisted(done' \ listed')
  BY DEF Volume
<1>5. /\ Atomic!Shrunk(req, visible.hash)' = Atomic!Shrunk(req, visible.hash)
      /\ Atomic!Shrunk(req, [o \in DOMAIN visible.hash \ done |-> visible.hash[o]])'
           = Atomic!Shrunk(req, [o \in DOMAIN visible.hash \ done' |-> visible.hash[o]])
  OBVIOUS
<1> QED BY <1>1, <1>2, <1>3, <1>4, <1>5

\* Once the loops are over a call leaves what they make of the visible keys, too.
LEMMA AfterLoops ==
  ASSUME VisibleOK, visible' = visible, req' = req, done' = done, listed' = listed,
         left' = left, dollars' = dollars
  PROVE  /\ Settled /\ open' = open => Settled'
         /\ Shown /\ Running /\ Running' /\ seen' = seen => Shown'
         /\ BookLeft' = BookLeft /\ HashLeft' = HashLeft
         /\ BookWith' = BookWith /\ HashWith' = HashWith
<1>1. Settled /\ open' = open => Settled'
  BY WithinRun DEF Settled
<1>2. Shown /\ Running /\ Running' /\ seen' = seen => Shown'
  BY DEF Shown, Reservable
<1>3. BookLeft' = BookLeft /\ HashLeft' = HashLeft
  BY WithinRun DEF BookLeft, HashLeft
<1>4. Remainder' = Remainder
  BY DEF Remainder
<1>5. BookWith' = BookWith /\ HashWith' = HashWith
  BY <1>3, <1>4 DEF BookWith, HashWith
<1>6. QED
  BY <1>1, <1>2, <1>3, <1>5

\* Nobody's set has lost anything yet.
LEMMA NothingUnlisted ==
  ASSUME VisibleOK
  PROVE  Atomic!Unlisted({}) = visible.open
BY DEF Atomic!Unlisted, VisibleOK

\* Before the first run everything is visible.
LEMMA RunInit == ScriptInit => RunInv
<1> SUFFICES ASSUME ScriptInit PROVE RunInv
  OBVIOUS
<1>1. VisibleOK
  BY FS_EmptySet DEF ScriptInit, VisibleOK, Agree
<1>2. Shown /\ Computes
  BY DEF ScriptInit, Shown, Computes, Running
<1> QED BY <1>1, <1>2 DEF RunInv

\* A run starts with nothing matched.
LEMMA RunStart ==
  ASSUME ScriptInv, RunInv, NEW r \in Requests, Start(r)
  PROVE  RunInv'
<1>1. /\ visible' = visible /\ req' = r /\ pc' = "match" /\ book' = book /\ hash' = hash
      /\ open' = open /\ seen' = seen \cup {r.id} /\ done' = {} /\ left' = r.size
      /\ dollars' = 0
      /\ ~Running /\ r.id \notin seen /\ Reservable(r)
  BY DEF Start
<1>2. visible = [book |-> book, hash |-> hash, open |-> open, seen |-> seen]
  BY <1>1 DEF RunInv, Shown
<1>3. VisibleOK'
  BY <1>1 DEF RunInv, VisibleOK
<1>4. Reservable(req)'
  BY <1>1 DEF Reservable
<1>5. Shown'
  BY <1>1, <1>2, <1>4 DEF Shown, Running
<1>6. Matched'
  <2>1. Volume(done)' = 0
    BY <1>1, SumEmpty DEF Volume
  <2>2. Atomic!SumSizes(done)' = 0
    BY <1>1, SumEmpty, AtomicSum DEF Atomic!SumSizes
  <2>3. r.size \in Nat
    BY RequestType
  <2> QED BY <1>1, <1>2, <2>1, <2>2, <2>3 DEF Matched
<1>7. Computes'
  BY <1>1, <1>6 DEF Computes
<1> QED BY <1>3, <1>5, <1>7 DEF RunInv

\* The loop ends with a candidate that shrinks.
LEMMA RunMatchPartially ==
  ASSUME ScriptInv, RunInv, NEW o \in OrderIds, MatchPartially(o)
  PROVE  RunInv'
<1>1. /\ visible' = visible /\ req' = req /\ pc = "match" /\ pc' = "clean"
      /\ book' = book /\ open' = open /\ seen' = seen /\ done' = done /\ listed' = done
      /\ left' = 0 /\ dollars' = dollars
      /\ hash' = [hash EXCEPT ![o].size = @ - left] /\ hash[o].size > left
      /\ Reaches(o)
  BY DEF MatchPartially, Reaches
<1>2. VisibleOK /\ Running /\ Shown /\ Matched
  BY <1>1 DEF RunInv, Computes, Running
<1>3. /\ done = Atomic!Completed(req)
      /\ Atomic!Partial(req) = IF left > 0 THEN {o} ELSE {}
      /\ Atomic!Unfilled(req) <= 0
  BY <1>1, <1>2, EndsPartially DEF Matched
<1>4. /\ o \in Sweep /\ Atomic!SharesLeft(req, o) = left /\ left \in Nat
      /\ Atomic!Unfilled(req) \in Int
  BY <1>1, <1>2, Reached
<1>5. hash = visible.hash /\ book = visible.book /\ open = visible.open /\ dollars = Volume(done)
  BY <1>2 DEF Matched
<1>6. hash' = Atomic!Shrunk(req, visible.hash)
  <2>1. o \in DOMAIN visible.hash /\ visible.hash[o] \in Resting
    BY <1>2, <1>4, SweepFacts DEF VisibleOK
  <2>2. visible.hash = [p \in DOMAIN visible.hash |-> visible.hash[p]]
    BY <1>2 DEF VisibleOK
  <2>3. CASE left > 0
    BY <1>1, <1>3, <1>4, <1>5, <2>1, <2>2, <2>3 DEF Atomic!Shrunk
  <2>4. CASE left = 0
    <3>1. [visible.hash[o] EXCEPT !.size = @ - left] = visible.hash[o]
      BY <2>1, <2>4 DEF Resting
    <3>2. hash' = visible.hash
      BY <1>1, <1>5, <2>1, <2>2, <3>1
    <3>3. Atomic!Partial(req) = {}
      BY <1>3, <2>4
    <3>4. Atomic!Shrunk(req, visible.hash) = visible.hash
      BY <2>2, <3>3 DEF Atomic!Shrunk
    <3> QED BY <3>2, <3>4
  <2> QED BY <1>4, <2>3, <2>4
<1>7. VisibleOK' /\ Shown'
  BY <1>1, <1>2, WithinRun DEF Shown, Running, Reservable
<1>8. Settled'
  <2>1. (Atomic!Unlisted(done \ listed))' = Atomic!Unlisted({})
    <3>1. done' \ listed' = {}
      BY <1>1
    <3> QED BY <1>1, <1>2, <3>1, WithinRun
  <2>2. dollars' = Atomic!Dollars(req)
    BY <1>1, <1>2, <1>3, <1>5, DollarsAreVolume
  <2> QED BY <1>1, <1>2, <1>3, <1>4, <1>5, <2>1, <2>2, WithinRun, NothingUnlisted DEF Settled
<1>9. Undeleted'
  BY <1>1, <1>2, <1>5, <1>6, WithinRun DEF Undeleted
<1> QED BY <1>1, <1>7, <1>8, <1>9 DEF RunInv, Computes

\* The loop goes on, or ends with nothing left to match.
LEMMA RunMatchWhole ==
  ASSUME ScriptInv, RunInv, NEW o \in OrderIds, MatchWhole(o)
  PROVE  RunInv'
<1>1. /\ visible' = visible /\ req' = req /\ pc = "match"
      /\ book' = book /\ hash' = hash /\ open' = open /\ seen' = seen
      /\ done' = done \cup {o} /\ todo' = todo \ {o}
      /\ left' = left - hash[o].size /\ hash[o].size <= left
      /\ dollars' = dollars + Score(Opposite(req.side), hash[o].price) * hash[o].size
      /\ IF left' = 0 THEN pc' = "clean" /\ listed' = done' ELSE pc' = pc
      /\ Reaches(o)
  BY DEF MatchWhole, Reaches, keys
<1>2. VisibleOK /\ Running /\ Shown /\ Matched
  BY <1>1 DEF RunInv, Computes, Running
<1>3. /\ hash = visible.hash /\ book = visible.book /\ open = visible.open
      /\ dollars = Volume(done) /\ left = req.size - Atomic!SumSizes(done)
  BY <1>2 DEF Matched
<1>4. /\ Sweep = done \cup todo /\ o \in Sweep \ done /\ left \in Nat
      /\ visible.hash[o].size \in Nat \ {0}
      /\ Atomic!Unfilled(req) \in Int
  BY <1>1, <1>2, Reached
<1>5. /\ o \in Atomic!Completed(req)
      /\ left = visible.hash[o].size =>
           /\ done \cup {o} = Atomic!Completed(req)
           /\ Atomic!Partial(req) = {}
           /\ Atomic!Unfilled(req) <= 0
  BY <1>1, <1>2, <1>3, EndsWhole
<1>6. o \in DOMAIN visible.hash \ done /\ done \in SUBSET DOMAIN visible.hash
  BY <1>2, <1>4, SweepFacts
<1>7. Volume(done') = dollars'
  <2>1. /\ visible.hash[o].price \in Int /\ visible.hash[o].size \in Nat
        /\ Score(Opposite(req.side), visible.hash[o].price) \in Int
    BY <1>2, <1>6, VisibleFacts DEF Score
  <2>2. Volume(done \cup {o}) =
          Score(Opposite(req.side), visible.hash[o].price) * visible.hash[o].size + Volume(done)
    BY <1>2, <1>6, VolumeFacts
  <2>3. Volume(done) \in Int
    BY <1>3 DEF ScriptInv, ScriptTypeOK
  <2> QED BY <1>1, <1>3, <2>1, <2>2, <2>3
<1>8. left' = req.size - Atomic!SumSizes(done')
  <2>1. Atomic!SumSizes(done \cup {o}) = visible.hash[o].size + Atomic!SumSizes(done)
    BY <1>2, <1>6, VisibleSums
  <2>2. Atomic!SumSizes(done) \in Nat /\ req.size \in Nat
    BY <1>2, <1>6, VisibleSums, SweepFacts
  <2> QED BY <1>1, <1>3, <1>4, <2>1, <2>2
<1>9. VisibleOK' /\ Shown'
  <2>1. Running'
    BY <1>1 DEF Running
  <2> QED BY <1>1, <1>2, <2>1, WithinRun DEF Shown, Reservable
<1>10. CASE left' = 0
  <2>1. left = visible.hash[o].size
    BY <1>1, <1>3, <1>4, <1>10
  <2>2. /\ done' = Atomic!Completed(req) /\ Atomic!Partial(req) = {}
        /\ Atomic!Unfilled(req) <= 0
    BY <1>1, <1>5, <2>1
  <2>3. Settled'
    <3>1. (Atomic!Unlisted(done \ listed))' = Atomic!Unlisted({})
      <4>1. done' \ listed' = {}
        BY <1>1, <1>10
      <4> QED BY <1>1, <1>2, <4>1, WithinRun
    <3>2. dollars' = Atomic!Dollars(req)
      BY <1>2, <1>7, <2>2, DollarsAreVolume
    <3> QED BY <1>1, <1>2, <1>3, <1>4, <1>10, <2>2, <3>1, <3>2, WithinRun, NothingUnlisted
            DEF Settled
  <2>4. Undeleted'
    <3>1. Atomic!Shrunk(req, visible.hash) = visible.hash
      <4>1. visible.hash = [p \in DOMAIN visible.hash |-> visible.hash[p]]
        BY <1>2 DEF VisibleOK
      <4> QED BY <2>2, <4>1 DEF Atomic!Shrunk
    <3> QED BY <1>1, <1>2, <1>3, <3>1, WithinRun DEF Undeleted
  <2> QED BY <1>1, <1>9, <1>10, <2>3, <2>4 DEF RunInv, Computes
<1>11. CASE left' # 0
  <2>1. Matched'
    <3>1. done' \subseteq Atomic!Completed(req)
      BY <1>1, <1>2, <1>5 DEF Matched
    <3>2. \A d \in done', t \in todo' : Before(Opposite(req.side), visible.hash, d, t)
      BY <1>1, <1>2, <1>3 DEF Matched, Reaches
    <3> QED BY <1>1, <1>2, <1>3, <1>7, <1>8, <3>1, <3>2, WithinRun DEF Matched
  <2> QED BY <1>1, <1>9, <1>11, <2>1 DEF RunInv, Computes
<1> QED BY <1>10, <1>11

\* The loop ends with nothing to match with.
LEMMA RunMatchEnd ==
  ASSUME ScriptInv, RunInv, MatchEnd
  PROVE  RunInv'
<1>1. /\ visible' = visible /\ req' = req /\ pc = "match" /\ pc' = "clean" /\ todo = {}
      /\ book' = book /\ hash' = hash /\ open' = open /\ seen' = seen
      /\ done' = done /\ listed' = done /\ left' = left /\ dollars' = dollars
  BY DEF MatchEnd, keys
<1>2. VisibleOK /\ Running /\ Shown /\ Matched
  BY <1>1 DEF RunInv, Computes, Running
<1>3. /\ hash = visible.hash /\ book = visible.book /\ open = visible.open
      /\ dollars = Volume(done) /\ left \in Nat
  BY <1>2 DEF Matched, ScriptInv, ScriptTypeOK
<1>4. /\ done = Atomic!Completed(req) /\ Atomic!Partial(req) = {}
      /\ Atomic!Unfilled(req) = left
  BY <1>1, <1>2, EndsEmpty
<1>5. VisibleOK' /\ Shown'
  BY <1>1, <1>2, WithinRun DEF Shown, Running, Reservable
<1>6. Settled'
  <2>1. (Atomic!Unlisted(done \ listed))' = Atomic!Unlisted({})
    <3>1. done' \ listed' = {}
      BY <1>1
    <3> QED BY <1>1, <1>2, <3>1, WithinRun
  <2>2. dollars' = Atomic!Dollars(req)
    BY <1>1, <1>2, <1>3, <1>4, DollarsAreVolume
  <2> QED BY <1>1, <1>2, <1>3, <1>4, <2>1, <2>2, WithinRun, NothingUnlisted DEF Settled
<1>7. Undeleted'
  <2>1. Atomic!Shrunk(req, visible.hash) = visible.hash
    <3>1. visible.hash = [p \in DOMAIN visible.hash |-> visible.hash[p]]
      BY <1>2 DEF VisibleOK
    <3> QED BY <1>4, <3>1 DEF Atomic!Shrunk
  <2> QED BY <1>1, <1>2, <1>3, <2>1, WithinRun DEF Undeleted
<1> QED BY <1>1, <1>5, <1>6, <1>7 DEF RunInv, Computes

\* One order more is out of its account's set.
LEMMA RunClean ==
  ASSUME ScriptInv, RunInv, NEW o \in OrderIds, Clean(o)
  PROVE  RunInv'
<1>1. /\ visible' = visible /\ req' = req /\ pc = "clean" /\ pc' = "clean"
      /\ book' = book /\ hash' = hash /\ seen' = seen
      /\ done' = done /\ listed' = listed \ {o} /\ left' = left /\ dollars' = dollars
      /\ open' = [open EXCEPT ![hash[o].account] = @ \ {o}] /\ o \in listed
  BY DEF Clean
<1>2. VisibleOK /\ Running /\ Shown /\ Settled /\ Undeleted
  BY <1>1 DEF RunInv, Computes, Running
<1>3. o \in done /\ o \in DOMAIN visible.hash
  <2>1. done \subseteq Sweep
    BY <1>2, SweepWords DEF Settled
  <2> QED BY <1>1, <1>2, <2>1, SweepFacts DEF ScriptInv, ScriptTypeOK
<1>4. hash[o].account = visible.hash[o].account /\ visible.hash[o].account \in Accounts
  <2>1. visible.hash[o] \in Resting
    BY <1>2, <1>3 DEF VisibleOK
  <2> QED BY <1>2, <1>3, <2>1 DEF Undeleted, Atomic!Shrunk, Resting
<1>5. open' = Atomic!Unlisted(done' \ listed')
  <2>1. done' \ listed' = (done \ listed) \cup {o}
    BY <1>1, <1>3
  <2>2. open = [c \in Accounts |->
                  visible.open[c] \ {p \in done \ listed : visible.hash[p].account = c}]
    BY <1>2 DEF Settled, Atomic!Unlisted
  <2>3. Atomic!Unlisted(done' \ listed') =
          [c \in Accounts |->
             visible.open[c] \ {p \in (done \ listed) \cup {o} : visible.hash[p].account = c}]
    BY <2>1 DEF Atomic!Unlisted
  <2>4. \A c \in Accounts : open'[c] = Atomic!Unlisted(done' \ listed')[c]
    <3> SUFFICES ASSUME NEW c \in Accounts
                 PROVE  open'[c] = Atomic!Unlisted(done' \ listed')[c]
      OBVIOUS
    <3>1. Atomic!Unlisted(done' \ listed')[c] =
            visible.open[c] \ {p \in (done \ listed) \cup {o} : visible.hash[p].account = c}
      BY <2>3
    <3>2. open[c] = visible.open[c] \ {p \in done \ listed : visible.hash[p].account = c}
      BY <2>2
    <3>3. CASE c = visible.hash[o].account
      <4>1. open'[c] = open[c] \ {o}
        BY <1>1, <1>4, <2>2, <3>3
      <4> QED BY <3>1, <3>2, <3>3, <4>1
    <3>4. CASE c # visible.hash[o].account
      <4>1. open'[c] = open[c]
        BY <1>1, <1>4, <2>2, <3>4
      <4> QED BY <3>1, <3>2, <3>4, <4>1
    <3> QED BY <3>3, <3>4
  <2>5. open' = [c \in Accounts |-> open'[c]]
    BY <1>1, <2>2
  <2> QED BY <2>3, <2>4, <2>5
<1>6. VisibleOK' /\ Shown'
  BY <1>1, <1>2, WithinRun DEF Shown, Running, Reservable
<1>7. Settled' /\ Undeleted'
  BY <1>1, <1>2, <1>5, WithinRun DEF Settled, Undeleted
<1> QED BY <1>1, <1>6, <1>7 DEF RunInv, Computes

\* With nothing completed there is nothing to remove.
LEMMA RunCleanEnd ==
  ASSUME ScriptInv, RunInv, CleanEnd
  PROVE  RunInv'
<1>1. /\ visible' = visible /\ req' = req /\ pc = "clean" /\ listed = {}
      /\ book' = book /\ hash' = hash /\ open' = open /\ seen' = seen
      /\ done' = done /\ listed' = listed /\ left' = left /\ dollars' = dollars
      /\ pc' = IF done = {} THEN "insert" ELSE "remove"
  BY DEF CleanEnd, keys, locals
<1>2. VisibleOK /\ Running /\ Running' /\ Shown /\ Settled /\ Undeleted
  BY <1>1 DEF RunInv, Computes, Running
<1>3. VisibleOK' /\ Shown' /\ Settled'
  BY <1>1, <1>2, WithinRun, AfterLoops
<1>4. CASE done # {}
  <2>1. Undeleted'
    BY <1>1, <1>2, WithinRun DEF Undeleted
  <2> QED BY <1>1, <1>3, <1>4, <2>1 DEF RunInv, Computes
<1>5. CASE done = {}
  <2>1. Unpacked'
    BY <1>1, <1>5, FS_EmptySet, UnpackAssumption DEF Unpacked
  <2>2. book = BookLeft
    BY <1>2, <1>5 DEF Undeleted, VisibleOK, BookLeft
  <2>3. [o \in DOMAIN visible.hash \ done |-> visible.hash[o]] = visible.hash
    BY <1>2, <1>5 DEF VisibleOK
  <2>4. hash = HashLeft
    BY <1>2, <2>3 DEF Undeleted, HashLeft
  <2>5. book' = BookLeft' /\ hash' = HashLeft'
    BY <1>1, <1>2, <2>2, <2>4, AfterLoops
  <2> QED BY <1>1, <1>3, <1>5, <2>1, <2>5 DEF RunInv, Computes
<1> QED BY <1>4, <1>5

\* The completed orders leave the book.
LEMMA RunRemove ==
  ASSUME ScriptInv, RunInv, Remove
  PROVE  RunInv'
<1>1. /\ visible' = visible /\ req' = req /\ pc = "remove" /\ pc' = "delete"
      /\ hash' = hash /\ open' = open /\ seen' = seen
      /\ done' = done /\ listed' = listed /\ left' = left /\ dollars' = dollars
      /\ Cardinality(done) <= UnpackLimit
      /\ book' = [book EXCEPT ![req.asset][Opposite(req.side)] = @ \ done]
  BY DEF Remove, locals
<1>2. VisibleOK /\ Running /\ Running' /\ Shown /\ Settled /\ Undeleted /\ listed = {}
  BY <1>1 DEF RunInv, Computes, Running, ScriptInv, Cleaned
<1>3. VisibleOK' /\ Shown' /\ Settled'
  BY <1>1, <1>2, WithinRun, AfterLoops
<1>4. Unpacked'
  BY <1>1, <1>2 DEF Unpacked
<1>5. book' = BookLeft'
  BY <1>1, <1>2, AfterLoops DEF Undeleted, BookLeft
<1>6. hash' = (Atomic!Shrunk(req, visible.hash))'
  BY <1>1, <1>2, WithinRun DEF Undeleted
<1> QED BY <1>1, <1>3, <1>4, <1>5, <1>6 DEF RunInv, Computes

\* Their hashes go.
LEMMA RunDelete ==
  ASSUME ScriptInv, RunInv, Delete
  PROVE  RunInv'
<1>1. /\ visible' = visible /\ req' = req /\ pc = "delete" /\ pc' = "insert"
      /\ book' = book /\ open' = open /\ seen' = seen
      /\ done' = done /\ listed' = listed /\ left' = left /\ dollars' = dollars
      /\ hash' = [o \in DOMAIN hash \ done |-> hash[o]]
  BY DEF Delete, locals
<1>2. /\ VisibleOK /\ Running /\ Running' /\ Shown /\ Settled /\ Unpacked
      /\ book = BookLeft /\ hash = Atomic!Shrunk(req, visible.hash)
  BY <1>1 DEF RunInv, Computes, Running
<1>3. VisibleOK' /\ Shown' /\ Settled' /\ Unpacked'
  BY <1>1, <1>2, WithinRun, AfterLoops DEF Unpacked
<1>4. hash' = HashLeft
  BY <1>1, <1>2 DEF HashLeft, Atomic!Shrunk
<1>5. book' = BookLeft' /\ hash' = HashLeft'
  BY <1>1, <1>2, <1>4, AfterLoops
<1> QED BY <1>1, <1>3, <1>5 DEF RunInv, Computes

\* The newcomer enters its book, and then gets its hash.
LEMMA RunInsert ==
  ASSUME ScriptInv, RunInv, Insert
  PROVE  RunInv'
<1>1. /\ visible' = visible /\ req' = req /\ pc = "insert" /\ pc' = "store"
      /\ hash' = hash /\ open' = open /\ seen' = seen
      /\ done' = done /\ listed' = listed /\ left' = left /\ dollars' = dollars
      /\ book' = [book EXCEPT ![req.asset][req.side] = @ \cup {req.id}]
  BY DEF Insert, locals
<1>2. /\ VisibleOK /\ Running /\ Running' /\ Shown /\ Settled /\ Unpacked
      /\ book = BookLeft /\ hash = HashLeft
  BY <1>1 DEF RunInv, Computes, Running
<1>3. VisibleOK' /\ Shown' /\ Settled' /\ Unpacked'
  BY <1>1, <1>2, WithinRun, AfterLoops DEF Unpacked
<1>4. book' = BookWith
  BY <1>1, <1>2 DEF BookWith
<1>5. book' = BookWith' /\ hash' = HashLeft'
  BY <1>1, <1>2, <1>4, AfterLoops
<1> QED BY <1>1, <1>3, <1>5 DEF RunInv, Computes

LEMMA RunStore ==
  ASSUME ScriptInv, RunInv, Store
  PROVE  RunInv'
<1>1. /\ visible' = visible /\ req' = req /\ pc = "store" /\ pc' = "list"
      /\ book' = book /\ open' = open /\ seen' = seen
      /\ done' = done /\ listed' = listed /\ left' = left /\ dollars' = dollars
      /\ hash' = [o \in DOMAIN hash \cup {req.id} |-> IF o = req.id THEN Remainder ELSE hash[o]]
  BY DEF Store, locals
<1>2. /\ VisibleOK /\ Running /\ Running' /\ Shown /\ Settled /\ Unpacked
      /\ book = BookWith /\ hash = HashLeft
  BY <1>1 DEF RunInv, Computes, Running
<1>3. VisibleOK' /\ Shown' /\ Settled' /\ Unpacked'
  BY <1>1, <1>2, WithinRun, AfterLoops DEF Unpacked
<1>4. hash' = HashWith
  BY <1>1, <1>2 DEF HashWith
<1>5. book' = BookWith' /\ hash' = HashWith'
  BY <1>1, <1>2, <1>4, AfterLoops
<1> QED BY <1>1, <1>3, <1>5 DEF RunInv, Computes

\* When a run returns, its keys are those of a book at rest.
LEMMA RunReturn ==
  ASSUME ScriptInv, ScriptInv', RunInv, Running, Return, seen' = seen
  PROVE  RunInv'
<1>1. /\ visible' = [book |-> book', hash |-> hash', open |-> open', seen |-> seen']
      /\ pc' = "idle"
  BY DEF Return
<1>2. IsFiniteSet(seen')
  BY FS_AddElement DEF RunInv, VisibleOK, Shown
<1>3. VisibleOK'
  BY <1>1, <1>2 DEF VisibleOK, ScriptInv, ScriptTypeOK, Agreement, Agree
<1>4. Shown' /\ Computes'
  BY <1>1 DEF Shown, Computes, Running
<1> QED BY <1>3, <1>4 DEF RunInv

\* Every call keeps the invariant.
LEMMA RunStep ==
  ASSUME ScriptInv, RunInv, [ScriptNext]_scriptVars
  PROVE  RunInv'
<1>1. ScriptInv'
  BY InvStep
<1>2. CASE UNCHANGED scriptVars
  <2>1. /\ visible' = visible /\ req' = req /\ pc' = pc /\ book' = book /\ hash' = hash
        /\ open' = open /\ seen' = seen /\ todo' = todo /\ done' = done /\ listed' = listed
        /\ left' = left /\ dollars' = dollars
    BY <1>2 DEF scriptVars, keys, locals
  <2>2. VisibleOK' /\ Shown'
    BY <2>1, WithinRun DEF RunInv, Shown, Running, Reservable
  <2>3. /\ Matched => Matched'
        /\ Settled => Settled'
        /\ Undeleted => Undeleted'
        /\ Unpacked => Unpacked'
        /\ (Atomic!Shrunk(req, visible.hash))' = Atomic!Shrunk(req, visible.hash)
        /\ BookLeft' = BookLeft /\ HashLeft' = HashLeft
        /\ BookWith' = BookWith /\ HashWith' = HashWith
    BY <2>1, WithinRun, AfterLoops DEF RunInv, Matched, Settled, Undeleted, Unpacked
  <2> QED BY <2>1, <2>2, <2>3 DEF RunInv, Computes
<1>3. CASE Abort
  BY <1>1, <1>3, RunReturn DEF Abort, Running, keys
<1>4. CASE List
  BY <1>1, <1>4, RunReturn DEF List, Running
<1>5. CASE Finish
  BY <1>1, <1>5, RunReturn DEF Finish, Running, keys
<1> QED BY <1>2, <1>3, <1>4, <1>5, RunStart, RunMatchPartially, RunMatchWhole, RunMatchEnd,
        RunClean, RunCleanEnd, RunRemove, RunDelete, RunInsert, RunStore DEF ScriptNext

-----------------------------------------------------------------------------

\* The two copies of Cardinality agree.
LEMMA AtomicCardinality ==
  \A S : Atomic!Cardinality(S) = Cardinality(S)
BY DEF Cardinality, Atomic!Cardinality

\* An abort is OrderBook's abort.
LEMMA AbortImplements ==
  ASSUME RunInv, ScriptInv, Abort
  PROVE  Atomic!AbortOrder(req)
<1>1. /\ pc = "remove" /\ Cardinality(done) > UnpackLimit
      /\ reply' = [NoReply EXCEPT !.error = TRUE]
      /\ visible' = [book |-> book, hash |-> hash, open |-> open, seen |-> seen]
  BY DEF Abort, Return, keys
<1>2. Running /\ Settled /\ Undeleted /\ Shown /\ listed = {}
  BY <1>1 DEF RunInv, Computes, Running, ScriptInv, Cleaned
<1>3. /\ visible'.book = visible.book
      /\ visible'.hash = Atomic!Shrunk(req, visible.hash)
      /\ visible'.open = Atomic!Unlisted(Atomic!Completed(req))
      /\ visible'.seen = visible.seen \cup {req.id} /\ req.id \notin visible.seen
      /\ Cardinality(Atomic!Completed(req)) > UnpackLimit
  BY <1>1, <1>2 DEF Settled, Undeleted, Shown
<1>4. reply' = Atomic!Failure
  BY <1>1 DEF NoReply, Atomic!Failure, Atomic!NoReply
<1> QED BY <1>3, <1>4, AtomicCardinality DEF Atomic!AbortOrder

\* A run that ends with these keys and this answer is OrderBook's run.
LEMMA EndIsExecution ==
  ASSUME RunInv, ScriptInv, Running, Settled, Unpacked, reply' = Answer,
         visible'.book = (IF Rests THEN BookWith ELSE BookLeft),
         visible'.hash = (IF Rests THEN HashWith ELSE HashLeft),
         visible'.open = (IF Rests THEN [open EXCEPT ![req.account] = @ \cup {req.id}] ELSE open),
         visible'.seen = seen
  PROVE  Atomic!ExecuteOrder(req)
<1> DEFINE kept == Atomic!Shrunk(req, [o \in DOMAIN visible.hash \ Atomic!Completed(req) |->
                                         visible.hash[o]])
           resting == [account |-> req.account, asset |-> req.asset, price |-> req.price,
                       size |-> Atomic!Unfilled(req), original |-> req.size,
                       dollars |-> Atomic!Dollars(req)]
           new == IF Atomic!Rests(req) THEN {req.id} ELSE {}
<1>1. VisibleOK /\ Shown
  BY DEF RunInv
<1>2. /\ done = Atomic!Completed(req) /\ dollars = Atomic!Dollars(req)
      /\ left = IF Atomic!Unfilled(req) > 0 THEN Atomic!Unfilled(req) ELSE 0
      /\ open = Atomic!Unlisted(Atomic!Completed(req))
      /\ Cardinality(Atomic!Completed(req)) <= UnpackLimit
  BY DEF Settled, Unpacked
<1>3. HashLeft = kept
  BY <1>2 DEF HashLeft
<1>4. /\ req \in Requests /\ req.size \in Nat /\ req.asset \in Assets /\ req.side \in Books
      /\ req.account \in Accounts
      /\ Opposite(req.side) \in Books /\ Opposite(req.side) # req.side
  BY <1>1, SweepFacts, RequestType, OppositeType
<1>5. Atomic!Unfilled(req) \in Int /\ Atomic!Unfilled(req) <= req.size
  <2>1. Atomic!Unfilled(req) = req.size - Atomic!SumSizes(Sweep)
    BY SweepWords
  <2>2. Atomic!SumSizes(Sweep) \in Nat
    BY <1>1, SweepFacts, VisibleSums
  <2> QED BY <1>4, <2>1, <2>2
<1>6. Atomic!Rests(req) <=> Rests
  BY <1>2, <1>4, <1>5 DEF Atomic!Rests, Rests
<1>7. Rests => Remainder = resting
  BY <1>2, <1>5 DEF Remainder, Rests
<1>8. visible'.hash = [o \in DOMAIN kept \cup new |-> IF o \in new THEN resting ELSE kept[o]]
  <2>1. CASE Rests
    <3>1. visible'.hash = [o \in DOMAIN kept \cup {req.id} |->
                             IF o = req.id THEN resting ELSE kept[o]]
      BY <1>3, <1>7, <2>1 DEF HashWith
    <3> HIDE DEF kept, resting
    <3> QED BY <1>6, <2>1, <3>1
  <2>2. CASE ~Rests
    <3>1. kept = [o \in DOMAIN kept |-> kept[o]]
      BY DEF Atomic!Shrunk
    <3> HIDE DEF kept, resting
    <3> QED BY <1>3, <1>6, <2>2, <3>1
  <2> QED BY <2>1, <2>2
<1>9. visible'.book = [visible.book EXCEPT ![req.asset] =
                         [s \in Books |-> IF s = req.side THEN @[s] \cup new
                                                    ELSE @[s] \ Atomic!Completed(req)]]
  <2>1. \A s \in Books : s = req.side \/ s = Opposite(req.side)
    BY <1>4 DEF Books, Opposite
  <2>2. visible.book \in [Assets -> [Books -> SUBSET OrderIds]]
    BY <1>1 DEF VisibleOK
  <2> HIDE DEF kept, resting, new
  <2> DEFINE after == [s \in Books |-> IF s = req.side
                         THEN visible.book[req.asset][s] \cup new
                         ELSE visible.book[req.asset][s] \ Atomic!Completed(req)]
             whole == [Assets -> [Books -> SUBSET (OrderIds \cup {req.id})]]
  <2>3. /\ BookLeft \in whole
        /\ \A a \in Assets : a # req.asset => BookLeft[a] = visible.book[a]
        /\ BookLeft[req.asset][req.side] = visible.book[req.asset][req.side]
        /\ BookLeft[req.asset][Opposite(req.side)]
             = visible.book[req.asset][Opposite(req.side)] \ Atomic!Completed(req)
    BY <1>2, <1>4, <2>2 DEF BookLeft
  <2>4. /\ BookWith \in whole
        /\ \A a \in Assets : a # req.asset => BookWith[a] = BookLeft[a]
        /\ BookWith[req.asset][req.side] = BookLeft[req.asset][req.side] \cup {req.id}
        /\ BookWith[req.asset][Opposite(req.side)] = BookLeft[req.asset][Opposite(req.side)]
    BY <1>4, <2>3 DEF BookWith
  <2>5. /\ visible'.book \in whole
        /\ \A a \in Assets : a # req.asset => visible'.book[a] = visible.book[a]
        /\ visible'.book[req.asset][req.side] = visible.book[req.asset][req.side] \cup new
        /\ visible'.book[req.asset][Opposite(req.side)]
             = visible.book[req.asset][Opposite(req.side)] \ Atomic!Completed(req)
    <3>1. CASE Rests
      BY <1>6, <2>3, <2>4, <3>1 DEF new
    <3>2. CASE ~Rests
      BY <1>6, <2>3, <3>2 DEF new
    <3> QED BY <3>1, <3>2
  <2>6. visible'.book[req.asset] = after
    <3>1. visible'.book[req.asset] = [s \in Books |-> visible'.book[req.asset][s]]
      BY <1>4, <2>5
    <3> QED BY <2>1, <2>5, <3>1, <1>4
  <2> HIDE DEF after
  <2>7. visible'.book = [visible.book EXCEPT ![req.asset] = after]
    BY <1>4, <2>2, <2>5, <2>6
  <2> QED BY <2>7 DEF after
<1>10. visible'.open = [Atomic!Unlisted(Atomic!Completed(req)) EXCEPT ![req.account] = @ \cup new]
  <2>1. open = [c \in Accounts |-> open[c]]
    BY DEF ScriptInv, ScriptTypeOK
  <2> QED BY <1>2, <1>6, <2>1
<1>11. reply' = [error |-> FALSE, shares |-> Atomic!Filled(req), dollars |-> Atomic!Dollars(req),
                 completed |-> Atomic!Completed(req)]
  <2>1. Atomic!Max({0, Atomic!Unfilled(req)}) = left
    BY <1>2, <1>5 DEF Atomic!Max
  <2> QED BY <1>2, <2>1 DEF Atomic!Filled, Answer
<1>12. /\ req.id \notin visible.seen
       /\ visible'.seen = visible.seen \cup {req.id}
  BY <1>1 DEF Shown
<1> HIDE DEF kept, resting, new
<1> QED BY <1>2, <1>8, <1>9, <1>10, <1>11, <1>12, AtomicCardinality
    DEF Atomic!ExecuteOrder, kept, resting, new, Books, Atomic!Books

\* A run ends so when the newcomer is listed, or when nothing comes to rest.
LEMMA EndImplements ==
  ASSUME RunInv, ScriptInv, List \/ Finish
  PROVE  Atomic!ExecuteOrder(req)
<1>1. CASE List
  <2>1. /\ pc = "list" /\ reply' = Answer /\ book' = book /\ hash' = hash /\ seen' = seen
        /\ open' = [open EXCEPT ![req.account] = @ \cup {req.id}]
        /\ visible' = [book |-> book', hash |-> hash', open |-> open', seen |-> seen']
    BY <1>1 DEF List, Return
  <2>2. Running /\ Rests /\ Settled /\ Unpacked /\ book = BookWith /\ hash = HashWith
    BY <2>1 DEF RunInv, Computes, Running, ScriptInv, Frame
  <2> QED BY <2>1, <2>2, EndIsExecution
<1>2. CASE Finish
  <2>1. /\ pc = "insert" /\ ~Rests /\ reply' = Answer
        /\ visible' = [book |-> book, hash |-> hash, open |-> open, seen |-> seen]
    BY <1>2 DEF Finish, Return, keys
  <2>2. Running /\ Settled /\ Unpacked /\ book = BookLeft /\ hash = HashLeft
    BY <2>1 DEF RunInv, Computes, Running
  <2> QED BY <2>1, <2>2, EndIsExecution
<1> QED BY <1>1, <1>2

\* What a run may ask for is what OrderBook's commands may ask for.
LEMMA AtomicRequests ==
  /\ Atomic!Requests = Requests
  /\ \A r : Atomic!Reservable(r) = Reservable(r)
BY DEF Requests, Atomic!Requests, Books, Atomic!Books, Reservable, Atomic!Reservable

\* Every call of a run is invisible, save the last, which is the whole command.
LEMMA ScriptImplements ==
  ASSUME ScriptInv, RunInv, [ScriptNext]_scriptVars
  PROVE  [Atomic!BookNext]_(Atomic!bookVars)
<1> USE DEF Atomic!bookVars
<1>1. CASE UNCHANGED scriptVars
  BY <1>1 DEF scriptVars
<1>2. ASSUME NEW r \in Requests, Start(r)
      PROVE  UNCHANGED <<visible, reply>>
  BY <1>2 DEF Start
<1>3. ASSUME NEW o \in OrderIds, MatchPartially(o) \/ MatchWhole(o) \/ Clean(o)
      PROVE  UNCHANGED <<visible, reply>>
  BY <1>3 DEF MatchPartially, MatchWhole, Clean
<1>4. CASE MatchEnd \/ CleanEnd \/ Remove \/ Delete \/ Insert \/ Store
  BY <1>4 DEF MatchEnd, CleanEnd, Remove, Delete, Insert, Store
<1>5. CASE Abort \/ List \/ Finish
  <2>1. Running /\ req \in Requests /\ Reservable(req)
    BY <1>5 DEF Abort, List, Finish, Running, ScriptInv, ScriptTypeOK, RunInv, Shown
  <2>2. Atomic!SubmitOrder(req)
    BY <1>5, AbortImplements, EndImplements DEF Atomic!SubmitOrder
  <2> QED BY <2>1, <2>2, AtomicRequests DEF Atomic!BookNext
<1> QED BY <1>1, <1>2, <1>3, <1>4, <1>5 DEF ScriptNext

\* Seen by the other commands of Redis, the loops of order.lua are one step that
\* computes the closed form, for any book, any sizes and any bound of unpack.
THEOREM ScriptRunsAtomically == ScriptSpec => RunsAtomically
<1>1. ScriptInit => Atomic!BookInit
  BY DEF ScriptInit, NoReply, Books, Atomic!BookInit, Atomic!NoReply, Atomic!Books
<1>2. ScriptInv /\ RunInv /\ [ScriptNext]_scriptVars => RunInv'
  BY RunStep
<1>3. ScriptInv /\ RunInv /\ [ScriptNext]_scriptVars => [Atomic!BookNext]_(Atomic!bookVars)
  BY ScriptImplements
<1> QED BY RunInit, InvAlways, <1>1, <1>2, <1>3, PTL
    DEF ScriptSpec, RunsAtomically, Atomic!BookSpec

=============================================================================
