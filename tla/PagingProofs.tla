---------------------------- MODULE PagingProofs ----------------------------
(***************************************************************************)
(* Listings under trading, for every instance of Paging: nobody who stays  *)
(* is skipped and what was shown was true, for any number of orders, any   *)
(* table and any trade between two pages.                                  *)
(***************************************************************************)
EXTENDS Paging, OrderBookProofs

\* What ShownIsReal says of a listing that need not be the current one.
Real(s) ==
  \A e \in s.shown :
    /\ e.id \in seen
    /\ e.id \in DOMAIN hash =>
         /\ hash[e.id].price = e.price /\ hash[e.id].size <= e.size
         /\ IF s.key \in Accounts THEN hash[e.id].account = s.key
                                  ELSE e.id \in Members(s.key)
    /\ e.id \in DOMAIN s.stayed => e.size <= s.stayed[e.id]

\* Whoever is there since the start and has a slot below c has been shown.
ShownBelow(s, c) ==
  \A o \in DOMAIN s.stayed : Slot[o] < c => \E e \in s.shown : e.id = o

\* Its key, what its ghost remembers, and its entries.
Sound(s) ==
  /\ s = [key |-> s.key, cursor |-> s.cursor, shown |-> s.shown, stayed |-> s.stayed]
  /\ s.key \in Keys
  /\ DOMAIN s.stayed \subseteq Members(s.key)
  /\ \A o \in DOMAIN s.stayed : s.stayed[o] \in Nat /\ hash[o].size <= s.stayed[o]
  /\ \A e \in s.shown : e.size \in Nat
  /\ Real(s)

PagingInv ==
  /\ BookInv
  /\ large \subseteq Keys
  /\ scan.cursor \subseteq 1 .. Slots - 1
  /\ Sound(scan)
  /\ \A c \in scan.cursor : ShownBelow(scan, c)
  /\ NobodySkipped

-----------------------------------------------------------------------------

\* Members of a key are live orders with a slot.
LEMMA MembersLive ==
  ASSUME BookInv, NEW k \in Keys, NEW o \in Members(k)
  PROVE  /\ o \in DOMAIN hash /\ o \in seen /\ o \in OrderIds
         /\ hash[o].size \in Nat
         /\ k \in Accounts => hash[o].account = k
         /\ Slot[o] \in Nat /\ Slot[o] < Slots
  <1>1. o \in DOMAIN hash /\ (k \in Accounts => hash[o].account = k)
    BY DEF Keys, Members, BookInv, StoresAgree, Agree
  <1>2. hash[o].size \in Nat
    BY <1>1 DEF BookInv, BookTypeOK, Resting
  <1>3. o \in seen /\ o \in OrderIds
    BY <1>1 DEF BookInv, BookTypeOK
  <1>4. Slot[o] \in Nat /\ Slot[o] < Slots
    BY <1>3, PagingAssumption
  <1> QED
    BY <1>1, <1>2, <1>3, <1>4

\* A page keeps a listing sound, and shows all below the cursor it returns.
LEMMA PageKeeps ==
  ASSUME BookInv, large \subseteq Keys, NEW s, Sound(s),
         NEW c \in Nat, ShownBelow(s, c), Page(s, c)
  PROVE  PagingInv'
  <1>1. PICK next \in {0} \cup (c + 1 .. Slots - 1), ids \in SUBSET Members(s.key) :
          /\ ZScan(s.key, c, next, ids)
          /\ scan' = [s EXCEPT !.cursor = CursorField(next),
                               !.shown = @ \cup {Listed(o) : o \in ids}]
          /\ UNCHANGED <<bookVars, large>>
    BY DEF Page
  <1>2. /\ book' = book /\ hash' = hash /\ open' = open /\ seen' = seen /\ large' = large
        /\ BookInv' /\ large' \subseteq Keys
    BY <1>1 DEF bookVars, BookInv, BookTypeOK, Resting, StoresAgree, Agree
  <1>3. s = [key |-> s.key, cursor |-> s.cursor, shown |-> s.shown, stayed |-> s.stayed]
    BY DEF Sound
  <1>4. scan' = [key |-> s.key, cursor |-> CursorField(next),
                 shown |-> s.shown \cup {Listed(o) : o \in ids}, stayed |-> s.stayed]
    BY <1>1, <1>3
  <1>5. /\ scan'.key = s.key /\ scan'.cursor = CursorField(next) /\ scan'.stayed = s.stayed
        /\ scan'.shown = s.shown \cup {Listed(o) : o \in ids}
    BY <1>4
  <1>6. next \in Nat /\ CursorField(next) \subseteq 1 .. Slots - 1
        /\ \A d \in CursorField(next) : d = next /\ next # 0
    BY PagingAssumption DEF CursorField
  <1>7. s.key \in Keys
    BY DEF Sound
  <1>8. Members(s.key)' = Members(s.key) /\ Members(scan.key)' = Members(s.key)
    BY <1>2, <1>5 DEF Members
  <1>9. \A o \in ids : /\ Listed(o).id = o /\ Listed(o).price = hash[o].price
                       /\ Listed(o).size = hash[o].size
                       /\ o \in Members(s.key) /\ o \in DOMAIN hash /\ o \in seen
                       /\ hash[o].size \in Nat
                       /\ s.key \in Accounts => hash[o].account = s.key
    BY <1>7, MembersLive DEF Listed
  <1>10. Real(scan)'
    <2>1. ASSUME NEW e \in s.shown
          PROVE  /\ e.id \in seen
                 /\ e.id \in DOMAIN hash =>
                      /\ hash[e.id].price = e.price /\ hash[e.id].size <= e.size
                      /\ IF s.key \in Accounts THEN hash[e.id].account = s.key
                                               ELSE e.id \in Members(s.key)
                 /\ e.id \in DOMAIN s.stayed => e.size <= s.stayed[e.id]
      BY DEF Sound, Real
    <2>2. ASSUME NEW o \in ids
          PROVE  /\ Listed(o).id \in seen
                 /\ hash[Listed(o).id].price = Listed(o).price
                 /\ hash[Listed(o).id].size <= Listed(o).size
                 /\ IF s.key \in Accounts THEN hash[Listed(o).id].account = s.key
                                          ELSE Listed(o).id \in Members(s.key)
                 /\ Listed(o).id \in DOMAIN s.stayed => Listed(o).size <= s.stayed[Listed(o).id]
      BY <1>9 DEF Sound
    <2> QED
      BY <1>2, <1>5, <1>8, <2>1, <2>2 DEF Real
  <1>11. Sound(scan)'
    <2>1. \A e \in scan'.shown : e.size \in Nat
      BY <1>5, <1>9 DEF Sound
    <2>2. \A o \in DOMAIN s.stayed : s.stayed[o] \in Nat /\ hash[o].size <= s.stayed[o]
      BY DEF Sound
    <2>3. DOMAIN s.stayed \subseteq Members(s.key)
      BY DEF Sound
    <2>4. (scan = [key |-> scan.key, cursor |-> scan.cursor, shown |-> scan.shown,
                   stayed |-> scan.stayed])'
      BY <1>4
    <2>5. (scan.key \in Keys)'
      BY <1>5, <1>7 DEF Keys
    <2> QED
      BY <1>2, <1>5, <1>8, <1>10, <2>1, <2>2, <2>3, <2>4, <2>5 DEF Sound
  <1>12. ASSUME NEW o \in DOMAIN s.stayed, next = 0 \/ Slot[o] < next
         PROVE  \E e \in scan'.shown : e.id = o
    <2>1. o \in Members(s.key) /\ Slot[o] \in Nat
      BY <1>7, MembersLive DEF Sound
    <2>2. CASE Slot[o] < c
      BY <1>5, <2>2 DEF ShownBelow
    <2>3. CASE Slot[o] >= c
      <3>1. o \in ids
        BY <1>1, <1>12, <2>1, <2>3 DEF ZScan
      <3> QED
        BY <1>5, <1>9, <3>1
    <2> QED
      BY <2>1, <2>2, <2>3
  <1>13. (\A d \in scan.cursor : ShownBelow(scan, d))'
    BY <1>5, <1>6, <1>12 DEF ShownBelow
  <1>14. NobodySkipped'
    BY <1>5, <1>6, <1>12 DEF NobodySkipped, CursorField
  <1> QED
    BY <1>2, <1>5, <1>6, <1>11, <1>13, <1>14 DEF PagingInv

LEMMA ListKeeps ==
  ASSUME PagingInv, NEW k \in Keys, List(k)
  PROVE  PagingInv'
  <1>1. /\ Listing(k) = [key |-> k, cursor |-> {}, shown |-> {},
                         stayed |-> [o \in Members(k) |-> hash[o].size]]
        /\ BookInv /\ large \subseteq Keys
    BY DEF Listing, PagingInv
  <1>2. \A o \in Members(k) : hash[o].size \in Nat /\ Slot[o] \in Nat
    BY <1>1, MembersLive
  <1>3. Sound(Listing(k))
    BY <1>1, <1>2 DEF Sound, Real
  <1>4. ShownBelow(Listing(k), 0)
    BY <1>1, <1>2 DEF ShownBelow
  <1> QED
    BY <1>1, <1>3, <1>4, PageKeeps DEF List

LEMMA ContinueKeeps ==
  ASSUME PagingInv, Continue
  PROVE  PagingInv'
  <1>1. PICK c \in scan.cursor : Page(scan, c)
    BY DEF Continue
  <1>2. c \in Nat
    BY PagingAssumption DEF PagingInv
  <1> QED
    BY <1>1, <1>2, PageKeeps DEF PagingInv

\* An order that a command neither brings nor removes stays in the set it is in.
LEMMA StaysInBook ==
  ASSUME BookInv, BookInv', NEW r, Command(r), NEW a \in Assets, NEW t \in Books,
         NEW o \in book[a][t], o # r.id, o \in DOMAIN hash'
  PROVE  o \in book'[a][t]
  <1>1. hash[o].asset = a /\ o \notin book[a][Opposite(t)]
    <2>1. o \in DOMAIN hash /\ hash[o].asset = a
      BY DEF BookInv, StoresAgree, Agree
    <2>2. PICK u \in Books : o \in book[a][u] /\ o \notin book[a][Opposite(u)]
      BY <2>1 DEF BookInv, StoresAgree, Agree
    <2> QED
      BY <2>1, <2>2 DEF Books, Opposite
  <1>2. hash'[o].asset = a
    BY <1>1 DEF Command, Survives
  <1>3. PICK u \in Books : o \in book'[a][u]
    BY <1>2 DEF BookInv, StoresAgree, Agree
  <1>4. o \in book[a][u]
    BY <1>3 DEF Command
  <1> QED
    BY <1>1, <1>3, <1>4 DEF Books, Opposite

LEMMA TradeKeeps ==
  ASSUME PagingInv, Trade
  PROVE  PagingInv'
  <1> DEFINE k == scan.key
  <1>1. BookInv /\ Sound(scan) /\ k \in Keys /\ scan.cursor \subseteq 1 .. Slots - 1
    BY DEF PagingInv, Sound
  <1>2. PICK r \in Requests : SubmitOrder(r)
    BY DEF Trade, BookNext
  <1>3. BookInv' /\ Command(r) /\ r.id \notin seen /\ seen' = seen \cup {r.id}
    BY <1>1, <1>2, ExecuteStep, AbortStep DEF SubmitOrder, ExecuteOrder, AbortOrder
  <1>4. large' \subseteq Keys
    BY DEF Trade, Grown
  <1>5. /\ scan' = [key |-> k, cursor |-> scan.cursor, shown |-> scan.shown,
                    stayed |-> [o \in DOMAIN scan.stayed \cap Later[k] |-> scan.stayed[o]]]
        /\ scan'.key = k /\ scan'.cursor = scan.cursor /\ scan'.shown = scan.shown
        /\ DOMAIN scan'.stayed = DOMAIN scan.stayed \cap Later[k]
        /\ \A o \in DOMAIN scan'.stayed : scan'.stayed[o] = scan.stayed[o]
    BY <1>1 DEF Trade, Sound
  <1>6. Later[k] = Members(scan.key)'
    BY <1>1, <1>5 DEF Later, Members
  <1>7. \A o \in DOMAIN hash' : o # r.id => Survives(o)
    BY <1>3 DEF Command
  <1>8. Real(scan)'
    <2>1. SUFFICES ASSUME NEW e \in scan.shown
                   PROVE  /\ e.id \in seen'
                          /\ e.id \in DOMAIN hash' =>
                               /\ hash'[e.id].price = e.price /\ hash'[e.id].size <= e.size
                               /\ IF k \in Accounts THEN hash'[e.id].account = k
                                                    ELSE e.id \in Members(scan.key)'
                          /\ e.id \in DOMAIN scan'.stayed => e.size <= scan'.stayed[e.id]
      BY <1>5 DEF Real
    <2>2. /\ e.id \in seen /\ e.id # r.id /\ e.size \in Nat
          /\ e.id \in DOMAIN hash =>
               /\ hash[e.id].price = e.price /\ hash[e.id].size <= e.size
               /\ IF k \in Accounts THEN hash[e.id].account = k ELSE e.id \in Members(k)
          /\ e.id \in DOMAIN scan.stayed => e.size <= scan.stayed[e.id]
      BY <1>1, <1>3 DEF Sound, Real
    <2>3. ASSUME e.id \in DOMAIN hash'
          PROVE  /\ hash'[e.id].price = e.price /\ hash'[e.id].size <= e.size
                 /\ IF k \in Accounts THEN hash'[e.id].account = k
                                      ELSE e.id \in Members(scan.key)'
      <3>1. Survives(e.id)
        BY <1>7, <2>2, <2>3
      <3>2. hash[e.id].size \in Nat /\ hash'[e.id].size \in Nat
        BY <1>1, <1>3, <2>3, <3>1 DEF BookInv, BookTypeOK, Resting, Survives
      <3>3. hash'[e.id].price = e.price /\ hash'[e.id].size <= e.size
        BY <2>2, <3>1, <3>2 DEF Survives
      <3>4. CASE k \in Accounts
        BY <2>2, <3>1, <3>3, <3>4 DEF Survives
      <3>5. CASE k \notin Accounts
        <4>1. k[1] \in Assets /\ k[2] \in Books /\ e.id \in book[k[1]][k[2]]
          BY <1>1, <2>2, <3>1, <3>5 DEF Keys, Members, Survives
        <4>2. e.id \in book'[k[1]][k[2]]
          BY <1>1, <1>3, <2>2, <2>3, <4>1, StaysInBook
        <4> QED
          BY <1>5, <3>3, <3>5, <4>2 DEF Members
      <3> QED
        BY <3>4, <3>5
    <2> QED
      BY <1>3, <1>5, <2>2, <2>3
  <1>9. Sound(scan)'
    <2>1. ASSUME NEW o \in DOMAIN scan'.stayed
          PROVE  scan'.stayed[o] \in Nat /\ hash'[o].size <= scan'.stayed[o]
      <3>1. /\ o \in DOMAIN scan.stayed /\ scan'.stayed[o] = scan.stayed[o]
            /\ scan.stayed[o] \in Nat /\ hash[o].size <= scan.stayed[o]
            /\ o \in Members(k)
        BY <1>1, <1>5 DEF Sound
      <3>2. o \in DOMAIN hash' /\ o \in seen
        BY <1>1, <1>3, <1>5, <1>6, <3>1, MembersLive DEF Keys, Members, BookInv, StoresAgree, Agree
      <3>3. Survives(o)
        BY <1>3, <1>7, <3>2
      <3>4. hash[o].size \in Nat /\ hash'[o].size \in Nat
        BY <1>1, <1>3, <3>2, <3>3 DEF BookInv, BookTypeOK, Resting, Survives
      <3> QED
        BY <3>1, <3>3, <3>4 DEF Survives
    <2>2. DOMAIN scan'.stayed \subseteq Members(scan.key)'
      BY <1>5, <1>6
    <2>3. \A e \in scan'.shown : e.size \in Nat
      BY <1>1, <1>5 DEF Sound
    <2>4. (scan = [key |-> scan.key, cursor |-> scan.cursor, shown |-> scan.shown,
                   stayed |-> scan.stayed])'
      BY <1>5
    <2>5. (scan.key \in Keys)'
      BY <1>1, <1>5 DEF Keys
    <2> QED
      BY <1>8, <2>1, <2>2, <2>3, <2>4, <2>5 DEF Sound
  <1>10. (\A c \in scan.cursor : ShownBelow(scan, c))'
    BY <1>5 DEF PagingInv, ShownBelow
  <1>11. NobodySkipped'
    BY <1>5 DEF PagingInv, NobodySkipped
  <1> QED
    BY <1>1, <1>3, <1>4, <1>5, <1>9, <1>10, <1>11 DEF PagingInv

LEMMA PagingInvInit == PagingInit => PagingInv
  <1> SUFFICES ASSUME PagingInit PROVE PagingInv
    OBVIOUS
  <1>1. BookInv
    BY BookInvInit DEF PagingInit
  <1>2. PICK k \in Keys : scan = Listing(k)
    BY DEF PagingInit
  <1>3. Members(k) = {}
    BY DEF PagingInit, BookInit, Keys, Members
  <1> QED
    BY <1>1, <1>2, <1>3 DEF PagingInit, PagingInv, Sound, Real, Listing, NobodySkipped

LEMMA PagingInvStep == PagingInv /\ [PagingNext]_pagingVars => PagingInv'
  <1> SUFFICES ASSUME PagingInv, [PagingNext]_pagingVars PROVE PagingInv'
    OBVIOUS
  <1>1. CASE UNCHANGED pagingVars
    <2>1. BookInv'
      BY <1>1, BookInvStep DEF pagingVars, PagingInv
    <2> QED
      BY <1>1, <2>1 DEF pagingVars, bookVars, PagingInv, Sound, Real, ShownBelow,
                        NobodySkipped, Members, Keys
  <1> QED
    BY <1>1, ListKeeps, ContinueKeeps, TradeKeeps DEF PagingNext

\* The strengthening holds in every reachable state of Paging.
THEOREM PagingInvariant == PagingSpec => []PagingInv
  BY PagingInvInit, PagingInvStep, PTL DEF PagingSpec

-----------------------------------------------------------------------------
\* A listing keeps its type, whatever trades between its pages.
THEOREM PagingTypeCorrect == PagingSpec => []PagingTypeOK
  <1>1. PagingInv => PagingTypeOK
    BY DEF PagingInv, PagingTypeOK, Sound
  <1> QED
    BY <1>1, PagingInvariant, PTL

\* Whoever rests through a whole listing is on one of its pages, for any number of
\* orders and pages and any trade between them.
THEOREM NobodyEverSkipped == PagingSpec => []NobodySkipped
  <1>1. PagingInv => NobodySkipped
    BY DEF PagingInv
  <1> QED
    BY <1>1, PagingInvariant, PTL

\* What a listing has shown is the price of the order and a size between the one it
\* had at the start and the one that is left.
THEOREM ShownAlwaysReal == PagingSpec => []ShownIsReal
  <1>1. PagingInv => ShownIsReal
    BY DEF PagingInv, Sound, Real, ShownIsReal
  <1> QED
    BY <1>1, PagingInvariant, PTL
=============================================================================
