------------------------------- MODULE Paging -------------------------------
(***************************************************************************)
(* The two listings, of a book and of an account's orders.  Both read a    *)
(* sorted set of Redis page by page with ZSCAN and the hash of each member *)
(* in the same script, so a page is one step; between the pages the book   *)
(* goes on trading.  Redis keeps a small set in a list that one page holds *)
(* and a large one in a hash table, which a page leaves at any slot.       *)
(***************************************************************************)
EXTENDS OrderBook

CONSTANTS
  ListpackLimit,   \* members a sorted set may have and stay a list (128)
  Slots,           \* the size of the hash table
  Slot             \* order id -> its place there

ASSUME PagingAssumption == Slots \in Nat \ {0} /\ Slot \in [OrderIds -> 0 .. Slots - 1]

VARIABLES
  large,   \* the keys whose sorted set is a hash table
  scan     \* a client's listing: key, cursor of the next page, entries shown so
           \* far, and size at its start of every order that was there ever since

pagingVars == <<bookVars, large, scan>>

\* <asset>_<book>, or the id of an account.
Keys == (Assets \X Books) \cup Accounts

Members(k) == IF k \in Accounts THEN open[k] ELSE book[k[1]][k[2]]

\* ZSCAN k c returns the members in ids and the cursor next.  Resizing the table
\* between two pages may make it return a member again.
ZScan(k, c, next, ids) ==
  IF k \notin large
    THEN next = 0 /\ ids = Members(k)
    ELSE /\ ids \subseteq Members(k)
         /\ \A o \in Members(k) :
              Slot[o] >= c /\ (next = 0 \/ Slot[o] < next) => o \in ids

\* The sorted sets once a command is done.
Later == [k \in Keys |-> Members(k)']

\* A set becomes a table when it outgrows the list, and a list when it is emptied,
\* even if the same script then adds to it.
Grown ==
  {k \in Keys : \/ k \in large /\ Members(k) \cap Later[k] # {}
                \/ Cardinality(Later[k]) > ListpackLimit}

-----------------------------------------------------------------------------

\* Mutant of Listed: the size the order came with is read.
ListedAsPlaced(o) == [id |-> o, price |-> hash[o].price, size |-> hash[o].original]

\* What a page shows of an order, with the order's id, which the replies of both
\* listings leave out, to tell whose entry it is.
Listed(o) == [id |-> o, price |-> hash[o].price, size |-> hash[o].size]

\* Mutants of CursorField: a 0 is sent as well; the last slot needs no page.
CursorFieldAlways(next) == {next}

CursorFieldEarly(next) == {next} \cap 1 .. Slots - 2

\* The field cursor of a reply, left out when ZSCAN says 0: an option is a set.
CursorField(next) == {next} \ {0}

Page(s, c) ==
  \E next \in {0} \cup (c + 1 .. Slots - 1), ids \in SUBSET Members(s.key) :
    /\ ZScan(s.key, c, next, ids)
    /\ scan' = [s EXCEPT !.cursor = CursorField(next),
                         !.shown = @ \cup {Listed(o) : o \in ids}]
    /\ UNCHANGED <<bookVars, large>>

\* What a client has of a listing before its first page.
Listing(k) == [key |-> k, cursor |-> {}, shown |-> {},
               stayed |-> [o \in Members(k) |-> hash[o].size]]

\* The first page is asked for without a cursor.
List(k) == Page(Listing(k), 0)

Continue == \E c \in scan.cursor : Page(scan, c)

Trade ==
  /\ BookNext
  /\ large' = Grown
  /\ scan' = [scan EXCEPT !.stayed =
                [o \in DOMAIN @ \cap Later[scan.key] |-> @[o]]]

PagingInit ==
  /\ BookInit
  /\ large = {}
  /\ scan \in {Listing(k) : k \in Keys}

PagingNext == Trade \/ Continue \/ \E k \in Keys : List(k)

PagingSpec == PagingInit /\ [][PagingNext]_pagingVars

-----------------------------------------------------------------------------
(***************************************************************************)
(* Properties                                                              *)
(***************************************************************************)

\* The types of the listing, and where its ghost looks.
PagingTypeOK ==
  /\ large \subseteq Keys
  /\ scan.key \in Keys
  /\ scan.cursor \subseteq 1 .. Slots - 1
  /\ DOMAIN scan.stayed \subseteq Members(scan.key)

\* A listing is no snapshot, but it skips nobody: whoever follows the cursor of
\* get_order_book or list_orders_for_account to the last page was shown every
\* order that was in the set from the first page on.
NobodySkipped ==
  scan.cursor = {} => \A o \in DOMAIN scan.stayed : \E e \in scan.shown : e.id = o

\* What was shown was true in the meantime, though the sweeps go on between pages: an
\* order that still rests belongs to the listing, has the price it was shown with
\* and no more than the size; and if it was there from the start, it was shown with
\* no more than it had then.
ShownIsReal ==
  \A e \in scan.shown :
    /\ e.id \in seen
    /\ e.id \in DOMAIN hash =>
         /\ hash[e.id].price = e.price /\ hash[e.id].size <= e.size
         /\ IF scan.key \in Accounts THEN hash[e.id].account = scan.key
                                     ELSE e.id \in Members(scan.key)
    /\ e.id \in DOMAIN scan.stayed => e.size <= scan.stayed[e.id]
=============================================================================
