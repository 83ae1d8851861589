---------------------------- MODULE AssetsProofs ----------------------------
(***************************************************************************)
(* The asset catalogue gives every asset an id of its own and implements   *)
(* the atomic catalogue, for any tickers, terms and batches.  What holds   *)
(* of the atomic catalogue is then inherited.                              *)
(***************************************************************************)
EXTENDS Assets, TLAPS

(***************************************************************************)
(* The strengthening.  The rows of a running statement are the items it    *)
(* has placed, one row each; and a unique index keeps the items of running *)
(* statements apart from those of each other and from what is committed.   *)
(***************************************************************************)
Shaped(b) ==
  inflight[b] = [table |-> inflight[b].table, items |-> inflight[b].items,
                 placed |-> inflight[b].placed, rows |-> Rows(b), id |-> inflight[b].id]

RowsArePlaced(b) ==
  /\ Placing(b) => inflight[b].placed < Len(inflight[b].items)
  /\ ItemsOf(Rows(b)) = {inflight[b].items[i] : i \in 1 .. inflight[b].placed}
  /\ Injective(Rows(b))
  /\ \A i, j \in 1 .. inflight[b].placed :
       inflight[b].items[i] = inflight[b].items[j] => i = j

StatementsSound == \A b \in DOMAIN inflight : Shaped(b) /\ RowsArePlaced(b)

KeysApart ==
  \A b \in DOMAIN inflight :
    /\ ItemsOf(Rows(b)) \cap ItemsOf(tables[inflight[b].table]) = {}
    /\ \A c \in DOMAIN inflight \ {b} :
         inflight[c].table = inflight[b].table => ItemsOf(Rows(b)) \cap ItemsOf(Rows(c)) = {}

AssetsInv ==
  /\ AssetsTypeOK
  /\ UniqueIds
  /\ StatementsSound
  /\ KeysApart
  /\ DOMAIN inflight \cap DOMAIN answers = {}

-----------------------------------------------------------------------------
\* What AssetsTypeOK says of one statement.
LEMMA StatementTypes ==
  ASSUME AssetsTypeOK, NEW b \in DOMAIN inflight
  PROVE  /\ inflight[b].table \in Tables
         /\ inflight[b].items \in Seq(Items(inflight[b].table))
         /\ Len(inflight[b].items) \in Nat
         /\ inflight[b].placed \in Nat /\ inflight[b].placed <= Len(inflight[b].items)
         /\ drawn \in Nat
         /\ inflight[b].id \in Nat /\ inflight[b].id <= drawn
         /\ \A n \in DOMAIN inflight[b].rows : n \in Nat /\ 1 <= n /\ n <= drawn
  <1>1. /\ [table |-> inflight[b].table, items |-> inflight[b].items] \in Forms[b]
        /\ b \in Batches /\ drawn \in Nat
    BY DEF AssetsTypeOK
  <1>2. PICK t \in Tables : [table |-> inflight[b].table, items |-> inflight[b].items]
                             \in [table : {t}, items : Seq(Items(t))]
    BY <1>1, AssetsAssumption
  <1>3. /\ inflight[b].table \in Tables
        /\ inflight[b].items \in Seq(Items(inflight[b].table))
    BY <1>2
  <1>4. Len(inflight[b].items) \in Nat
    BY <1>3
  <1>5. /\ inflight[b].placed \in 0 .. Len(inflight[b].items)
        /\ inflight[b].id \in 0 .. drawn
        /\ DOMAIN inflight[b].rows \subseteq 1 .. drawn
    BY DEF AssetsTypeOK
  <1> QED
    BY <1>1, <1>3, <1>4, <1>5

\* ... and of the tables.
LEMMA TableTypes ==
  ASSUME AssetsTypeOK
  PROVE  /\ drawn \in Nat
         /\ \A n \in Registered : n \in Nat /\ n <= drawn
  <1>1. drawn \in Nat /\ \A t \in Tables : DOMAIN tables[t] \subseteq 1 .. drawn
    BY DEF AssetsTypeOK
  <1> QED
    BY <1>1 DEF Registered

LEMMA InitInv == AssetsInit => AssetsInv
  <1> SUFFICES ASSUME AssetsInit PROVE AssetsInv OBVIOUS
  <1>1. /\ DOMAIN inflight = {} /\ DOMAIN answers = {} /\ drawn = 0 /\ DOMAIN tables = Tables
        /\ \A t \in Tables : DOMAIN tables[t] = {}
    BY DEF AssetsInit, CatalogueInit
  <1> QED
    BY <1>1 DEF AssetsInv, AssetsTypeOK, UniqueIds, StatementsSound, KeysApart, Registered,
                ItemsOf, Equities, Options, Tables

\* What is sound of a statement stays sound as long as nothing changes it.
LEMMA StatementPersists ==
  ASSUME NEW c, Shaped(c), RowsArePlaced(c), inflight'[c] = inflight[c]
  PROVE  Shaped(c)' /\ RowsArePlaced(c)'
  <1>1. Rows(c)' = Rows(c) /\ (Placing(c)' <=> Placing(c))
    BY DEF Rows, Placing
  <1>2. Shaped(c)'
    BY <1>1 DEF Shaped
  <1>3. RowsArePlaced(c)'
    BY <1>1 DEF RowsArePlaced
  <1> QED
    BY <1>2, <1>3

LEMMA SoundPersists ==
  ASSUME StatementsSound, DOMAIN inflight' \subseteq DOMAIN inflight,
         \A c \in DOMAIN inflight' : inflight'[c] = inflight[c]
  PROVE  StatementsSound'
  <1> SUFFICES ASSUME NEW c \in DOMAIN inflight' PROVE Shaped(c)' /\ RowsArePlaced(c)'
    BY DEF StatementsSound
  <1>1. inflight'[c] = inflight[c] /\ Shaped(c) /\ RowsArePlaced(c)
    BY DEF StatementsSound
  <1> QED
    BY <1>1, StatementPersists

(***************************************************************************)
(* One lemma per action.                                                   *)
(***************************************************************************)
LEMMA BeginInv ==
  ASSUME AssetsInv, NEW b \in Batches, NEW form \in Forms[b], Begin(b, form)
  PROVE  AssetsInv'
  <1> USE DEF AssetsInv
  <1>1. /\ b \notin DOMAIN inflight /\ b \notin DOMAIN answers
        /\ UNCHANGED <<tables, answers, drawn>>
        /\ DOMAIN inflight' = DOMAIN inflight \cup {b}
        /\ \A c \in DOMAIN inflight : inflight'[c] = inflight[c]
        /\ inflight'[b] = [table |-> form.table, items |-> form.items, placed |-> 0,
                           rows |-> NoRows, id |-> 0]
    BY DEF Begin
  <1>2. PICK t \in Tables : form \in [table : {t}, items : Seq(Items(t))]
    BY AssetsAssumption
  <1>3. /\ form = [table |-> form.table, items |-> form.items]
        /\ Len(form.items) \in Nat
    BY <1>2
  <1>4. DOMAIN NoRows = {} /\ ItemsOf(NoRows) = {} /\ Injective(NoRows)
    BY DEF NoRows, ItemsOf, Injective
  <1>5. /\ inflight'[b].table = form.table /\ inflight'[b].items = form.items
        /\ inflight'[b].placed = 0 /\ inflight'[b].rows = NoRows /\ inflight'[b].id = 0
    BY <1>1
  <1>6. AssetsTypeOK'
    BY <1>1, <1>3, <1>4, <1>5 DEF AssetsTypeOK
  <1>7. UniqueIds'
    BY <1>1, <1>4, <1>5 DEF UniqueIds, Rows, Registered, Equities, Options
  <1>8. StatementsSound'
    <2> SUFFICES ASSUME NEW c \in DOMAIN inflight' PROVE Shaped(c)' /\ RowsArePlaced(c)'
      BY DEF StatementsSound
    <2>1. CASE c = b
      <3>1. Shaped(b)'
        BY <1>1, <1>5 DEF Shaped, Rows
      <3>2. RowsArePlaced(b)'
        BY <1>4, <1>5 DEF RowsArePlaced, Rows, Placing
      <3> QED
        BY <2>1, <3>1, <3>2
    <2>2. CASE c # b
      <3>1. c \in DOMAIN inflight /\ inflight'[c] = inflight[c]
        BY <1>1, <2>2
      <3>2. Shaped(c) /\ RowsArePlaced(c)
        BY <3>1 DEF StatementsSound
      <3> QED
        BY <3>1, <3>2, StatementPersists
    <2> QED
      BY <2>1, <2>2
  <1>9. KeysApart'
    <2>1. \A c \in DOMAIN inflight : Rows(c)' = Rows(c) /\ (inflight[c].table)' = inflight[c].table
      BY <1>1 DEF Rows
    <2>2. ItemsOf(Rows(b))' = {}
      BY <1>4, <1>5 DEF Rows
    <2> QED
      BY <1>1, <2>1, <2>2 DEF KeysApart
  <1> QED
    BY <1>1, <1>6, <1>7, <1>8, <1>9

\* Draw and Place change fields of one statement.
LEMMA DrawInv ==
  ASSUME AssetsInv, NEW b \in DOMAIN inflight, Draw(b)
  PROVE  AssetsInv'
  <1> DEFINE s == inflight[b]
  <1>0. AssetsTypeOK /\ UniqueIds /\ StatementsSound /\ KeysApart
    BY DEF AssetsInv
  <1>1. /\ UNCHANGED <<tables, answers>> /\ drawn \in Nat /\ drawn' = drawn + 1
        /\ DOMAIN inflight' = DOMAIN inflight
        /\ \A c \in DOMAIN inflight \ {b} : inflight'[c] = inflight[c]
        /\ inflight'[b] = [s EXCEPT !.id = drawn + 1]
    BY <1>0 DEF Draw, AssetsTypeOK
  <1>2. Len(s.items) \in Nat
    BY <1>0, StatementTypes
  <1>3. s.placed \in Nat /\ s.placed < Len(s.items)
    <2>1. s.placed # Len(s.items)
      BY DEF Draw, Complete
    <2> QED
      BY <1>0, <2>1, StatementTypes
  <1>4. s = [table |-> s.table, items |-> s.items, placed |-> s.placed, rows |-> s.rows, id |-> s.id]
    BY <1>0 DEF StatementsSound, Shaped, Rows
  <1>5. inflight'[b] = [table |-> s.table, items |-> s.items, placed |-> s.placed,
                        rows |-> s.rows, id |-> drawn + 1]
    BY <1>1, <1>4
  <1>6. /\ inflight'[b].table = s.table /\ inflight'[b].items = s.items
        /\ inflight'[b].placed = s.placed /\ inflight'[b].rows = s.rows
        /\ inflight'[b].id = drawn + 1
    BY <1>5
  <1>7. \A c \in DOMAIN inflight : /\ inflight'[c].table = inflight[c].table
                                 /\ inflight'[c].items = inflight[c].items
                                 /\ inflight'[c].placed = inflight[c].placed
                                 /\ inflight'[c].rows = inflight[c].rows
    BY <1>1, <1>6
  <1>8. AssetsTypeOK'
    <2>1. \A t \in Tables : DOMAIN tables'[t] \subseteq 1 .. drawn'
      BY <1>0, <1>1 DEF AssetsTypeOK
    <2> SUFFICES ASSUME NEW c \in DOMAIN inflight
                 PROVE  /\ [table |-> inflight'[c].table, items |-> inflight'[c].items] \in Forms[c]
                        /\ inflight'[c].placed \in 0 .. Len(inflight'[c].items)
                        /\ inflight'[c].id \in 0 .. drawn'
                        /\ DOMAIN inflight'[c].rows \subseteq 1 .. drawn'
      <3>1. \A t \in Tables : ItemsOf(tables'[t]) \subseteq Items(t)
        BY <1>0, <1>1 DEF AssetsTypeOK
      <3>2. /\ drawn' \in Nat /\ DOMAIN tables' = Tables
            /\ DOMAIN answers' \cup DOMAIN inflight' \subseteq Batches
        BY <1>0, <1>1 DEF AssetsTypeOK
      <3> QED
        BY <1>1, <2>1, <3>1, <3>2 DEF AssetsTypeOK
    <2>2. inflight'[c].id \in 0 .. drawn'
      <3>1. c = b => inflight'[c].id = drawn'
        BY <1>1, <1>6
      <3>2. c # b => inflight'[c].id = inflight[c].id
        BY <1>1
      <3> QED
        BY <1>0, <1>1, <3>1, <3>2, StatementTypes
    <2>3. DOMAIN inflight'[c].rows \subseteq 1 .. drawn'
      BY <1>0, <1>1, <1>7, StatementTypes
    <2>4. inflight'[c].placed \in 0 .. Len(inflight'[c].items)
      BY <1>0, <1>7, StatementTypes
    <2>5. [table |-> inflight'[c].table, items |-> inflight'[c].items] \in Forms[c]
      BY <1>0, <1>7 DEF AssetsTypeOK
    <2> QED
      BY <2>2, <2>3, <2>4, <2>5
  <1>9. UniqueIds'
    <2> DEFINE Drawn(c) == DOMAIN Rows(c) \cup ({inflight[c].id} \ {0})
    <2>1. drawn + 1 \notin Registered
      BY <1>0, TableTypes
    <2>2. \A c \in DOMAIN inflight : drawn + 1 \notin DOMAIN Rows(c) /\ drawn + 1 # inflight[c].id
      BY <1>0, StatementTypes DEF Rows
    <2>3. Registered' = Registered /\ (DOMAIN Equities \cap DOMAIN Options = {})'
      BY <1>0, <1>1 DEF Registered, UniqueIds, Equities, Options
    <2>4. \A c \in DOMAIN inflight \ {b} : Drawn(c)' = Drawn(c)
      BY <1>1 DEF Rows
    <2>5. Drawn(b)' \subseteq Drawn(b) \cup {drawn + 1}
      BY <1>6 DEF Rows
    <2>6. \A c \in DOMAIN inflight : (inflight[c].id \notin DOMAIN Rows(c))'
      <3>1. (inflight[b].id \notin DOMAIN Rows(b))'
        BY <1>6, <2>2 DEF Rows
      <3>2. \A c \in DOMAIN inflight \ {b} : (inflight[c].id \notin DOMAIN Rows(c))'
        BY <1>0, <1>1 DEF UniqueIds, Rows
      <3> QED
        BY <3>1, <3>2
    <2>7. \A c \in DOMAIN inflight : /\ drawn + 1 \notin Drawn(c)
                                   /\ Drawn(c) \cap Registered = {}
                                   /\ \A d \in DOMAIN inflight \ {c} : Drawn(c) \cap Drawn(d) = {}
      BY <1>0, <2>2 DEF UniqueIds
    <2> HIDE DEF Drawn
    <2>8. \A c \in DOMAIN inflight : Drawn(c)' \cap Registered' = {}
      BY <2>1, <2>3, <2>4, <2>5, <2>7
    <2>9. \A c, d \in DOMAIN inflight : c # d => Drawn(c)' \cap Drawn(d)' = {}
      BY <2>4, <2>5, <2>7
    <2> QED
      BY <1>1, <2>3, <2>6, <2>8, <2>9 DEF UniqueIds, Drawn
  <1>10. StatementsSound'
    <2> SUFFICES ASSUME NEW c \in DOMAIN inflight PROVE Shaped(c)' /\ RowsArePlaced(c)'
      BY <1>1 DEF StatementsSound
    <2>1. Shaped(c)'
      BY <1>0, <1>1, <1>5, <1>6 DEF StatementsSound, Shaped, Rows
    <2>2. Placing(c)' => inflight'[c].placed < Len(inflight'[c].items)
      BY <1>0, <1>1, <1>3, <1>6 DEF StatementsSound, RowsArePlaced, Placing
    <2> QED
      BY <1>0, <1>7, <2>1, <2>2 DEF StatementsSound, RowsArePlaced, Rows
  <1>11. KeysApart'
    BY <1>0, <1>1, <1>7 DEF KeysApart, Rows
  <1> QED
    BY <1>1, <1>8, <1>9, <1>10, <1>11 DEF AssetsInv

LEMMA PlaceInv ==
  ASSUME AssetsInv, NEW b \in DOMAIN inflight, Place(b)
  PROVE  AssetsInv'
  <1> DEFINE s == inflight[b]
             item == NextItem(b)
             rows == [id \in DOMAIN s.rows \cup {s.id} |-> IF id = s.id THEN item ELSE s.rows[id]]
  <1>a. AssetsTypeOK /\ UniqueIds /\ StatementsSound /\ KeysApart
    BY DEF AssetsInv
  <1>0. s = [table |-> s.table, items |-> s.items, placed |-> s.placed, rows |-> s.rows, id |-> s.id]
    BY <1>a DEF StatementsSound, Shaped, Rows
  <1>1. /\ UNCHANGED <<tables, answers, drawn>> /\ drawn \in Nat
        /\ DOMAIN inflight' = DOMAIN inflight
        /\ \A c \in DOMAIN inflight \ {b} : inflight'[c] = inflight[c]
        /\ inflight'[b] = Placed(b)
    BY <1>a, StatementTypes DEF Place
  <1>2. inflight'[b] = [table |-> s.table, items |-> s.items, placed |-> s.placed + 1,
                        rows |-> rows, id |-> 0]
    <2> DEFINE t == [table |-> s.table, items |-> s.items, placed |-> s.placed,
                     rows |-> s.rows, id |-> s.id]
    <2>1. Placed(b) = [t EXCEPT !.placed = s.placed + 1, !.id = 0, !.rows = rows]
      BY <1>0 DEF Placed
    <2> QED
      BY <1>1, <2>1
  <1>3. Len(s.items) \in Nat
    BY <1>a, StatementTypes
  <1>4. /\ s.id # 0 /\ s.id \in 0 .. drawn /\ s.id \notin DOMAIN s.rows
        /\ s.placed \in Nat /\ s.placed < Len(s.items)
        /\ item = s.items[s.placed + 1]
    <2>1. s.id # 0 /\ s.placed < Len(s.items) /\ item = s.items[s.placed + 1]
      BY <1>a DEF Place, Placing, StatementsSound, RowsArePlaced, NextItem
    <2>2. s.id \notin DOMAIN s.rows
      BY <1>a DEF UniqueIds, Rows
    <2> QED
      BY <1>a, <2>1, <2>2, StatementTypes
  <1>5. /\ item \notin ItemsOf(tables[s.table]) /\ item \notin ItemsOf(s.rows)
        /\ \A c \in DOMAIN inflight \ {b} :
             inflight[c].table = s.table => item \notin ItemsOf(inflight[c].rows)
    BY DEF Place, Taken, Holds, Rows
  <1> HIDE DEF item
  <1>6. /\ DOMAIN rows = DOMAIN s.rows \cup {s.id} /\ ItemsOf(rows) = ItemsOf(s.rows) \cup {item}
        /\ rows[s.id] = item /\ \A id \in DOMAIN s.rows : rows[id] = s.rows[id]
    BY <1>4 DEF ItemsOf
  <1> HIDE DEF rows
  <1>7. /\ inflight'[b].table = s.table /\ inflight'[b].items = s.items
        /\ inflight'[b].placed = s.placed + 1 /\ inflight'[b].rows = rows
        /\ inflight'[b].id = 0
    BY <1>2
  <1>8. AssetsTypeOK'
    <2> SUFFICES ASSUME NEW c \in DOMAIN inflight
                 PROVE  /\ [table |-> inflight'[c].table, items |-> inflight'[c].items] \in Forms[c]
                        /\ inflight'[c].placed \in 0 .. Len(inflight'[c].items)
                        /\ inflight'[c].id \in 0 .. drawn
                        /\ DOMAIN inflight'[c].rows \subseteq 1 .. drawn
      BY <1>a, <1>1 DEF AssetsTypeOK
    <2>1. CASE c = b
      <3>1. [table |-> s.table, items |-> s.items] \in Forms[b]
        BY <1>a DEF AssetsTypeOK
      <3>2. DOMAIN rows \subseteq 1 .. drawn
        BY <1>a, <1>4, <1>6, StatementTypes
      <3>3. s.placed + 1 \in 0 .. Len(s.items)
        BY <1>3, <1>4
      <3>4. 0 \in 0 .. drawn
        BY <1>1
      <3> QED
        BY <1>7, <2>1, <3>1, <3>2, <3>3, <3>4
    <2>2. CASE c # b
      BY <1>a, <1>1, <2>2 DEF AssetsTypeOK
    <2> QED
      BY <2>1, <2>2
  <1>9. UniqueIds'
    <2> DEFINE Drawn(c) == DOMAIN Rows(c) \cup ({inflight[c].id} \ {0})
    <2>1. \A c \in DOMAIN inflight : Drawn(c)' = Drawn(c)
      <3>1. Drawn(b)' = DOMAIN rows
        BY <1>7 DEF Rows
      <3>2. Drawn(b) = DOMAIN s.rows \cup {s.id}
        BY <1>4 DEF Rows
      <3>3. \A c \in DOMAIN inflight \ {b} : Drawn(c)' = Drawn(c)
        BY <1>1 DEF Rows
      <3> QED
        BY <1>6, <3>1, <3>2, <3>3
    <2>2. (inflight[b].id \notin DOMAIN Rows(b))'
      BY <1>a, <1>4, <1>6, <1>7, StatementTypes DEF Rows
    <2>3. Registered' = Registered /\ (DOMAIN Equities \cap DOMAIN Options = {})'
      BY <1>a, <1>1 DEF Registered, UniqueIds, Equities, Options
    <2>4. \A c \in DOMAIN inflight : (inflight[c].id \notin DOMAIN Rows(c))'
      BY <1>a, <1>1, <2>2 DEF UniqueIds, Rows
    <2> QED
      BY <1>a, <1>1, <2>1, <2>3, <2>4 DEF UniqueIds
  <1>10. RowsArePlaced(b)'
    <2>1. /\ ItemsOf(s.rows) = {s.items[i] : i \in 1 .. s.placed} /\ Injective(s.rows)
          /\ \A i, j \in 1 .. s.placed : s.items[i] = s.items[j] => i = j
      BY <1>a DEF StatementsSound, RowsArePlaced, Rows
    <2>2. ItemsOf(rows) = {s.items[i] : i \in 1 .. s.placed + 1}
      BY <1>4, <1>6, <2>1
    <2>3. Injective(rows)
      BY <1>5, <1>6, <2>1 DEF Injective, ItemsOf
    <2>4. \A i, j \in 1 .. s.placed + 1 : s.items[i] = s.items[j] => i = j
      BY <1>4, <1>5, <2>1
    <2> QED
      BY <1>7, <2>2, <2>3, <2>4 DEF RowsArePlaced, Rows, Placing
  <1>11. StatementsSound'
    <2> SUFFICES ASSUME NEW c \in DOMAIN inflight PROVE Shaped(c)' /\ RowsArePlaced(c)'
      BY <1>1 DEF StatementsSound
    <2>1. Shaped(c)'
      BY <1>a, <1>1, <1>2, <1>7 DEF StatementsSound, Shaped, Rows
    <2>2. CASE c = b
      BY <1>10, <2>1, <2>2
    <2>3. CASE c # b
      <3>1. inflight'[c] = inflight[c]
        BY <1>1, <2>3
      <3>2. RowsArePlaced(c)
        BY <1>a DEF StatementsSound
      <3>3. RowsArePlaced(c)'
        BY <3>1, <3>2 DEF RowsArePlaced, Rows, Placing
      <3> QED
        BY <2>1, <3>3
    <2> QED
      BY <2>2, <2>3
  <1>12. KeysApart'
    <2>1. \A c \in DOMAIN inflight :
            /\ (inflight[c].table)' = inflight[c].table
            /\ ItemsOf(Rows(c))' = IF c = b THEN ItemsOf(Rows(b)) \cup {item} ELSE ItemsOf(Rows(c))
      BY <1>1, <1>6, <1>7 DEF Rows
    <2>2. \A c \in DOMAIN inflight :
            ItemsOf(Rows(c))' \cap ItemsOf(tables[inflight[c].table]) = {}
      BY <1>a, <1>5, <2>1 DEF KeysApart
    <2>3. \A c, d \in DOMAIN inflight : c # d /\ inflight[c].table = inflight[d].table =>
            ItemsOf(Rows(c))' \cap ItemsOf(Rows(d))' = {}
      BY <1>a, <1>5, <2>1 DEF KeysApart, Rows
    <2> QED
      BY <1>1, <2>1, <2>2, <2>3 DEF KeysApart
  <1> QED
    BY <1>1, <1>8, <1>9, <1>11, <1>12 DEF AssetsInv

\* A statement that ends leaves the others as they are, and its outcome on record.
LEMMA AnswerEnds ==
  ASSUME AssetsInv, NEW b \in DOMAIN inflight, NEW status, NEW rows, Answer(b, status, rows)
  PROVE  /\ drawn' = drawn /\ DOMAIN inflight' = DOMAIN inflight \ {b}
         /\ \A c \in DOMAIN inflight' : inflight'[c] = inflight[c]
         /\ DOMAIN answers' = DOMAIN answers \cup {b} /\ b \notin DOMAIN answers
         /\ answers' = [c \in DOMAIN answers \cup {b} |-> IF c = b THEN answers'[b] ELSE answers[c]]
         /\ answers'[b] = [status |-> status, table |-> inflight[b].table,
                           items |-> inflight[b].items, rows |-> rows]
  BY DEF Answer, AssetsInv

LEMMA RefusalInv ==
  ASSUME AssetsInv, NEW b \in DOMAIN inflight, NEW status, Refusal(b, status)
  PROVE  AssetsInv'
  <1> USE DEF AssetsInv
  <1>1. /\ UNCHANGED tables
        /\ drawn' = drawn /\ DOMAIN inflight' = DOMAIN inflight \ {b}
        /\ \A c \in DOMAIN inflight' : inflight'[c] = inflight[c]
        /\ DOMAIN answers' = DOMAIN answers \cup {b}
    BY AnswerEnds DEF Refusal
  <1>2. AssetsTypeOK'
    BY <1>1 DEF AssetsTypeOK
  <1>3. UniqueIds'
    BY <1>1 DEF UniqueIds, Rows, Registered, Equities, Options
  <1>4. StatementsSound'
    BY <1>1, SoundPersists
  <1>5. KeysApart'
    BY <1>1 DEF KeysApart, Rows
  <1> QED
    BY <1>1, <1>2, <1>3, <1>4, <1>5

(***************************************************************************)
(* The commit moves the rows of one statement to its table.                *)
(***************************************************************************)
LEMMA CommitInv ==
  ASSUME AssetsInv, NEW b \in DOMAIN inflight, Commit(b)
  PROVE  AssetsInv'
  <1> DEFINE t == inflight[b].table
  <1> USE DEF AssetsInv
  <1>1. /\ drawn' = drawn /\ DOMAIN inflight' = DOMAIN inflight \ {b}
        /\ \A c \in DOMAIN inflight' : inflight'[c] = inflight[c]
        /\ DOMAIN answers' = DOMAIN answers \cup {b}
    BY AnswerEnds DEF Commit, CommitTo
  <1>2. /\ DOMAIN tables' = Tables /\ t \in Tables
        /\ \A u \in Tables \ {t} : tables'[u] = tables[u]
        /\ tables'[t] = [id \in DOMAIN tables[t] \cup DOMAIN Rows(b) |->
                           IF id \in DOMAIN Rows(b) THEN Rows(b)[id] ELSE tables[t][id]]
    BY StatementTypes DEF Commit, CommitTo, AssetsTypeOK
  <1>3. ItemsOf(tables'[t]) \subseteq ItemsOf(tables[t]) \cup ItemsOf(Rows(b))
    BY <1>2 DEF ItemsOf
  <1>4. ItemsOf(Rows(b)) \subseteq Items(t)
    <2>1. inflight[b].items \in Seq(Items(t))
      BY StatementTypes
    <2>2. inflight[b].placed \in 0 .. Len(inflight[b].items)
      BY DEF AssetsTypeOK
    <2>3. ItemsOf(Rows(b)) = {inflight[b].items[i] : i \in 1 .. inflight[b].placed}
      BY DEF StatementsSound, RowsArePlaced
    <2> QED
      BY <2>1, <2>2, <2>3
  <1>5. DOMAIN tables'[t] = DOMAIN tables[t] \cup DOMAIN Rows(b)
    BY <1>2
  <1>6. AssetsTypeOK'
    BY <1>1, <1>2, <1>3, <1>4, <1>5 DEF AssetsTypeOK, Rows
  <1>7. Registered' = Registered \cup DOMAIN Rows(b)
    BY <1>2, <1>5 DEF Registered
  <1>8. UniqueIds'
    <2>1. DOMAIN Rows(b) \cap Registered = {}
      BY DEF UniqueIds
    <2>2. (DOMAIN Equities \cap DOMAIN Options = {})'
      BY <1>2, <1>5, <2>1 DEF UniqueIds, Equities, Options, Registered, Tables
    <2> QED
      BY <1>1, <1>7, <2>2 DEF UniqueIds, Rows
  <1>9. StatementsSound'
    BY <1>1, SoundPersists
  <1>10. KeysApart'
    <2> SUFFICES ASSUME NEW c \in DOMAIN inflight \ {b}
                 PROVE  ItemsOf(Rows(c)) \cap ItemsOf(tables'[inflight[c].table]) = {}
      BY <1>1 DEF KeysApart, Rows
    <2>1. inflight[c].table \in Tables
      BY StatementTypes
    <2>2. CASE inflight[c].table = t
      BY <1>3, <2>2 DEF KeysApart
    <2>3. CASE inflight[c].table # t
      BY <1>2, <2>1, <2>3 DEF KeysApart
    <2> QED
      BY <2>2, <2>3
  <1> QED
    BY <1>1, <1>6, <1>8, <1>9, <1>10

LEMMA StepInv == AssetsInv /\ [AssetsNext]_assetsVars => AssetsInv'
  <1>1. ASSUME AssetsInv, UNCHANGED assetsVars PROVE AssetsInv'
    <2>1. UNCHANGED tables /\ UNCHANGED answers /\ UNCHANGED drawn /\ UNCHANGED inflight
      BY <1>1 DEF assetsVars
    <2>2. AssetsTypeOK' /\ UniqueIds'
      BY <1>1, <2>1 DEF AssetsInv, AssetsTypeOK, UniqueIds, Rows, Registered, Equities, Options
    <2>3. StatementsSound'
      BY <1>1, <2>1 DEF AssetsInv, StatementsSound, Shaped, RowsArePlaced, Rows, Placing
    <2>4. KeysApart'
      BY <1>1, <2>1 DEF AssetsInv, KeysApart, Rows
    <2> QED
      BY <1>1, <2>1, <2>2, <2>3, <2>4 DEF AssetsInv
  <1> QED
    BY <1>1, BeginInv, DrawInv, PlaceInv, RefusalInv, CommitInv
    DEF AssetsNext, Run, Conflict, Violate, Abort, Lose

\* The strengthening holds in every reachable state of Assets.
THEOREM AssetsInvariant == AssetsSpec => []AssetsInv
  BY InitInv, StepInv, PTL DEF AssetsSpec

-----------------------------------------------------------------------------
\* The catalogue and the statements keep their types, whatever batches are sent.
THEOREM AssetsTypeCorrect == AssetsSpec => []AssetsTypeOK
  <1>1. AssetsInv => AssetsTypeOK
    BY DEF AssetsInv
  <1> QED
    BY <1>1, AssetsInvariant, PTL

\* The sequence shared by equities and equity_options gives no id twice, for any
\* number of statements that run at the same time and end in any way.
THEOREM IdsAlwaysUnique == AssetsSpec => []UniqueIds
  <1>1. AssetsInv => UniqueIds
    BY DEF AssetsInv
  <1> QED
    BY <1>1, AssetsInvariant, PTL

-----------------------------------------------------------------------------
(***************************************************************************)
(* The refinement: the commit is the instant at which a batch is created,  *)
(* the end of a statement in any other way the instant it is refused, and  *)
(* all that comes before does not show.                                    *)
(***************************************************************************)
LEMMA CommitCreates ==
  ASSUME AssetsInv, NEW b \in DOMAIN inflight, Commit(b)
  PROVE  CatalogueNext
  <1> DEFINE a == answers'[b]
             s == inflight[b]
  <1>1. AssetsTypeOK /\ UniqueIds /\ StatementsSound /\ KeysApart
    BY DEF AssetsInv
  <1>2. PICK status \in {"created", "failed"} : Answer(b, status, Rows(b))
    BY DEF Commit, CommitTo
  <1>3. /\ b \in DOMAIN answers' \ DOMAIN answers
        /\ answers' = [c \in DOMAIN answers \cup {b} |-> IF c = b THEN answers'[b] ELSE answers[c]]
        /\ a = [status |-> status, table |-> s.table, items |-> s.items, rows |-> Rows(b)]
    BY <1>2, AnswerEnds
  <1>4. /\ a.status \in {"created", "failed"} /\ a.table = s.table
        /\ a.items = s.items /\ a.rows = Rows(b)
    BY <1>3
  <1> HIDE DEF a
  <1>5. /\ s.table \in Tables /\ DOMAIN s.items = 1 .. Len(s.items)
        /\ s.placed = Len(s.items)
    BY <1>1, StatementTypes DEF Commit, Complete
  <1>6. /\ ItemsOf(Rows(b)) = {s.items[i] : i \in 1 .. s.placed} /\ Injective(Rows(b))
        /\ \A i, j \in 1 .. s.placed : s.items[i] = s.items[j] => i = j
    BY <1>1 DEF StatementsSound, RowsArePlaced
  <1>7. Injective(a.items) /\ Injective(a.rows) /\ ItemsOf(a.rows) = ItemsOf(a.items)
    <2>1. \A i, j \in DOMAIN s.items : s.items[i] = s.items[j] => i = j
      BY <1>5, <1>6
    <2>2. ItemsOf(s.items) = {s.items[i] : i \in 1 .. s.placed}
      BY <1>5 DEF ItemsOf
    <2>3. Injective(s.items)
      BY <2>1 DEF Injective
    <2> QED
      BY <1>4, <1>6, <2>2, <2>3
  <1>8. ItemsOf(a.items) \cap ItemsOf(tables[a.table]) = {}
    BY <1>1, <1>4, <1>7 DEF KeysApart
  <1>9. DOMAIN a.rows \cap Registered = {}
    BY <1>1, <1>4 DEF UniqueIds
  <1>10. \A item \in ItemsOf(a.items) : ~Dangling(a.table, item)
    BY <1>4, <1>7 DEF Commit, Unregistered
  <1>11. tables' = [tables EXCEPT ![a.table] =
                      [id \in DOMAIN @ \cup DOMAIN a.rows |->
                         IF id \in DOMAIN a.rows THEN a.rows[id] ELSE @[id]]]
    BY <1>4 DEF Commit, CommitTo
  <1>12. Create(a)
    BY <1>4, <1>5, <1>7, <1>8, <1>9, <1>10, <1>11 DEF Create
  <1> QED
    BY <1>3, <1>12 DEF CatalogueNext, a

LEMMA RefusalRefuses ==
  ASSUME AssetsInv, NEW b \in DOMAIN inflight,
         Conflict(b) \/ Violate(b) \/ Abort(b) \/ Lose(b)
  PROVE  CatalogueNext
  <1> DEFINE a == answers'[b]
             s == inflight[b]
  <1>1. AssetsTypeOK /\ UniqueIds /\ StatementsSound /\ KeysApart
    BY DEF AssetsInv
  <1>2. PICK status \in {"conflict", "unprocessable", "failed"} :
          /\ Refusal(b, status)
          /\ status = "conflict" => Conflict(b)
          /\ status = "unprocessable" => Violate(b)
    BY DEF Conflict, Violate, Abort, Lose
  <1>3. /\ b \in DOMAIN answers' \ DOMAIN answers /\ UNCHANGED tables
        /\ answers' = [c \in DOMAIN answers \cup {b} |-> IF c = b THEN answers'[b] ELSE answers[c]]
        /\ a = [status |-> status, table |-> s.table, items |-> s.items, rows |-> NoRows]
    BY <1>2, AnswerEnds DEF Refusal
  <1>4. a.status = status /\ a.table = s.table /\ a.items = s.items
    BY <1>3
  <1> HIDE DEF a
  <1>5. /\ DOMAIN s.items = 1 .. Len(s.items) /\ Len(s.items) \in Nat
        /\ s.placed \in Nat /\ s.placed <= Len(s.items)
    BY <1>1, StatementTypes
  <1>6. ItemsOf(Rows(b)) = {s.items[i] : i \in 1 .. s.placed}
    BY <1>1 DEF StatementsSound, RowsArePlaced
  <1>7. CASE status = "conflict"
    <2>1. s.placed < Len(s.items) /\ NextItem(b) = s.items[s.placed + 1]
      BY <1>1, <1>2, <1>7 DEF Conflict, StatementsSound, RowsArePlaced, NextItem
    <2>2. CASE NextItem(b) \in ItemsOf(tables[s.table])
      <3>1. NextItem(b) \in ItemsOf(s.items)
        BY <1>5, <2>1 DEF ItemsOf
      <3> QED
        BY <1>3, <1>4, <1>7, <2>2, <3>1 DEF Refuse, CatalogueNext, a
    <2>3. CASE NextItem(b) \in ItemsOf(Rows(b))
      <3>1. PICK i \in 1 .. s.placed : s.items[i] = s.items[s.placed + 1]
        BY <1>6, <2>1, <2>3
      <3>2. /\ i \in DOMAIN s.items /\ s.placed + 1 \in DOMAIN s.items
            /\ i # s.placed + 1
        BY <1>5, <2>1
      <3>3. ~Injective(s.items)
        BY <3>1, <3>2 DEF Injective
      <3> QED
        BY <1>3, <1>4, <1>7, <3>3 DEF Refuse, CatalogueNext, a
    <2> QED
      BY <1>2, <1>7, <2>2, <2>3 DEF Conflict, Taken
  <1>8. CASE status = "unprocessable"
    <2>1. PICK item \in ItemsOf(Rows(b)) : Dangling(s.table, item)
      BY <1>2, <1>8 DEF Violate, Unregistered
    <2>2. PICK i \in 1 .. s.placed : item = s.items[i]
      BY <1>6, <2>1
    <2>3. i \in DOMAIN s.items
      BY <1>5
    <2>4. item \in ItemsOf(s.items)
      BY <2>2, <2>3 DEF ItemsOf
    <2> QED
      BY <1>3, <1>4, <1>8, <2>1, <2>4 DEF Refuse, CatalogueNext, a
  <1>9. CASE status = "failed"
    BY <1>3, <1>4, <1>9 DEF Refuse, CatalogueNext, a
  <1> QED
    BY <1>7, <1>8, <1>9

LEMMA StepRefines ==
  AssetsInv /\ [AssetsNext]_assetsVars => [CatalogueNext]_<<tables, answers>>
  <1>1. ASSUME NEW b \in Batches, NEW form \in Forms[b], Begin(b, form)
        PROVE  UNCHANGED <<tables, answers>>
    BY <1>1 DEF Begin
  <1>2. ASSUME NEW b \in DOMAIN inflight, Draw(b) \/ Place(b)
        PROVE  UNCHANGED <<tables, answers>>
    BY <1>2 DEF Draw, Place
  <1>3. UNCHANGED assetsVars => UNCHANGED <<tables, answers>>
    BY DEF assetsVars
  <1> QED
    BY <1>1, <1>2, <1>3, CommitCreates, RefusalRefuses DEF AssetsNext, Run

\* Statements that run row by row, wait, conflict and fail implement the atomic
\* catalogue: every request takes effect at one instant, with a true status.
THEOREM AssetsImplementsCatalogue == AssetsSpec => ImplementsCatalogue
  <1>1. AssetsInit => CatalogueInit
    BY DEF AssetsInit
  <1> QED
    BY <1>1, StepRefines, AssetsInvariant, PTL DEF AssetsSpec, ImplementsCatalogue, CatalogueSpec

-----------------------------------------------------------------------------
(***************************************************************************)
(* What holds of every implementation of the catalogue: keys are unique,   *)
(* underlyings exist, and what was created stays.                          *)
(***************************************************************************)
CatalogueInv ==
  /\ DOMAIN tables = Tables
  /\ \A t \in Tables : Injective(tables[t])
  /\ \A o \in DOMAIN Options : Options[o].underlying \in DOMAIN Equities
  /\ \A b \in DOMAIN answers : answers[b].status = "created" =>
       /\ answers[b].table \in Tables
       /\ \A id \in DOMAIN answers[b].rows :
            /\ id \in DOMAIN tables[answers[b].table]
            /\ tables[answers[b].table][id] = answers[b].rows[id]

LEMMA CatalogueInitInv == CatalogueInit => CatalogueInv
  BY DEF CatalogueInit, CatalogueInv, Injective, Options, Equities, Tables

LEMMA CreateInv ==
  ASSUME CatalogueInv, NEW b \in DOMAIN answers' \ DOMAIN answers,
         answers' = [c \in DOMAIN answers \cup {b} |-> IF c = b THEN answers'[b] ELSE answers[c]],
         Create(answers'[b])
  PROVE  CatalogueInv'
  <1> DEFINE a == answers'[b]
             t == a.table
  <1>1. /\ DOMAIN tables' = Tables /\ t \in Tables
        /\ \A u \in Tables \ {t} : tables'[u] = tables[u]
        /\ tables'[t] = [id \in DOMAIN tables[t] \cup DOMAIN a.rows |->
                           IF id \in DOMAIN a.rows THEN a.rows[id] ELSE tables[t][id]]
    BY DEF Create, CatalogueInv
  <1>2. /\ Injective(a.rows) /\ ItemsOf(a.rows) \cap ItemsOf(tables[t]) = {}
        /\ DOMAIN a.rows \cap DOMAIN tables[t] = {}
        /\ \A item \in ItemsOf(a.rows) : ~Dangling(t, item)
    BY <1>1 DEF Create, Registered
  <1>3. \A c \in DOMAIN answers : answers'[c] = answers[c]
    OBVIOUS
  <1> HIDE DEF a
  <1>4. /\ DOMAIN tables'[t] = DOMAIN tables[t] \cup DOMAIN a.rows
        /\ \A id \in DOMAIN a.rows : tables'[t][id] = a.rows[id] /\ a.rows[id] \in ItemsOf(a.rows)
        /\ \A id \in DOMAIN tables[t] : /\ tables'[t][id] = tables[t][id]
                                       /\ tables[t][id] \in ItemsOf(tables[t])
    BY <1>1, <1>2 DEF ItemsOf
  <1>5. \A u \in Tables : Injective(tables[u])'
    <2>1. /\ \A x, y \in DOMAIN tables[t] : tables[t][x] = tables[t][y] => x = y
          /\ \A x, y \in DOMAIN a.rows : a.rows[x] = a.rows[y] => x = y
      BY <1>1, <1>2 DEF CatalogueInv, Injective
    <2>2. \A x \in DOMAIN a.rows, y \in DOMAIN tables[t] : a.rows[x] # tables[t][y]
      BY <1>2, <1>4
    <2>3. ASSUME NEW x \in DOMAIN tables'[t], NEW y \in DOMAIN tables'[t],
                 tables'[t][x] = tables'[t][y]
          PROVE  x = y
      <3>1. CASE x \in DOMAIN a.rows /\ y \in DOMAIN a.rows
        BY <1>4, <2>1, <2>3, <3>1
      <3>2. CASE x \in DOMAIN a.rows /\ y \in DOMAIN tables[t]
        BY <1>4, <2>2, <2>3, <3>2
      <3>3. CASE x \in DOMAIN tables[t] /\ y \in DOMAIN a.rows
        BY <1>4, <2>2, <2>3, <3>3
      <3>4. CASE x \in DOMAIN tables[t] /\ y \in DOMAIN tables[t]
        BY <1>4, <2>1, <2>3, <3>4
      <3> QED
        BY <1>4, <3>1, <3>2, <3>3, <3>4
    <2>4. Injective(tables'[t])
      BY <2>3 DEF Injective
    <2>5. \A u \in Tables \ {t} : Injective(tables'[u])
      BY <1>1 DEF CatalogueInv
    <2> QED
      BY <2>4, <2>5 DEF Injective
  <1>6. (\A o \in DOMAIN Options : Options[o].underlying \in DOMAIN Equities)'
    <2>1. \A o \in DOMAIN Options : Options[o].underlying \in DOMAIN Equities
      BY DEF CatalogueInv
    <2>2. CASE t = "equities"
      <3>1. Options' = Options /\ DOMAIN Equities \subseteq DOMAIN Equities'
        BY <1>1, <1>4, <2>2 DEF Options, Equities, Tables
      <3> QED
        BY <2>1, <3>1
    <2>3. CASE t = "equity_options"
      <3>1. /\ Equities' = Equities
            /\ DOMAIN Options' = DOMAIN Options \cup DOMAIN a.rows
            /\ \A o \in DOMAIN Options : Options'[o] = Options[o]
        BY <1>1, <1>4, <2>3 DEF Options, Equities, Tables
      <3>2. \A o \in DOMAIN a.rows : Options'[o].underlying \in DOMAIN Equities
        BY <1>2, <1>4, <2>3 DEF Options, Equities, Dangling
      <3> QED
        BY <2>1, <3>1, <3>2
    <2> QED
      BY <1>1, <2>2, <2>3 DEF Tables
  <1>7. ASSUME NEW c \in DOMAIN answers', answers'[c].status = "created"
        PROVE  /\ answers'[c].table \in Tables
               /\ \A id \in DOMAIN answers'[c].rows :
                    /\ id \in DOMAIN tables'[answers'[c].table]
                    /\ tables'[answers'[c].table][id] = answers'[c].rows[id]
    <2>1. CASE c = b
      BY <1>1, <1>4, <2>1 DEF a
    <2>2. CASE c # b
      <3>1. c \in DOMAIN answers /\ answers'[c] = answers[c]
        BY <1>3, <1>7, <2>2
      <3>2. /\ answers[c].table \in Tables
            /\ \A id \in DOMAIN answers[c].rows :
                 /\ id \in DOMAIN tables[answers[c].table]
                 /\ tables[answers[c].table][id] = answers[c].rows[id]
        BY <1>7, <3>1 DEF CatalogueInv
      <3>3. CASE answers[c].table = t
        <4>1. ASSUME NEW id \in DOMAIN answers[c].rows
              PROVE  id \in DOMAIN tables'[t] /\ tables'[t][id] = answers[c].rows[id]
          <5>1. id \in DOMAIN tables[t] /\ tables[t][id] = answers[c].rows[id]
            BY <3>2, <3>3
          <5> QED
            BY <1>4, <5>1
        <4> QED
          BY <1>1, <3>1, <3>3, <4>1
      <3>4. CASE answers[c].table # t
        BY <1>1, <3>1, <3>2, <3>4
      <3> QED
        BY <3>3, <3>4
    <2> QED
      BY <2>1, <2>2
  <1> QED
    BY <1>1, <1>5, <1>6, <1>7 DEF CatalogueInv

LEMMA CatalogueStepInv ==
  CatalogueInv /\ [CatalogueNext]_<<tables, answers>> => CatalogueInv'
  <1> SUFFICES ASSUME CatalogueInv, [CatalogueNext]_<<tables, answers>> PROVE CatalogueInv'
    OBVIOUS
  <1>1. CASE UNCHANGED <<tables, answers>>
    BY <1>1 DEF CatalogueInv, Options, Equities
  <1>2. ASSUME NEW b \in DOMAIN answers' \ DOMAIN answers,
               answers' = [c \in DOMAIN answers \cup {b} |->
                             IF c = b THEN answers'[b] ELSE answers[c]],
               Refuse(answers'[b])
        PROVE  CatalogueInv'
    <2>1. /\ UNCHANGED tables /\ answers'[b].status # "created"
          /\ DOMAIN answers' = DOMAIN answers \cup {b}
          /\ \A c \in DOMAIN answers : answers'[c] = answers[c]
      BY <1>2 DEF Refuse
    <2> QED
      BY <2>1 DEF CatalogueInv, Options, Equities
  <1> QED
    BY <1>1, <1>2, CreateInv DEF CatalogueNext

THEOREM CatalogueInvariant == CatalogueSpec => []CatalogueInv
  BY CatalogueInitInv, CatalogueStepInv, PTL DEF CatalogueSpec

\* Whatever was created is found, by id, by ticker and among its underlying's options:
\* inherited from the atomic catalogue.
THEOREM CreatedAlwaysFound == AssetsSpec => []CreatedMeansFound
  <1>1. CatalogueInv /\ AssetsTypeOK => CreatedMeansFound
    <2> SUFFICES ASSUME CatalogueInv, AssetsTypeOK, NEW b \in DOMAIN answers,
                        answers[b].status = "created", NEW id \in DOMAIN answers[b].rows
                 PROVE  LET item == answers[b].rows[id]
                        IN  IF answers[b].table = "equities"
                              THEN /\ Found(IdSegment(id)) = {id}
                                   /\ item \notin DOMAIN Numeric => Found(TickerSegment(item)) = {id}
                              ELSE /\ id \in ListOptions(IdSegment(item.underlying))
                                   /\ \E ticker \in Tickers :
                                        /\ Found(IdSegment(item.underlying))
                                             = {e \in DOMAIN Equities : Equities[e] = ticker}
                                        /\ ticker \notin DOMAIN Numeric =>
                                             id \in ListOptions(TickerSegment(ticker))
      BY DEF CreatedMeansFound
    <2> DEFINE item == answers[b].rows[id]
               t == answers[b].table
    <2>1. /\ t \in Tables /\ id \in DOMAIN tables[t] /\ tables[t][id] = item
      BY DEF CatalogueInv
    <2>2. \A e, f \in DOMAIN Equities : Equities[e] = Equities[f] => e = f
      BY DEF CatalogueInv, Injective, Equities, Tables
    <2>3. \A e \in DOMAIN Equities : Equities[e] \in Tickers
      BY DEF AssetsTypeOK, Equities, Tables, ItemsOf, Items
    <2> HIDE DEF item
    <2>4. CASE t = "equities"
      <3>1. id \in DOMAIN Equities /\ Equities[id] = item
        BY <2>1, <2>4 DEF Equities
      <3>2. Found(IdSegment(id)) = {id}
        BY <3>1 DEF Found, IdSegment
      <3>3. item \notin DOMAIN Numeric => Found(TickerSegment(item)) = {id}
        BY <2>2, <3>1 DEF Found, TickerSegment
      <3> QED
        BY <2>4, <3>2, <3>3 DEF item
    <2>5. CASE t = "equity_options"
      <3> DEFINE u == item.underlying
      <3>1. id \in DOMAIN Options /\ Options[id].underlying = u /\ u \in DOMAIN Equities
        BY <2>1, <2>5 DEF Options, CatalogueInv
      <3> HIDE DEF u
      <3>2. id \in ListOptions(IdSegment(u))
        BY <3>1 DEF ListOptions, IdSegment
      <3>3. Found(IdSegment(u)) = {e \in DOMAIN Equities : Equities[e] = Equities[u]}
        BY <2>2, <3>1 DEF Found, IdSegment
      <3>4. Equities[u] \notin DOMAIN Numeric => u \in Found(TickerSegment(Equities[u]))
        BY <3>1 DEF Found, TickerSegment
      <3>5. Equities[u] \notin DOMAIN Numeric => id \in ListOptions(TickerSegment(Equities[u]))
        BY <3>1, <3>4 DEF ListOptions, TickerSegment
      <3> QED
        BY <2>3, <2>5, <3>1, <3>2, <3>3, <3>5 DEF item, u
    <2> QED
      BY <2>1, <2>4, <2>5 DEF Tables
  <1> QED
    BY <1>1, AssetsTypeCorrect, AssetsImplementsCatalogue, CatalogueInvariant, PTL
    DEF ImplementsCatalogue
=============================================================================
