------------------------------- MODULE Assets -------------------------------
(***************************************************************************)
(* The asset catalogue in PostgreSQL: the tables equities and              *)
(* equity_options, whose ids come from one sequence.  A batch is one       *)
(* INSERT of several rows, run by several replicas at once.  PostgreSQL    *)
(* inserts row by row: it draws the row's id, which no rollback gives      *)
(* back, and looks for the row's key in the unique index.  A key that is   *)
(* committed is a conflict, one that another statement has inserted and    *)
(* not committed makes it wait, and of statements that wait for each other *)
(* one is aborted.                                                         *)
(***************************************************************************)
EXTENDS Catalogue, Sequences, FiniteSets

CONSTANTS
  Batches,      \* requests to create equities or options
  Tickers,
  Numeric,      \* the i32 a ticker reads as, for the tickers that do
  Terms,        \* expiration, kind and strike price of a contract
  Forms         \* request -> what it may bring: a table and the items for it

Items(t) == IF t = "equities" THEN Tickers ELSE [underlying : Nat, terms : Terms]

ASSUME AssetsAssumption ==
  /\ DOMAIN Numeric \subseteq Tickers
  /\ \A b \in Batches : \A form \in Forms[b] :
       \E t \in Tables : form \in [table : {t}, items : Seq(Items(t))]

VARIABLES
  drawn,      \* the last value of the sequence asset_id
  inflight    \* request -> its INSERT, while it runs

assetsVars == <<tables, answers, drawn, inflight>>

NoRows == [id \in {} |-> 0]

AssetsInit ==
  /\ CatalogueInit
  /\ drawn = 0
  /\ inflight = [b \in {} |-> 0]

-----------------------------------------------------------------------------
(***************************************************************************)
(* The statement.                                                          *)
(***************************************************************************)

\* Rows a statement has inserted: id -> item.
Rows(b) == inflight[b].rows

\* The item whose row comes next, once its id is drawn.
Placing(b) == inflight[b].id # 0

NextItem(b) == inflight[b].items[inflight[b].placed + 1]

Complete(b) == inflight[b].placed = Len(inflight[b].items)

\* The unique indexes: ticker, and (underlying, expiration, kind, strike).
Taken(b) ==
  NextItem(b) \in ItemsOf(tables[inflight[b].table]) \cup ItemsOf(Rows(b))

Holds(c, b) ==
  /\ c # b /\ inflight[c].table = inflight[b].table
  /\ NextItem(b) \in ItemsOf(Rows(c))

WaitsFor(b, c) == Placing(b) /\ ~Taken(b) /\ Holds(c, b)

\* On a cycle of statements that wait for each other.
Deadlocked(b) ==
  \E S \in SUBSET DOMAIN inflight :
    /\ b \in S
    /\ \A c \in S : (\E d \in S : WaitsFor(c, d)) /\ (\E d \in S : WaitsFor(d, c))

Begin(b, form) ==
  /\ b \notin DOMAIN inflight \cup DOMAIN answers
  /\ inflight' = [c \in DOMAIN inflight \cup {b} |->
                    IF c # b THEN inflight[c]
                    ELSE [table |-> form.table, items |-> form.items, placed |-> 0,
                          rows |-> NoRows, id |-> 0]]
  /\ UNCHANGED <<tables, answers, drawn>>

\* Mutant of Draw: the next id is counted instead of drawn from the sequence.
DrawByCount(b) ==
  /\ ~Placing(b) /\ ~Complete(b)
  /\ drawn' = drawn + 1
  /\ inflight' = [inflight EXCEPT ![b].id = Cardinality(Registered) + 1]
  /\ UNCHANGED <<tables, answers>>

\* nextval('asset_id')
Draw(b) ==
  /\ ~Placing(b) /\ ~Complete(b)
  /\ drawn' = drawn + 1
  /\ inflight' = [inflight EXCEPT ![b].id = drawn']
  /\ UNCHANGED <<tables, answers>>

\* nextval('asset_id') has given the row its id; the unique index lets it in.
Placed(b) ==
  LET id == inflight[b].id
  IN  [inflight[b] EXCEPT
         !.placed = @ + 1, !.id = 0,
         !.rows = [r \in DOMAIN @ \cup {id} |-> IF r = id THEN NextItem(b) ELSE @[r]]]

Place(b) ==
  /\ Placing(b) /\ ~Taken(b)
  /\ \A c \in DOMAIN inflight : ~Holds(c, b)
  /\ inflight' = [inflight EXCEPT ![b] = Placed(b)]
  /\ UNCHANGED <<tables, answers, drawn>>

-----------------------------------------------------------------------------
(***************************************************************************)
(* How it ends: the rows are committed or rolled back, and the handler     *)
(* turns the outcome into a status.                                        *)
(***************************************************************************)
Answer(b, status, rows) ==
  /\ answers' = [c \in DOMAIN answers \cup {b} |->
                   IF c = b THEN [status |-> status, table |-> inflight[b].table,
                                  items |-> inflight[b].items, rows |-> rows]
                            ELSE answers[c]]
  /\ inflight' = [c \in DOMAIN inflight \ {b} |-> inflight[c]]
  /\ UNCHANGED drawn

Refusal(b, status) == Answer(b, status, NoRows) /\ UNCHANGED tables

\* The foreign key is checked when the statement ends, against committed rows.
Unregistered(b) == \E item \in ItemsOf(Rows(b)) : Dangling(inflight[b].table, item)

CommitTo(b, t) ==
  /\ tables' = [tables EXCEPT ![t] =
                  [id \in DOMAIN @ \cup DOMAIN Rows(b) |->
                     IF id \in DOMAIN Rows(b) THEN Rows(b)[id] ELSE @[id]]]
  /\ \E status \in {"created", "failed"} : Answer(b, status, Rows(b))

\* Mutant of Commit: every batch goes to equities.
CommitEquities(b) ==
  /\ Complete(b) /\ ~Unregistered(b)
  /\ CommitTo(b, "equities")

\* The rows become visible at once; the client learns of it or the connection breaks.
Commit(b) ==
  /\ Complete(b) /\ ~Unregistered(b)
  /\ CommitTo(b, inflight[b].table)

\* Mutant of Conflict: a row that is not committed yet counts as well.
ConflictEarly(b) ==
  /\ Placing(b)
  /\ Taken(b) \/ \E c \in DOMAIN inflight : Holds(c, b)
  /\ Refusal(b, "conflict")

\* DatabaseErrorKind::UniqueViolation
Conflict(b) ==
  /\ Placing(b) /\ Taken(b)
  /\ Refusal(b, "conflict")

\* DatabaseErrorKind::ForeignKeyViolation
Violate(b) ==
  /\ Complete(b) /\ Unregistered(b)
  /\ Refusal(b, "unprocessable")

\* Mutant of Abort: statements that wait for each other are left alone.
AbortNone(b) ==
  /\ FALSE
  /\ Refusal(b, "failed")

\* PostgreSQL aborts a statement that waits in a cycle.
Abort(b) ==
  /\ Deadlocked(b)
  /\ Refusal(b, "failed")

\* The connection, the replica or the server fails before the commit.
Lose(b) == Refusal(b, "failed")

Run(b) ==
  Draw(b) \/ Place(b) \/ Commit(b) \/ Conflict(b) \/ Violate(b) \/ Abort(b)

AssetsNext ==
  \/ \E b \in Batches : \E form \in Forms[b] : Begin(b, form)
  \/ \E b \in DOMAIN inflight : Run(b) \/ Lose(b)

AssetsSpec == AssetsInit /\ [][AssetsNext]_assetsVars

\* The server goes on with every statement that can go on.
FairAssetsSpec ==
  AssetsSpec /\ \A b \in Batches : WF_assetsVars(b \in DOMAIN inflight /\ Run(b))

-----------------------------------------------------------------------------
(***************************************************************************)
(* The readers.  A segment of a path is tried as an id first, and as a     *)
(* ticker only if it does not read as a number.                            *)
(***************************************************************************)
Equities == tables["equities"]
Options  == tables["equity_options"]

IdSegment(id) == [kind |-> "id", value |-> id]

TickerSegment(ticker) ==
  IF ticker \in DOMAIN Numeric THEN IdSegment(Numeric[ticker])
                               ELSE [kind |-> "ticker", value |-> ticker]

\* Mutant of Found: the route by ticker is ranked first.
FoundByTicker(segment) ==
  {id \in DOMAIN Equities : TickerSegment(Equities[id]) = segment}

\* The equities a segment stands for.
Found(segment) ==
  IF segment.kind = "id"
    THEN {segment.value} \cap DOMAIN Equities
    ELSE {id \in DOMAIN Equities : Equities[id] = segment.value}

\* The options listed under it: their underlying is an equity, so by id they need no join.
ListOptions(segment) ==
  {o \in DOMAIN Options :
     Options[o].underlying \in IF segment.kind = "id" THEN {segment.value} ELSE Found(segment)}

-----------------------------------------------------------------------------
(***************************************************************************)
(* Properties                                                              *)
(***************************************************************************)

\* The types of the catalogue and of the statements that run.
AssetsTypeOK ==
  /\ drawn \in Nat
  /\ DOMAIN tables = Tables
  /\ \A t \in Tables : /\ DOMAIN tables[t] \subseteq 1 .. drawn
                       /\ ItemsOf(tables[t]) \subseteq Items(t)
  /\ DOMAIN answers \cup DOMAIN inflight \subseteq Batches
  /\ \A b \in DOMAIN inflight :
       /\ [table |-> inflight[b].table, items |-> inflight[b].items] \in Forms[b]
       /\ inflight[b].placed \in 0 .. Len(inflight[b].items)
       /\ inflight[b].id \in 0 .. drawn
       /\ DOMAIN inflight[b].rows \subseteq 1 .. drawn

\* An id is "a unique global identifier": no two assets, be they an equity and an
\* option or in statements that still run, have the same, and a running statement
\* has none that any asset was registered under.
UniqueIds ==
  LET Drawn(b) == DOMAIN Rows(b) \cup ({inflight[b].id} \ {0})
  IN  /\ DOMAIN Equities \cap DOMAIN Options = {}
      /\ \A b \in DOMAIN inflight :
           /\ inflight[b].id \notin DOMAIN Rows(b)
           /\ Drawn(b) \cap Registered = {}
           /\ \A c \in DOMAIN inflight \ {b} : Drawn(b) \cap Drawn(c) = {}

\* Whatever a client was told is registered is found from then on: an equity under
\* its id and, unless its ticker reads as a number, under its ticker and nothing
\* else; an option in the lists of its underlying, by id and by ticker alike.
CreatedMeansFound ==
  \A b \in {c \in DOMAIN answers : answers[c].status = "created"} :
    \A id \in DOMAIN answers[b].rows :
      LET item == answers[b].rows[id]
      IN  IF answers[b].table = "equities"
            THEN /\ Found(IdSegment(id)) = {id}
                 /\ item \notin DOMAIN Numeric => Found(TickerSegment(item)) = {id}
            ELSE /\ id \in ListOptions(IdSegment(item.underlying))
                 /\ \E ticker \in Tickers :
                      /\ Found(IdSegment(item.underlying)) = {e \in DOMAIN Equities : Equities[e] = ticker}
                      /\ ticker \notin DOMAIN Numeric =>
                           id \in ListOptions(TickerSegment(ticker))

\* An equity is found under its ticker.  The code breaks this: the segment of a path
\* that reads as an i32 is never taken for a ticker.
TickerFindsEquity == \A id \in DOMAIN Equities : Found(TickerSegment(Equities[id])) = {id}

\* Row by row, with ids that rollbacks leave unused and statements that wait for and
\* abort each other, every request still takes effect at one instant, whole or not
\* at all, and the status it is answered is true at that instant.
ImplementsCatalogue == CatalogueSpec

\* Every request is answered: statements that wait for each other's rows do not
\* wait forever.
BatchesEnd == \A b \in Batches : [](b \in DOMAIN inflight => <>(b \in DOMAIN answers))
=============================================================================
