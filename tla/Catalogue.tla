------------------------------ MODULE Catalogue ------------------------------
(***************************************************************************)
(* What the asset endpoints promise: every request to register a batch     *)
(* takes effect at one instant.  Either the whole batch is registered,     *)
(* each item under an id no asset has ever had, or nothing is and the      *)
(* status that is answered is true at that instant.                        *)
(***************************************************************************)
EXTENDS Naturals

VARIABLES
  tables,    \* table -> id -> what is registered under it
  answers    \* request -> the batch it brought, the rows it made, its status

Tables == {"equities", "equity_options"}

Registered == UNION {DOMAIN tables[t] : t \in Tables}

ItemsOf(f) == {f[x] : x \in DOMAIN f}

Injective(f) == \A x, y \in DOMAIN f : f[x] = f[y] => x = y

\* A contract names its underlying equity, which must be registered already.
Dangling(t, item) ==
  t = "equity_options" /\ item.underlying \notin DOMAIN tables["equities"]

\* A 200, or a failure of which the client cannot tell whether the batch is registered.
Create(a) ==
  /\ a.status \in {"created", "failed"} /\ a.table \in Tables
  /\ Injective(a.items) /\ Injective(a.rows)
  /\ ItemsOf(a.rows) = ItemsOf(a.items)
  /\ ItemsOf(a.items) \cap ItemsOf(tables[a.table]) = {}
  /\ DOMAIN a.rows \cap Registered = {}
  /\ \A item \in ItemsOf(a.items) : ~Dangling(a.table, item)
  /\ tables' = [tables EXCEPT ![a.table] =
                  [id \in DOMAIN @ \cup DOMAIN a.rows |->
                     IF id \in DOMAIN a.rows THEN a.rows[id] ELSE @[id]]]

Refuse(a) ==
  /\ \/ /\ a.status = "conflict"
        /\ \/ ~Injective(a.items)
           \/ ItemsOf(a.items) \cap ItemsOf(tables[a.table]) # {}
     \/ /\ a.status = "unprocessable"
        /\ \E item \in ItemsOf(a.items) : Dangling(a.table, item)
     \/ a.status = "failed"
  /\ UNCHANGED tables

CatalogueInit ==
  /\ tables = [t \in Tables |-> [id \in {} |-> 0]]
  /\ answers = [b \in {} |-> 0]

CatalogueNext ==
  \E b \in DOMAIN answers' \ DOMAIN answers :
    /\ answers' = [c \in DOMAIN answers \cup {b} |->
                     IF c = b THEN answers'[b] ELSE answers[c]]
    /\ Create(answers'[b]) \/ Refuse(answers'[b])

CatalogueSpec == CatalogueInit /\ [][CatalogueNext]_<<tables, answers>>
=============================================================================
