# A formal model of the mkt-sim exchange

TLA+ modules, TLC configurations and TLAPS proofs about the exchange in `exchange/`: the
Lua script that matches orders in Redis, the API that reserves money and shares in
TigerBeetle before it runs the script, the listings that page through the books, the asset
catalogue in PostgreSQL, and the users, the admin and the tokens that decide who may do what. Paths below are relative to the repository; `order.lua`, `accounts.rs`,
`assets.rs` and `auth.rs` are in `exchange/api/src/api/`.

Contents: [the system](#the-system), [hard behaviours](#what-is-hard-here),
[modules](#the-modules), [plan](#the-plan), [runs](#the-runs),
[disagreements found](#where-the-code-and-its-words-disagree), [proofs](#the-proofs),
[what is not modelled](#what-is-not-modelled).

## The system

Several replicas of one API process (Rocket, async, 3 to 9 of them in Kubernetes) serve HTTP
over three stores. Nothing spans the stores: each request makes its calls one after the other
and an error from one leaves what the earlier ones did.

| component | state | operations | talks to | correct means |
|---|---|---|---|---|
| **matching script** `order.lua` | in Redis: the sorted sets `<asset>_bids`, `<asset>_offers`; a hash per resting order; a sorted set per account | match and rest an order | nothing; Redis runs it alone but does not roll it back | the three structures agree; shares move one for one, within limits, in priority; bids and offers that cross trade |
| **submission** `accounts.rs:348` | the request in flight; pending transfers | reserve, create the asset account, run the script | TigerBeetle, then Redis | what rests is covered by what is held, and paid for by what its owner has |
| **cash and holdings** `accounts.rs:225,502` | accounts and balances in TigerBeetle | deposit, withdraw, list holdings | TigerBeetle, PostgreSQL | no overdraft; holdings are the shares one has |
| **users and replica start** `accounts.rs:165,578`, `api.rs:130` | table `users`, funds accounts, what a starting replica has read | register; migrate and set up the admin | PostgreSQL and TigerBeetle, in opposite orders | the admin is ready before anyone is served; funds follow users |
| **login and guards** `auth.rs`, `accounts.rs:545` | tokens held by clients | issue a claim; `AdminCheck`, `UserIdCheck` | PostgreSQL at login only | decisions on a week-old claim are those a new one would give |
| **asset catalogue** `assets.rs` | tables `equities`, `equity_options`, the sequence `asset_id` | batch inserts, lookups and lists by id and by ticker | PostgreSQL | ids unique over both tables, batches all or nothing with a true status, what was created is found, every request ends |
| **listings** `assets.rs:286`, `accounts.rs:469`, `api.rs:68` | the cursor a client follows | page through a sorted set and read each hash | Redis | entries are of orders that rest; nobody is skipped between two pages |
| **journaler** `matching-engine/src/journaler.rs` | ring buffer, per-connection scratch and sequence number, log file | read segments, validate, write | TCP clients | every accepted message is logged once, in order |
| **wire protocol** `protocol/` | `MessageStream`'s buffer | frame and cast messages | | framing survives any sequence of messages |
| **pools and start** `lib.rs`, `main.rs`, `process.rs` | connection pools | connect | all stores | |

## What is hard here

- *A script that may stop halfway.* `order.lua` makes several calls per candidate and
  raises an error at `unpack` (line 60) when it completed more ids than Lua's stack takes.
- *Two stores, two calls.* Between the reservation and the script any other request of any
  replica may run, and the replica may die.
- *Ids that are timestamps* taken before the calls they order (`accounts.rs:360`).
- *Starts that race.* Every replica runs the migrations and sets up the admin before it serves,
  with a secret that may have been rotated since another one read it. A start that fails is
  made again, and should succeed in the end.
- *Batches that race.* Rows of several INSERTs meet in the unique indexes before any of them is
  committed: they wait, in circles too, and a batch that fails takes back all but its ids.
- *Listings without snapshots.* A sorted set trades, grows out of its list encoding, or is
  emptied while a client is between two pages of it.
- *Stale roles.* A claim is believed for seven days.
- *Boundaries.* Price 0 of a market order, size 0, negative prices cast to `u128`, bounds of
  a range that is searched by negated score, an order filled exactly.

`PROJECT.json` lists each of these at its line, with the properties that cover it.

## The modules

### Orders, OrderBook, OrderScript, Trading: the matching script

`Orders` is the shared vocabulary: requests as the script receives them, the record a resting
order has, scores, the two `ZRANGE` ranges, priority, the reservation an order needs. Ids are
natural numbers because Redis compares them to break ties; account and asset ids are opaque.
A hash is a record, so a key that is missing is an id outside `DOMAIN hash`.

`OrderBook` is the script as one step, in closed form: which candidates are completed, which
one shrinks, what is left, what is paid are *sums over sets*, without a loop. `ExecuteOrder` is
a run to its end, `AbortOrder` a run that stops at line 60. `OrderScript` is the same script,
one write at a time: `Start` (lines 3-31), `MatchPartially` and `MatchWhole` (one
turn of the match loop), `MatchEnd`, `Clean` (one turn of the clean loop, with its `ZREM`),
`Remove` (`ZREM` of the book, line 60) or `Abort` (its `unpack` fails), `Delete` (`DEL`, 61),
`Insert`, `Store`, `List` (`ZADD`, `HSET`, `ZADD`, 66 to 75), `Finish` (nothing rests). Between
`Remove` and `Delete` hashes are in no book, between `Insert` and `Store` a member of a book has no
hash, and until `List` its owner does not see it: the structures do not agree *within* a run.
`Kept` and `Stored` name the orders concerned at each phase, so that `StoresAgree` says both that
nothing else is ever out of step and that after every run, an aborted one too, nothing is. The
property `RunsAtomically` says that, seen by other commands, the script implements `OrderBook`; the
variable `visible` is the history that makes this a refinement mapping.

`Trading` is written without looking at keys or loops: orders arrive one at a time, trade
share for share with orders of the other side, never above a buyer's limit and cheapest offer
first, and leave only when filled or, market orders, when done. It promises sellers nothing
about price, because the script gives sellers nothing (see below). `KeepsPromises` maps the
script to it: a completed order counts as filled from its match until it is out of its book, the
order being matched counts before it rests. A run that aborts leaves completed orders in the
book, so it breaks the promise; `OnlyAbortsBreakPromises` says that this one call does and no other.

### Ledger, Exchange: submission, cash, holdings

`Ledger` is external code: TigerBeetle, as far as the API relies on it. Money and shares are
*debits*, and `CREDITS_MUST_NOT_EXCEED_DEBITS` makes posted plus pending credits stay within
posted debits on every account but the admin's cash. `Exchange` extends it and `OrderBook`:

| code | action |
|---|---|
| a market bid: no reservation, the script | `SubmitUnreserved` |
| a limit bid: `create_transfers` on cash | `ReserveCash` |
| an offer: `create_accounts`, then `create_transfers` | `OpenAssetAccount`, `ReserveShares` |
| `invoke_async` of the script | `Submit` |
| any error, a crash, a lost connection | `Drop` |
| the ledger half of `register` and of the admin's start | `OpenCashAccount` |
| `deposit_or_withdraw` | `Deposit`, `Withdraw` |
| `get_equities_for_account` | operator `Holdings` |
| (no code) an operator credits shares to somebody | `Grant` |

The amount held for a bid is `size as u128 * price as u128` (`accounts.rs:374`). The cast extends
the sign, and the product wraps, since what is deployed is the release build
(`.github/workflows/cicd.yaml:44`): a negative price becomes an amount a little below the modulus.
`Reservation` computes just that, modulo `Modulus`, and the ledger decides; nothing in the model
says that negative prices are refused. `ModulusAssumption` is what 2^128 gives: no price times a
size wraps upwards, and no balance reaches an amount that wrapped downwards. A market bid
reserves nothing.

`inflight` holds each request from its first call on with the call it makes next. Reservations
are never posted or voided, as in the code, where the closing transfer is commented out.

### Paging: the two listings

`Paging` extends `OrderBook`. A page (`List` is the first, `Continue` the next) is one step,
because the script runs `ZSCAN` and reads the hashes without a command in between; `Trade` is
any order in between. `ZScan` is external: a small set is a list and comes whole with cursor 0,
a large one is a table of `Slots` slots and a page ends at any slot. `Grown` says when a set
changes between the two. `CursorField` is the reply's optional cursor (`api.rs:121`). A reply's
entries carry no id in either listing (`OrderBookEntry`); `scan` keeps the ids to say what was shown. `scan` is
one client: the entries it was shown are what it keeps, and `stayed` is history, who has been
there since the first page and with what size. Clients read only, so one stands for all.

### Catalogue, Assets: the asset catalogue

`Catalogue` is the promise, one action per request: `Create` the whole batch under new ids, or
`Refuse` with a status that is true of the tables at that instant. `Assets` is PostgreSQL row
by row, for several batches at once:

| code | action |
|---|---|
| `insert_into(..).values(form.0.items)` | `Begin`, then per row `Draw` and `Place` |
| `DEFAULT nextval('asset_id')`, never rolled back | `Draw` |
| the unique index lets the row in, or it waits (`Holds`) | `Place` |
| `get_results`: the rows are committed, the answer may be lost | `Commit` |
| `UniqueViolation`, 409 | `Conflict` |
| `ForeignKeyViolation`, 422 | `Violate` |
| the deadlock detector; any other failure, 500 | `Abort`, `Lose` |
| `list_equities`, lookups and lists by id and by ticker | operators `Equities`, `Found`, `ListOptions` |

The refinement needs no mapping: `tables` and `answers` are the same variables in both.

### Accounts: users, replicas, tokens

Each replica runs `Start` (reads the secret), `ListMigrations` and `Migrate` (each pending
migration is one transaction; one that another replica has applied since it was listed fails
the start), `OpenAdminFunds`, `UpsertAdmin` with its three
outcomes (the email's row gets the password; the admin's row is inserted; the id is taken and
the start fails), and then serves until `Stop`. `Rotate` changes the secret at any time.
`Register` inserts a row, `OpenFunds` opens the ledger account and answers, `Abandon` is the
500 in between. `Login` copies roles into a claim, `Expire` ends it; `AdminCheck` and
`UserIdCheck` are operators on claims. `welcomed` is history: who was told 200.

### Proof and MC modules

`MC_*` modules hold what a `.cfg` cannot say (sets with negative numbers, symmetry). `*Proofs`
modules hold theorems only, and `Sums` the lemmas on finite sums they share. In the model modules
an operator whose comment says *Mutant of X* is a plausible wrong version of X: each property listed in `PROJECT.json` fails when one of
them takes the place of the right one, which shows that the property depends on the code.

## The plan

Done, in this order: `Orders`, `OrderBook`, `OrderScript` and `Trading` (the program's own core
logic), `Ledger` and `Exchange` (the two stores it depends on), `Accounts` (who may call it),
then the migrations and the liveness of a start, `Catalogue` and `Assets`, and `Paging`; a proof
module for each of these components.

What is left: every safety property the runs check is now proved for all values of the
constants, and only liveness is TLC's alone. The journaler is worth a module once its
connections survive their first read (see below).

## The runs

`CHECK_DEADLOCK` is off except in `paging`: ids, requests and batches are finite, so every other
instance stops when they are used up. (In `paging` a client may always start over.)

Fairness is stated where something must happen, and nowhere else:

- `FairAccountsSpec`: weak fairness of each replica's start, `ComeUp`. Kubernetes starts a
  container again whenever it ends, and the runtime polls a start that is not waiting for
  anybody. `Stop`, `Rotate`, `Register`, `Login` have none: crashes, rotations and clients may come or not.
  `ReplicasComeUp` names what fairness cannot exclude: crashes of a start without end, and
  secrets no start can succeed with.
- `FairAssetsSpec`: weak fairness of each statement's `Run`. PostgreSQL goes on with a statement
  that can go on, and its deadlock detector runs after `deadlock_timeout`. A statement that
  waits cannot run, so `BatchesEnd` holds because whoever it waits for ends. Batches are
  finite, so no statement is overtaken forever.
- The matching script and the exchange have none: what the code does after a failure is to stop,
  and what would have to happen eventually there (a reservation released, funds for every
  user) it never does.

| run | module | instance | checks |
|---|---|---|---|
| `order_book` | `MC_OrderBook` | 3 orders, 2 accounts, 1 asset, prices -1, 1, 2, sizes 0 to 3, unpack takes 1 | `BookTypeOK`, `StoresAgree`, `NeverLocked`, `BuyersNeverOverpay`, `FillsBalance`, `OffersTradeInPriority`, `OnlyTradesRemove` |
| `order_script` | `MC_OrderScript` | 3 orders, 2 accounts, prices 1, 2, sizes 1, 2, unpack takes all | `ScriptTypeOK`, `StoresAgree`, `NeverLocked`, `BuyersNeverOverpay`, `RunsAtomically`, `KeepsPromises` |
| `order_script_abort` | `MC_OrderScript` | prices -1, 1, sizes 0 to 2, unpack takes 1 | `StoresAgree`, `RunsAtomically`, `OnlyAbortsHide`, `OnlyAbortsBreakPromises` |
| `exchange` | `MC_Exchange` | 2 traders and the admin, 2 orders, prices -1, 2, sizes 0 to 2, movements of 2, debits up to 2, amounts modulo 16 | `ExchangeTypeOK`, `BackedOrders`, `FundedBook`, `ServesTheBook` |
| `accounts` | `MC_Accounts` | 2 replicas, 2 migrations, a user and the admin, 2 emails, 2 passwords; fair | `AccountsTypeOK`, `SchemaFirst`, `ReadyMeansAdmin`, `FundsFollowUsers`, `ClaimsStayTrue`, `OnlyTheAdmin`, `ReplicasComeUp` |
| `assets` | `MC_Assets` | 3 batches of up to 2 items each, 3 tickers, one of them numeric, 2 terms; fair | `AssetsTypeOK`, `UniqueIds`, `CreatedMeansFound`, `ImplementsCatalogue`, `BatchesEnd` |
| `paging` | `MC_Paging` | 4 orders, 2 accounts, price 1, sizes 1, 2, unpack takes 1, a list holds 1, a table has 2 slots | `PagingTypeOK`, `NobodySkipped`, `ShownIsReal` |
| `order_book_crossed`, `order_script_market`, `exchange_holdings`, `accounts_start`, `assets_ticker` | | the smallest instance that shows it | one property each, violated: see below |

Why these bounds are enough for what they look for:

- *Three orders* give an incoming order two candidates: one completed and one shrunk, two
  completed (which overflows `UnpackLimit = 1`), a tie between the two, and an order that
  rests with a remainder and is matched later. Sizes up to 3 let one order complete two others
  exactly, with a rest, or not; size 0 and price -1 are the forms a client may send and the
  ledger should refuse.
- *`UnpackLimit`* stands for the roughly 8000 values `unpack` takes; 1 makes two completed orders
  one too many. `KeepsPromises` is checked with a limit no run reaches, because an abort breaks
  it, and `OnlyAbortsBreakPromises` with a limit of 1.
- *`Modulus`* 16 stands for 2^128: sizes up to 2 and prices down to -1 wrap to 14 and 15, far above
  the 2 units an account may come to, as the real ones are.
- *Two prices* are enough for better, equal and worse. *One asset* suffices for the books, which
  never touch another asset's keys; the proofs hold for any number.
- *`Amounts` and `MaxDebits`* bound what comes into an account from outside: deposits and grants
  stop at it. Two units pay for one share at price 2 and leave nothing for a second order or
  a withdrawal; as shares they cover one offer of 2 or two of 1. So orders and withdrawals
  compete for the same units in every order of their calls.
- *Two replicas and two emails* let one start while the other serves, read different secrets,
  and find their email taken; two migrations let one replica apply what the other has listed,
  before or between its own. Ids are given at most once.
- *Three batches* of the forms in `MC_Assets` wait for each other in a circle of two or of
  three, repeat a ticker within a batch, bring none, collide with committed rows, and name an
  underlying that is registered, still running or never there.
- *Four orders* fill a table, leave it between two pages, empty the set and refill it. A list of 1
  stands for 128, two slots for a page that may end in between; `NobodySkipped` and
  `ShownIsReal` are proved for any number of slots and orders.
- Symmetry is declared only where no value is named by the module and no liveness is checked:
  the accounts other than the admin. Order ids are ordered and never symmetric.

What the passing runs show, property by property, is in the comments above each definition.
The ones a reviewer is most likely to ask about:

- `NeverLocked` holds although the stronger `NeverCrossed` does not: both ranges include
  the order's own price, so equal prices always trade.
- `OffersTradeInPriority` is about the order of *ids*. Ids are drawn in any order with respect
  to arrival, as now_v7 before two awaits allows, so it is not a promise about arrival.
- `FundedBook` sums over everything an owner has resting at once, so it fails if one reservation
  could serve two orders, or a withdrawal took what is held.
- `ServesTheBook` closes the gap between the two halves: `OrderBook` assumes `Reservable`, offers
  of at least one share and limit bids of a positive size and price. `Exchange` does not assume
  it; what keeps others away is the ledger, which refuses an amount of 0 and one, wrapped from a
  negative price, that no balance covers. With `unsigned_abs` in place of the cast the property
  fails. Market bids reserve nothing and come in any size, which `OrderBook` takes.
- `OnlyAbortsHide` says which orders lose their place in their owner's listing for good: those
  that a run completed before it aborted, and no other, ever.
- `FundsFollowUsers` is about the row and the funds account of whoever was told 200. It does not
  promise that the password still opens it: the admin's start replaces the password of the row
  with the secret's email (`accounts.rs:656-661`).
- `BuyersNeverOverpay` bounds the field `dollar_volume_filled` of a resting bid. What the reply
  tells a seller, or the buyer of a partial last fill, is not bounded by it.
- `ClaimsStayTrue` compares every decision of `UserIdCheck` on an old claim with the one on
  a fresh claim. It holds because no code ever changes a row's roles, which `UpsertAdmin`,
  the only writer that names roles, could easily break.

- `ReplicasComeUp` fails if the upsert did not look for the email before it inserts: a user with
  the admin's email would keep every replica down for good. Its last disjunct excuses a secret whose
  email nobody has, once the admin's id is in the table under another: that start does fail every
  time, by the unique id, and the property makes no claim about it.
- `ImplementsCatalogue` makes a 409 a statement about committed rows (or the batch itself): a
  row of a batch that later rolls back must not cause one.
- `CreatedMeansFound` leaves out lookups by a ticker that reads as a number, which the routes
  never make; `TickerFindsEquity` (run `assets_ticker`) says what is lost with them.
- `ShownIsReal` bounds each entry by two states at different times: what the order had when
  the listing began and what is left of it now.

## Where the code and its words disagree

| run | what happens |
|---|---|
| `order_book_crossed` | `order.lua:1` says "Match an order (market or limit)". Bids are kept by `-price`; a sell at p reads scores from `-p` up (line 23), the bids at p *or below*. A sell passes over every better bid and rests below it; it also trades with worse bids. |
| `order_script_market` | The same line. A market order has price 0 (line 7), so a market buy has the range of a limit of 0 and returns without matching the offer that rests. |
| `exchange_holdings` | `accounts.rs:231` says "List equity holdings for an account." The amount is `credits_posted - debits_posted` (line 265) where shares are debits: one share is listed as -1. |
| `accounts_start` | `accounts.rs:672` logs "finished setting up admin account". If a user has registered the email in the secret, lines 656-658 only replace that user's password: no row under that email has the role. |
| `assets_ticker` | `assets.rs:114` says "Get details for an equity asset with the given ticker." A ticker that parses as an `i32` matches the route by id, which has the lower rank: the equity of that ticker is not found under it. |

## The proofs

Every theorem is for all values of the constants and has a proof that TLAPS (SMT, Zenon, PTL)
checks to its leaves. The constants' assumptions are those of the modules: ids and sizes are
naturals, prices integers, `Admin` an account, `Cash` not an asset.

- **`Sums`**: what the proofs use of `SumFunctionOnSet`, the fold of the community modules. Its
  value on a set is taken from a recursive function found by CHOOSE, so nothing follows from the
  definition before two such functions are known to agree (`IterationUnique`). Every lemma here
  that needs induction is proved by a smallest counterexample: were a statement false of some
  subset of a finite set, it would be false of one none of whose proper subsets is a
  counterexample (`SmallestSubset`, from the well-foundedness of strict inclusion). So a sum does
  not depend on the order of its members (`SumRemove`, `SumAdd`), it is an integer, monotone
  in the set, bounded by a bound on its members, and blind to members of weight 0.
- **`OrderScriptProofs`**: `TypeCorrect`, `StoresAlwaysAgree`, at every phase of a run up to what
  `Kept` and `Stored` set aside there. `StoresAgree` is not inductive: it
  says nothing of the work lists a run deletes by. `ScriptInv` adds that outside a run the lists
  are empty and during one the newcomer has no hash (`Frame`), that `todo` and `done` split the
  candidates until the deletion (`Work`), and that a completed order the clean loop has passed
  is in no account's set (`Cleaned`). One lemma per action.
  `NeverLockedAlways`, from `Swept`: when something is left of the newcomer
  after the loop, every candidate was completed, so after the deletion none is left at its
  price. `BuyersNeverOverpayAlways`, from `MoneyInv`: what a run has paid is within its limit
  times the shares it took, and only bids of a positive price rest, which is where the
  reservation that `Reservable` demands comes in.
  `ScriptRunsAtomically`: the loops implement the closed form. `RunInv` says at each point of a
  run what has been computed in terms of the keys other commands still see: in the match
  loop (`Matched`), that the completed orders are those ahead of all that is left to visit, that
  OrderBook completes them too, and that `left` and `dollars` are the differences and sums
  over them; after it (`Settled`, `Undeleted`, `Deleted`), that it is OrderBook's result up to the
  calls not made yet. The step between the two is `Reached`: the candidate the loop visits has
  exactly the completed ones ahead of it, and those behind it find less by its whole size. Then
  only `Insert` and `Abort` are visible, as `ExecuteOrder` and `AbortOrder`.
- **`TradingProofs`**: `OnlyAbortsBreakPromisesAlways`, every call but `Abort` is a step of
  `Trading` or changes nothing a trader sees: `Start` arrives, the two match actions trade,
  `Remove` retires, `List` and `Finish` settle. Nothing is assumed of `UnpackLimit` or of how many
  ids there are. `ScriptKeepsPromises` is the refinement for the behaviours in which no run aborts
  (`ScriptSpec /\ [][~Abort]_scriptVars`), and a corollary. `OnlyAbortsHideAlways`: an order
  that is hidden was hidden before or is one of those the aborting run completed; it rests on
  `Cleaned`. `ScriptTradesFairly`: through `ScriptRunsAtomically` the three action properties
  proved of `OrderBook` hold of the loops, in every behaviour.
- **`OrderBookProofs`**: `BookTypeCorrect`, `BookStoresAgree` for the closed form, and the lemma
  `ExecuteStep` on what one command may do: shrink or remove what it finds and add at most its own
  order. The rest is about the sweep. `PrefixTaken`: from the candidates up to any point it takes all they have or, if
  that is less, all the newcomer wants; so over all of them what it takes is what the reply
  calls filled (`FilledIsTaken`), which is `BookFillsBalance`. `SweepCompletes`: a newcomer that is
  not filled has completed every candidate, so one that rests has cleared its price
  (`BookNeverLocked`). `DollarsBound`: what a buyer pays is a sum bounded by its limit times the
  shares (`BookBuyersNeverOverpay`, with `BidsPositive`). `BookOffersTradeInPriority`: an offer in
  front of one that is touched finds at least its own size left, so it is completed;
  `BookOnlyTradesRemove`: the shares of a completed order are part of what was taken.
- **`PagingProofs`**: `PagingTypeCorrect`, `NobodyEverSkipped`, `ShownAlwaysReal`, on top of
  `OrderBookProofs`. `NobodySkipped` speaks of finished listings only; the invariant adds that
  while a cursor is given out, everyone who stayed and has a slot below it has been shown
  (`ShownBelow`). `ShownIsReal` survives a trade by `ExecuteStep`: orders only shrink, keep
  their price, and stay in the set they are in (`StaysInBook`).
- **`AssetsProofs`**: `AssetsTypeCorrect`, `IdsAlwaysUnique`, `AssetsImplementsCatalogue`,
  `CreatedAlwaysFound`. The invariant says that a statement's rows are the items it has placed,
  all different (`StatementsSound`), that uncommitted keys are in no table and in no
  other statement (`KeysApart`), and that ids are drawn once. From it each end of a
  statement is shown to be a `Create` or a `Refuse` of `Catalogue`. What `CreatedMeansFound` needs
  (`CatalogueInv`) is proved of `Catalogue` and inherited through the refinement.
- **`ExchangeProofs`**: `ExchangeTypeCorrect`, `OrdersAlwaysBacked`,
  `ExchangeServesTheBook`. The ledger never lets a balance go below 0 (`Solvent`), so an amount that
  wrapped is refused and one that was admitted is size times price (`Unwrapped`, `AdmittedCost`):
  this is where `ModulusAssumption` is used. The invariant ties three stores together: a request about to call the
  script holds exactly its reservation (`Held`, `Covered`), pending transfers are never touched
  again, and no command lets an order rest with more than its request asked for (`ExecuteStep`).
  `BookAlwaysFunded` is about all orders of an owner at once: the invariant also says that the
  pending amount of an account is the sum of the transfers that hold it (`PendingAddsUp`), and the
  orders resting are dominated, one by one, by those transfers (`HoldingsCover`).
  `ExchangeKeepsTheBook` inherits what is proved of the book through `ExchangeServesTheBook`.
- **`AccountsProofs`**: `AccountsTypeCorrect`, `SchemaAlwaysFirst`, `AdminAlwaysReady`,
  `FundsAlwaysFollowUsers`, `ClaimsAlwaysTrue`, `OnlyTheAdminAlways`, from one invariant: past
  the migrations all of them are applied (`MigrationsFirst`), a row's role is a function of
  its id (`RowsKeepRoles`), funds exist before the replica goes on to the row (`AdminFirst`), and
  claims copy rows (`ClaimsCopyRows`).

Only model-checked: liveness, `ReplicasComeUp` and `BatchesEnd`, since fairness and ENABLED are out
of the provers' reach. The runs that expect a violation are counterexamples, which a proof has
nothing to add to.

## What is not modelled

- *The journaler and the wire protocol.* The first connection panics at `journaler.rs:92`
  (`copy_from_slice` of an empty scratch into a grant that is not), so as written the thread
  that accepts connections ends there while the reader spins on an empty buffer. `validate`,
  the commits and the reader's write, which never releases its grant, are not reachable, and
  `MessageStream` has no caller: a model of them would be of another program.
- *Connection pools and process start.* Connections are opened and closed without state of the
  program's own; no request holds two of one pool.
- *Data of the catalogue*: descriptions; expiration, kind and strike price are one opaque value,
  since only their equality matters.
- *The rehashing of a Redis table.* Resizing may return a member twice, which `ZScan` allows; that
  it skips none is Redis' guarantee, taken as such.
- *Unregistered asset ids.* The API takes any `i32`; -1 is the ledger of cash, 0 is refused by
  the ledger. The models take assets to be neither (`CashAssumption`).
- *Widths.* Sizes are `u32`, prices `i32`, Lua numbers doubles: products stay below 2^63 and
  within 2^53 for realistic values. Of the two places where width matters, the
  amount of a reservation is modelled modulo `Modulus`, and the answer parsed as two `i32`s
  (`accounts.rs:421`) changes what the client is told and not what is stored.
- *Time.* Order ids are arbitrary fresh numbers, expiry of a token may happen at any moment.
- *Passwords, signatures, TLS, DNS, pools, formatting and logging.* Encodings are one-to-one and
  abstracted to the values they carry.
