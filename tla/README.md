# pricing-tf: TLA+ models, model checking and proofs

`pricing-tf` is one Rust process (tokio) in front of one PostgreSQL database. It
listens to the event stream of backpack.tf, keeps a filtered copy of its
listings, condenses that copy into two materialized views of prices, and
answers gRPC requests about prices and about blocked users. The models follow
the code under `src/`, paths below are relative to the repository.

## 1. Inventory

| Component | State | Operations |
| --- | --- | --- |
| Block list (`src/api/block_user_service.rs`, `src/db/blocked_users.rs`) | table `blocked_users`; its copy, a `HashSet` behind a tokio mutex | `block_user`, `unblock_user`, `load_all_blocked_steam_ids` |
| Event processing (`src/processing/worker.rs`, `etl.rs`) | table `trade_listings`; the batch in hand, the mutex guard and the connection of the iteration | filter, partition, `filter_unique_listing_events`, `upsert_trade_listings`, `delete_trade_listings`, skip |
| Event stream (`src/processing/worker.rs`) | the websocket, `backoff` | connect, time out, back off, read, disconnect |
| TTL task (`src/db/workers.rs:56`) | none of its own | `DELETE` of rows with an old `bumped_at` every 5 minutes |
| Refresh task (`src/db/workers.rs:13`) and views (`migrations/*trade_item_id/up.sql`) | `mv_prices`, `mv_bot_prices` | `refresh materialized view concurrently`, one view after the other, every minute |
| Key exchange rate (`src/backpack_tf_api/`) | `cached_exchange_rate` behind a tokio mutex | first rate, poll every 10 minutes |
| Pricing service (`src/api/pricing_service.rs`) | none of its own | `GetPricing`, `GetBotPricing`, `DeleteBotPricing`, `GetKeyExchangeRate`, `GetAllBotPricings` |
| Startup and supervision (`src/main.rs`) | the spawned tasks | migrations, the loads, spawning, `select!` |
| Connection pool (deadpool, built in `main.rs:29`) | connections, waiters | `get`, drop |

How they interact:

- The processing task, the request handlers, the TTL task and the refresh task
  share the database and the pool. The pool is built without a wait timeout, so
  `pool.get()` waits for ever. Its size is deadpool's default.
- The processing task and the two block list handlers share the mutex of the
  block list. The task takes it *before* it takes a connection and keeps both
  to the end of the iteration; a handler takes a connection *before* the mutex.
- The processing task reads the cached rate (an own mutex) in the upsert step;
  the polling task writes it.
- The views read the table when they are refreshed; the queries read the views.
- `main` ends the process as soon as one of its tasks ends, by a panic too.

What is hard here: interleavings of the handlers, the stream and the TTL task at
their awaits; dropped handlers (tonic drops the future of a client that went
away); a COMMIT whose reply is lost; a crash between a table and its copy;
messages lost while the socket is down; batches that fail halfway; data that
was right when it was stored (a verdict, a price in keys, `is_automatic`) and
is stale when it is used; the numeric edges of the rate. `PROJECT.json` lists
each hazard at its line.

What makes each component correct:

| Component | Correctness | Where |
| --- | --- | --- |
| Block list | the verdict of the filter holds until the upsert is done; a block in force stays in force; a successful BlockUser leaves no listing; requests look atomic; copy and table agree at rest; no deadlock | `BlockList`, `BlockPolicy` |
| Event processing | no upsert that PostgreSQL must reject; every batch ends | `Etl`, `BlockList` |
| Replica | a row differs from the site only for a reason we can name; a vanished listing vanishes | `Replica` |
| Exchange rate | the rate is the lowest agreed sell price; it follows the market | `ExchangeRate` |
| Views | both follow the table, through failing and abandoned refreshes; who is blocked stays out of them | `Views`, `System` |
| Pricing service | the best is unbeaten; a rate of zero hides offers for a time only; the stream is complete; no recent bot that sells keys for metal asks less than the key rate | `Pricing` |
| Startup and supervision | no task runs before its state is loaded; the end of a task ends the process, so that the views do not stand still; sharing the pool does not disturb the block list | `System` |

## 2. Modules

```
Etl  (batches, the filter chain, the two statements; constant-level operators)
 |-- EtlProofs            lemmas about the statements and the filter of one id
 |-- BlockPolicy          what BlockUserService promises, atomically
 |-- BlockList            the code, await by await; implements BlockPolicy
 |    |-- MCBlockList     instances for TLC
 |    |-- BlockListProofs theorems for all requests (extends EtlProofs too)
 |    |    `-- BlockListOrderlyProofs  theorems for requests apart; BlockPolicy
 |    `-- System          the process: startup, tasks, pool, views
 |         |-- Views      (instance) the views and their refreshing
 |         |-- SystemProofs  theorems (extends BlockListOrderlyProofs too)
 |         `-- MCSystem
 `-- Replica              the stream, the table as a copy of the site, the TTL
      |-- MCReplica
      `-- ReplicaProofs   theorems (extends EtlProofs, Extrema too)
ExchangeRate              the rate of a snapshot, polling
 |-- MCExchangeRate
 `-- ExchangeRateProofs   theorems (extends Extrema too)
Pricing                   from the rows to the answers of PricingService
 |-- MCPricing
 `-- PricingProofs        theorems (extends Extrema too)
Extrema                   lemmas: least, greatest and minimal elements
```

A module's last part holds its properties, each with a comment that says what it
means. Operators introduced by "A faulty ..." are the mutated forms of the
definition that follows them; no specification uses them. `PROJECT.json` maps
every other definition to its lines.

### Etl

An event is its kind, listing id, user, the columns that an upsert refreshes
(`price`) and one flag, `screened`, for the content filters (empty name,
spelled, unusual weapon). Sets of positions of the batch stand for the `Vec`s
the code derives from it, so that "the first event of an id" keeps its meaning.
`UpsertListings` does not touch the seller of an existing row, as
`ON CONFLICT (id) DO UPDATE SET` does not. `OneRowPerId` is PostgreSQL's rule that
one `ON CONFLICT DO UPDATE` may not meet a row twice.

### BlockList

| Variable | Code |
| --- | --- |
| `blocked_users`, `trade_listings` | the two tables, committed contents |
| `blocked_user_steam_ids`, `mutex` | the `HashSet` and the holder of its tokio mutex |
| `conns` | who holds a pooled connection (`PoolSize` is deadpool's `max_size`) |
| `worker_pc`, `batch`, `upserts`, `deletes` | the await of `worker::run` and its locals |
| `rpc` | for each request its await, method and steam id |
| `doomed` | rows deleted by an open transaction, hence locked |
| `running` | the process is up and has loaded the list |

What the code does between two awaits is one action. `FilterBatch` takes the
mutex and filters without a further await; the guard lives to the end of the
iteration, `continue` or not, so `EndIteration` releases it. A handler's guards
are dropped with the handler (`Release`), and so is its open transaction.
The INSERT of `block_user` waits for an open transaction with the same key, and
statements wait for `doomed` rows. The failures, chosen per run:

- `db`: a statement or `pool.get()` fails without effect (`Fail`, `SkipBatch`);
- `lost_ack`: COMMIT takes effect, its reply is an error (`LoseCommitReply`);
- `cancel`: tonic drops the handler at an await; a COMMIT, or the autocommitted
  DELETE of an unblock, that was already sent may run later (`OrphanRuns`);
- `crash`: the process stops at any point, and starts again from the tables.

Simplifications, each checked against the code: the rate mutex is never held
across an await, so reading the rate belongs to the upsert step; the TTL task
holds its connection for one statement and takes no lock, so it is one step;
there is one process; statements in flight at a crash are decided before the
restart (committed just before, or rolled back); an open transaction whose handler
fails or is dropped is rolled back at once, while the pool does so when it recycles or
closes the connection, which only keeps its rows locked a little longer.

### BlockPolicy

Two variables, three steps: block (and lose all listings), unblock, write
listings, none of them for a blocked user. `BlockList!ImplementsPolicy` is this
specification with the two tables for its variables.

### Replica

`site` is the last event of every listing backpack.tf has; `Publish` sends a
message over `channel` when the link is open, and loses it (`lost`) when not.
`link` and `backoff` are the connection loop of `worker::run`: `backoff` is
reset by connecting (`worker.rs:40`) and by every text message (81), doubled by
each wait up to 300 s. `Break` keeps a prefix of what was under way, which the
read loop still drains. `Read` models the garbage path too. Time is the age of
a `bumped_at`, capped at one beyond the TTL. `missed` and `lost` are history:
ids whose last event did not reach the table. Nobody is blocked here; the
content filters are. One steam id suffices, as upserts leave the seller alone.

### ExchangeRate

`get_key_exchange_rate` as an operator on a snapshot (`KeyExchangeRate`), with
the `u16` saturation of `facade.rs:53` and the fallback of line 38, and the
polling task around it. Prices are in thousandths of a refined metal, so that the
rounding to cents is visible; nothing checks them, so that a listing and the rate may
be zero. `priced_from` is history. `NoRate` stands for "no process yet".

### Views

`mv_prices` and `mv_bot_prices` are represented by the rows of the table each
was last built from. A refresh is a statement that sees the table when it begins
(`refresh.rows`) and installs what it saw when it ends, so that the table
changes in between; the task runs one, then the other, and an error of either is
logged and skipped (`RefreshFails`). A statement whose client is gone is dropped
by the server, or becomes the `abandoned` one (`Abandon`), which the server finishes or
gives up at any later time (`EndAbandoned`), when a new process is up and refreshing
too. PostgreSQL locks a view for the statement that refreshes it concurrently, so
that `Finish` waits for an abandoned refresh of the same view. The module has no
specification of its own: it is instantiated by `System`, whose table it reads.

### System

`System` puts the process together. `stage` is where `main` is: migrations,
block list, first rate, then all tasks at once; an error on the way ends the
process, with nothing running yet. `loaded` is `main`'s local list
before it is shared with the tasks. A task that ends sets `ended`, and `main` returns
as soon as it sees it (`Exit`), which drops everything like a crash. Until then
the other tasks go on: `Alive(t)` guards what only task t begins. What is under
way goes on too. The processing task ends by the panic of `to_trade_listing`
(`etl.rs:92`), hence while it upserts, and drops its guards like an iteration
that ends. What the server still executes for a process that is gone needs no process
(`AbandonedStep`).

The refresh task takes its connection from the same pool (`ConnFree`) and keeps
it for both statements. The actors of `BlockList` are reused as they are, split
into those steps that take a connection and those that do not.
`ImplementsBlockList` states that the result is still a `BlockList`, with the
steps of the startup up to `SpawnTasks` as stutters; it is the safety part
that is implemented. `BlockList`'s liveness is checked anew (`BatchesEnd`), as
the pool is shared.

### Pricing

The queries, as functions. The state is the cached rate and the table, written by
polls, upserts and deletions in any order; views and answers are operators on a
table, so that what is said of every reachable table is said of every view
(`Views` gives each view some earlier table). The lists of an item are not
stored but derived: the order of `jsonb_agg` is a preorder (`Precedes`), `get(0)` one
of its first elements (`Best`). `price_keys` is `keys + metal / rate`, that is
`price_metal / rate`, and is compared without division. At a rate of zero it is
infinite or not a number, which `jsonb_build_object` writes as a string, and
`item_pricing.rs` then takes the whole list for an empty one (`Read`). The `rate` of a
row is history. An upsert of an existing row changes its terms and prices, and
leaves item, intent and `is_automatic` alone. `Streams` is the set of answers
`GetAllBotPricings` may give: the stale limit bounds the age and the number of rows.
Nothing keeps a trader from pricing keys in keys. `Expire` is
the TTL seen from a row: a deletion of the row an event has left behind.
`GetKeyExchangeRate` answers from the automatic sell listing of a key with the least
`price_metal` within the hour, else from the cached rate, also when the query fails (`.ok()`).

## 3. Runs

Passing runs:

| Run | Properties | Instance |
| --- | --- | --- |
| `block_list_faults` | `TypeOK`, `VerdictStillValid`, `BlockStaysInForce`, `SuccessLeavesNoListing` | 2 listings, 2 users, 2 requests, 2 connections, batches of one event, all failures |
| `block_list_orderly` | `UpsertHasOneRowPerId`, `BlockedUsersHaveNoListing`, `CopyAgreesAtRest`, `ImplementsPolicy` | 2 requests, two BlockUser of one user among them but no BlockUser with an UnblockUser of the same user (`OrderlySpec`), batches of up to two events (repeated ids, screened events), `db` and `crash` |
| `block_list_live` | `BatchesEnd`, `RequestsEnd` | 2 requests, 3 connections, all failures, fairness |
| `replica` | `TypeOK`, `HeardIsApplied`, `GoneListingsGo` | 2 listings, messages of one event (screened ones too) or of an update and a deletion of different listings, one message under way, all failures, fairness |
| `rate` | `TypeOK`, `RateIsLowestAgreed`, `RateFollowsMarket` | up to 4 sell listings of 3 prices, zero and two that are equal to the cent; failed polls, fairness |
| `answers` | `TypeOK`, `BestAtItsRate`, `StreamIsComplete`, `KeyRateUnbeaten`, `ZeroRateHeals` | 4 listings of a hat and of a key on both sides, a key for a key among them, three rates with zero among them, three ages, every stale limit up to the default, fairness |
| `system` | `SystemTypeOK`, `ImplementsBlockList`, `BatchesEnd`, `BlockedStayOutOfSight`, `BlockedLeaveAnswers`, `ViewsFollowTable` | 1 listing, 1 user, 1 request, 2 connections, failing statements, failing starts, kills, the end of the processing and of the refresh task, an abandoned refresh, fairness |

Runs that find what the code does differently from what it says (a finding of
`PROJECT.json` each):

| Run | Violated | In short |
| --- | --- | --- |
| `block_list_small_pool` | `BatchesEnd` | as many requests as connections: the task waits for a connection with the mutex, the handlers for the mutex with the connections |
| `block_list_race` | `BlockedUsersHaveNoListing` | BlockUser between the two halves of UnblockUser: blocked in the table, not in memory |
| `replica_recreated` | `HeardIsApplied` | deleted and created again within one message: upserted, then deleted |
| `rate_buy_only` | `RateIsLowestAgreed` | no sell listing: the rate is a buy price |
| `views_by_hand` | `OnlyBotListings` | `is_automatic` stays that of the row's first event |

More weaknesses show in the models without a run of their own:

- A COMMIT of `block_user` takes effect and its reply is an error: the user is
  blocked in the table, not in memory, and a retry is refused with
  `already_exists` until the process is restarted (put `lost_ack` into the
  `Faults` of `MCBlockList_orderly.cfg`, and `BlockedUsersHaveNoListing` fails).
- Above 655.35 ref the counter of `facade.rs:53` sees one price (put `Prices =
  {655400, 655500, 655600}` into `MCExchangeRate_polling.cfg`, and
  `RateIsLowestAgreed` fails).
- Rows keep the `price_keys` of the rate of their last event, so that after a
  change of the rate the order of a view is not the one of the rate in force;
  `BestAtItsRate` therefore compares a row with those of its own rate.
- A key listing that asks for keys too is answered by `GetKeyExchangeRate` with its metal
  only (`pricing_service.rs:118`), and rows are compared by the `price_metal` of the rates
  they were priced with: `KeyRateUnbeaten` compares a rival that asks for keys only at one
  rate.
- As long as a row that was priced at a rate of zero is in the table, its list is answered
  as an empty one (`item_pricing.rs:17-21`): `ZeroRateHeals` says that this ends.
- The stale limit of `GetAllBotPricings` is a number of seconds and of rows
  (`pricing_service.rs:161`): `StreamIsComplete` holds only as long as there are no
  more recent items than seconds.

### Bounds, and why they are enough

- Two listings and two users are the least at which a batch can concern a
  listing or user other than a request's. Two requests give every race of two
  handlers, and with the stream and the TTL task four actors on the tables.
  Three requests add no new kind of conflict: the mutex serializes what they do to
  the set, the unique index what they do to one user. In `block_list_orderly` two
  requests run in every order but the one that `block_list_race` is about.
- `PoolSize` is what matters relative to the number of requests: one more than
  requests in `block_list_live` (the processing task always finds a connection),
  equal in `block_list_small_pool`.
- Batches of two events are the least with a repeated id; longer ones repeat
  the same comparison. In `Replica`, an update and a deletion in one message are
  what can fail halfway.
- In `Replica`, `MaxQueue` bounds the messages under way. The task reads one at a
  time, so the second only waits; what breaking a connection loses is a suffix
  either way. `Ttl` is in ticks; 0 or 1 distinguish fresh, kept and expired.
- In `ExchangeRate`, three listings of a price confirm it; four let an
  unconfirmed cheaper one come first, or a dearer one follow.
- In `Pricing`, two listings of an item on one side are the least that can be in
  the wrong order, and two rates the least that can mix; 1 key and 5 metal is
  dearer than 60 metal at a rate of 60, and cheaper at 50. The default stale limit
  is 6 hours; with an hour of 1 unit, ages 1 to 3 and requests at 1, 2 and 4
  fall on both sides of every limit that cuts. An event of the
  same age stands for one that comes later still.
- In `System`, one listing, user and request are enough for a block to meet a
  batch, a refresh and the end of a task; two connections are one more than
  requests. The user is a bot, so that the filter of `mv_bot_prices` excludes no row
  there; `Pricing` exercises it. `Mortal` bounds which tasks may end: the processing
  task, which leaves an iteration half way, and the refresh task, which leaves a statement
  behind; the end of any other leaves nothing but the end of the process, which `Kill`
  brings about too (with all five the run passes as well, but takes four times as long).
  One abandoned statement is remembered at a time: a second needs a second end of the
  process within one refresh. Dropped handlers and lost replies are left to the
  runs of `BlockList`, the steps of which are the same.
- Time and the rate are otherwise unbounded: ages are capped where they stop to
  matter, rates are taken from a small set.

### Fairness, and why the code justifies it

- `WF` of the steps of a task that waits for nothing but the executor or the
  reply to a statement: tokio polls a ready task, PostgreSQL replies or the
  connection fails (`db`), and either is a step. A task that waits for the pool or
  for a locked row is not such a task (`WorkerWaits`, `StatementWaits`): it may
  fail, but nothing makes it, as the pool has no wait timeout.
- `SF` of taking the mutex and of taking a connection: tokio's mutex and
  deadpool's semaphore queue their waiters in order.
- `WF` of the clock and of the TTL `DELETE`, which is tried again every five minutes
  (a failing one leaves everything as it is and is a stutter here).
- `SF` of the success of a refresh and of a poll: they are repeated for ever, and
  the properties that need them are about "not all of them fail".
- `SF` of receiving an answer of the site: besides, it presumes that every request ends,
  although the HTTP client is built without a timeout (`facade.rs:17`).
- `WF` of `Expire`: the clock overtakes a `bumped_at` that stays as it is, and the TTL task
  deletes the row. Nothing is assumed of the rate, nor that a listing is heard of again.
- `WF` of `Exit`: `select!` polls the handle of a task that has ended.
- `WF` of `AbandonedStep`: a statement ends, whether its client is there or not.
- None is assumed of clients, of the stream, of the site, of crashes, or, in `BlockList` and
  `System`, of starting again: `main` returns `Ok`, and the compose files give it no restart
  policy. `Replica!Restart` stops and starts the process in one step, so that
  `GoneListingsGo` does presume that a process that stops is started again.
  `RateFollowsMarket` and `ViewsFollowTable` speak of what has settled.

## 4. Proofs

Proved with TLAPS, for every value of the constants. A theorem's hypotheses stand
in its `ASSUME`; what they are and why they are needed follows below. Every
property named here is also checked by a run.

| Module | Theorem | States | Hypotheses |
| --- | --- | --- | --- |
| `BlockListProofs` | `Invariance` | `Spec => []IInv` | |
| | `TypeCorrect` | `Spec => []TypeOK` | |
| | `VerdictCorrect` | `Spec => []VerdictStillValid` | |
| | `UpsertCorrect` | `Spec => []UpsertHasOneRowPerId` | |
| | `BlocksStay` | `Spec => BlockStaysInForce` | |
| | `SuccessesAreClean` | `Spec => SuccessLeavesNoListing` | |
| `BlockListOrderlyProofs` | `BlockedHaveNone` | `[]BlockedUsersHaveNoListing` | requests apart, COMMIT heard |
| | `CopyAgrees` | `[]CopyAgreesAtRest` | the same |
| | `PolicyImplemented` | `ImplementsPolicy` | the same |
| | `OrderlyService` | `OrderlySpec` implies all three | COMMIT heard |
| `SystemProofs` | `SystemInvariance` | `SystemSpec => []SystemInv` | |
| | `SystemTypeCorrect` | `SystemSpec => []SystemTypeOK` | |
| | `SystemIsBlockList` | `SystemSpec => ImplementsBlockList` | |
| | `SystemKeepsBlocks` | `SystemSpec => BlockStaysInForce` | |
| | `SystemImplementsPolicy` | `ImplementsPolicy`, of the process | requests apart, COMMIT heard |
| | `BlockedRemainHidden` | `SystemSpec => BlockedStayOutOfSight` | |
| `ReplicaProofs` | `TypeCorrect` | `Spec => []TypeOK` | |
| | `HeardEventsAreApplied` | `Spec => []HeardIsApplied` | sober messages |
| `ExchangeRateProofs` | `TypeCorrect` | `Spec => []TypeOK` | |
| | `RateIsAgreed` | `Spec => []RateIsLowestAgreed` | expected snapshots |
| `PricingProofs` | `TypeCorrect` | `Spec => []TypeOK` | |
| | `BestPricesAreAnswered` | `Spec => []BestAtItsRate` | |
| | `StreamsAreComplete` | `Spec => []StreamIsComplete` | finite table |
| | `KeyRateIsUnbeaten` | `Spec => []KeyRateUnbeaten` | |

### Assumptions and hypotheses

The assumptions on constants are `EtlAssumption`, `BlockListAssumption`,
`SystemAssumption`, `ReplicaAssumption`, `ExchangeRateAssumption` and
`PricingAssumption`, each in the module that declares the constants; TLC
evaluates each of them in the runs of the module. They type the constants, and
say besides: bots are users and where processes end statements fail too
(`SystemAssumption`: to `BlockList`, a task that panics half way through an
iteration is a failed statement); `NoListing` is not an event (`ReplicaAssumption`).

The hypotheses of single theorems. All of them hold in the passing run that checks
the property.

- *Requests apart* (`RequestsApart`): no BlockUser is served at the same time as an
  UnblockUser of the same user, while all other requests interleave, two BlockUser of
  one user among them. Needed: `block_list_race` refutes `BlockedUsersHaveNoListing`
  without it. It is a condition on behaviours (`Spec /\ []RequestsApart => ...`); a
  service whose clients keep to it is `OrderlySpec` (`OrderlyService`).
- *COMMIT heard* (`EveryCommitIsHeard`): no COMMIT loses its reply and no handler is
  dropped, of a BlockUser or of an UnblockUser; statements may fail and processes crash. Needed: see the first
  weakness in section 3.
- *Sober messages*: no message names a listing twice (`OneEach`; needed:
  `replica_recreated` refutes the property without it) and a listing always belongs
  to the same user (`OwnedBy`; an upsert leaves the seller of a row alone,
  `etl.rs:55-63`, so a listing that changed hands would differ from the site).
- *Expected snapshots* (`AsExpected`): the site sorts sell listings by price, as
  `payloads.rs:33` says; the first listing is one, as `facade.rs:38` assumes
  (needed: `rate_buy_only`); prices are within the `u16` of `facade.rs:53`
  (needed: the second weakness in section 3).
- *Finite table*: there are finitely many listing ids, without which a set need have no
  `MAX`.

### The arguments

**The block list.** `VerdictStillValid` is not inductive: a handler that adds to the
set while the task waits for its connection would break it. `MutexHolder`
says who may be where while the mutex is held, hence that no handler can be
about to add. `SuccessLeavesNoListing` needs more: from the DELETE of the
transaction to the answer, no listing of the user may appear outside of what
the DELETE saw (`NoneEscapes`). Deletions by others are harmless;
an upsert is excluded because the handler holds the mutex, hence the task is
not in its guarded stages. `BlockStaysInForce` is a step property: from
`IInv`, no step but the call of an unblocking ends a clean block, since an
upsert by the task respects the set (`VerdictStillValid` and `UpsertForOthers`:
an upsert gives no listing to a user none of whose events it applies), a
restart reloads the table (`DownIsIdle`), and unblocking steps need a request.
The other conjuncts type the variables and tie stages to methods.

**Requests apart.** Table and set differ while a block waits for the reply to its
COMMIT and while an unblock waits for the mutex. `SInv` says that they differ by these
requests only (`CopyFollows`), that what such a request did to the table is
still so (`TableIsAhead`), which is where `RequestsApart` enters, and that an open
transaction has deleted exactly the listings of its user (`DoomedExactly`), so that
COMMIT leaves none. At rest there is no such request, hence `CopyAgreesAtRest`. The
refinement of `BlockPolicy` is then step by step: COMMIT is `Block`, the DELETE
of an unblock is `Unblock`, the statements of the task and the TTL are
`WriteListings`, which may not write for a blocked user (`VerdictStillValid` and
`CopyFollows`), and every other step leaves both tables alone.

**The process.** That the process implements `BlockList` needs two facts that neither
speaks of alone (`SystemInv`): as long as the process is not up its tasks do nothing,
which is `DownIsIdle` of `IInv`, and so the list that `main` has read is still the
one in the table when the tasks are started (`LoadedIsCurrent`). The invariants
prove each other: a step of the process is one of `BlockList` because of `IInv`, and
keeps `IInv` because it is one of `BlockList`. `BlockList`'s theorems then hold of
the process; `SystemKeepsBlocks` and `SystemImplementsPolicy` are two.
`BlockedRemainHidden` adds the views: a statement, of this process or of an earlier one,
sees the table when it begins and installs what it saw, so that a user who is in none of
the table, the views and the statements under way can only come back through the table,
which `BlocksStay` excludes until an unblocking is called.

**The replica.** `HeardIsApplied` speaks of the table and of ids about which nothing
is under way; to be inductive it must say what the events under way will do. The
last event queued about an id, unless one was lost since, is what the site has
(`QueueIsCurrent`), and so is the event in hand when nothing about its id is queued
(`BatchIsCurrent`): each step from the site to the queue, from there to the batch
and into the table hands this fact on. `LinkStages` ties the lost ids to the gap
between two connections, `RowsOwned` and `AllSober` make an upsert write
exactly what the event says.

**The rate.** The loop of `facade.rs` returns at the first sell listing whose
price has been counted three times. `ConfirmedAreThree` and `ThreeAreConfirmed` turn
"counted so far" into "three listings of the snapshot have it"; the order of the
snapshot makes the first confirmed one the lowest (`RateOfSnapshot`), however long
the snapshot is. `RateInv` is that the cached rate is that of `priced_from`.
`TypeCorrect` needs no order and no bound of the prices: whichever way the loop ends, the
rate is the price of some listing of a snapshot that has one (`RateIsAPrice`).

**Prices.** `TypeOK` of `Pricing` is inductive: it holds what an upsert must keep
together, the price in metal and the terms and rate it comes from. Everything else is
about one table, so it is proved of every `Sound` table and then of both views
(`BotRowsAreSound`). At one rate, `price_keys` orders like the price in metal
(`LessAtSameRate`), if the rate is not zero, which `Read` sees to. `MAX(bumped_at)`
exceeds a moment if and only if some listing does (`UpdatedAtIsLatest`), which turns
`Fresh` into the set of recent items; a subset as large as a finite set is that
set, so a stream within the limit is complete. `KeyRateUnbeaten` compares rows
priced at different rates, some of them in keys. What holds across rates is that the metal
asked is at most `price_metal`, and is `price_metal` when no keys are asked
(`PriceBounds`): the row with the least `price_metal` asks no more metal than a rival that
sells for metal alone. At one rate `price_metal` is what a row is worth
(`CheaperIsUnbeaten`).

The strengthenings `IInv`, `SInv` and `HInv` were checked with TLC on the
instances of the runs before they were proved.

### Only model-checked

- Liveness under fairness, which is out of the prover's reach: `BatchesEnd`,
  `RequestsEnd`, `GoneListingsGo`, `RateFollowsMarket`, `ZeroRateHeals`,
  `BlockedLeaveAnswers`, `ViewsFollowTable`.
- `OnlyBotListings`, which the code violates.

Every safety property of a passing run is a theorem.

## 5. Not modelled

- `DeleteBotPricing`: PostgreSQL refuses `DELETE` from a materialized view
  (`pricing_service.rs:103`), so that the request fails and changes nothing.
- How rows are streamed over a connection that has gone back to the pool
  (`pricing_service.rs:172`): decided by diesel_async.
- The connections that the requests of the pricing service hold for one query
  each: they wait for nothing while they hold them.
- Arguments that chrono cannot represent: they panic a handler, which tonic
  answers with an error, or the TTL task, which is one of the ends of `TaskEnds`.
- Configuration, status codes, generated stubs, logging, statistics, the dump
  of messages that do not deserialize: no order of steps, no shared state.
- Which JSON deserializes, and the regular expression of spelled items: they
  decide data (`garbage`, `screened`), for which both outcomes are checked.
- Migrations run once, before everything else, as one synchronous step.

Differences between documents and code that need no run: `README.md:11` says
"lowest buy price and highest sell price", the views (and line 28) take the
highest buy and the lowest sell price; `README.md:22` gives a TTL of 6 hours and
`config.rs` 24; the README describes MongoDB collections, the code PostgreSQL.

## 6. Plan

In order:

1. `BlockList`, `Etl`, `BlockPolicy` with their theorems, `Replica`,
   `ExchangeRate` and `Pricing` with their runs: done.
2. The requests of `PricingService`, with the two sources of the key rate, the
   stale limit as a row limit and lists that do not deserialize: done (`Pricing`).
3. Startup in `main`'s order and the supervised tasks: done (`System`).
4. The composition of the block list with the views: done (`System`, `Views`).
5. Proofs of the safety properties of `BlockList`, `System`, `Replica`,
   `ExchangeRate` and `Pricing`, and of both refinements: done.
6. Proofs still worth having: that at any time a view shows the table of some earlier
   moment, through abandoned refreshes (`BlockedRemainHidden` is this for blocked users);
   `HeardIsApplied` without `OwnedBy`, for the
   columns other than the seller.
