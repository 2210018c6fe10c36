# Verification of the AxCom backend

TLA+ models of the AxCom commerce backend (`src/axcom-backend/internal`), the TLC
configurations that check them on small instances and the theorems the TLA+ proof system
checks for every size. Paths below are relative to `src/axcom-backend/internal` unless they
begin with `src/`.

## 1. The system

AxCom is a Go server of one or more processes over a shared database (Postgres, or MongoDB).
Each HTTP request runs on a goroutine of its own. The modules under `core/` own tables and
talk to each other through small interfaces and through an event bus; an event bus of a
process keeps its events in memory and runs every handler on a goroutine of its own. Very
little is done in a database transaction: most operations read a row, decide in memory and
write the whole row back without a condition. That style is where the hard behaviour is.

| Component | State | Operations | Interacts with |
|---|---|---|---|
| Orders (`core/orders`) | orders and their items | create, transition (pay, ship, complete, cancel), read | reads the catalog; publishes `order.*`; handles `payment.succeeded` |
| Payments (`core/payments`) | one payment per order | create intent, confirm, refund, webhook | provider (external); reads orders; publishes `payment.*`; handles `order.cancelled` |
| Event bus (`events/bus.go`) | subscribers, wait group, closed flag, dead-letter channel | subscribe, publish, retry, close | every module |
| Outbox and relay (`events/outbox.go`, `relay.go`, `idempotency.go`) | outbox table, deduplication table, relay goroutine | store, poll, mark, stop; check and mark an event | database, bus |
| Inventory (`core/inventory`) | stock per location, reservations | reserve, release, set, configure, adjust, transfer, sync, delete | publishes `stock_changed` |
| Catalog (`core/catalog`) | products with a version, categories, variants, reviews, images, discounts | commands and queries; stock handler | handles `stock_changed`; cache |
| Cart (`core/cart`) | cart per customer or session | add, change, remove, merge, clear | reads the catalog |
| Shipping (`core/shipping`) | shipments per order | create, update status, delete, track | reads orders; publishes `order.shipped` |
| Auth (`core/auth`) | users, refresh and reset tokens | register, login, refresh, logout, reset, link OIDC | gateway middleware |
| Cache manager (`infra/cache`) | two levels of cached values, in-flight calls | get or fetch, invalidate | catalog |
| Rate limiting (`gateway/middleware/ratelimit.go`) | buckets in Redis and in memory, health of Redis | allow, probe, expire | Redis |
| RabbitMQ bus (`events/rabbitmq.go`) | connection, retry tiers | publish, consume, reconnect, close | broker |
| Migrations (`migrate`) | table of applied files | up, down, seed, verify | database |
| Engine (`engine`) | order of modules, container | start, shutdown | all |
| Notifications, dashboard, storage, `pkg`, `cmd`, docs site | none that matters here | log, read, write files | |

What is hard, and what makes each component correct:

* **Orders and payments.** A transition is a read, a decision and an unconditional write; the
  capture of money happens at a provider whose answer can be lost; the two tables agree only
  through events that live in the memory of a process. Correct means: nothing is shipped
  that was not paid, money goes back only where it was taken, and a payment that was taken
  reaches its order.
* **Event bus.** `Publish` counts its goroutines under a lock and starts them after it, while
  `Close` waits for the counter and closes a channel those goroutines may still send to.
  Correct means: no send on a closed channel, no slot taken after the wait, every attempt
  accounted for, and `Close` returns.
* **Outbox.** A poll is a fetch, publications and an update; any of them can be the last step of
  a process. Correct means: what is marked was published, what was published is accounted
  for, an event is not skipped by a consumer that never handled it.
* **Inventory.** Reservations, rollbacks and transfers save absolute quantities computed from an
  earlier read. Correct means: units do not appear or vanish for reasons other than the known
  lost updates, and a stored quantity below zero is one a backorder limit allows. That the last
  units are not sold twice is what the domain's README promises and the code does not keep.
* **Cache.** A fetch, an invalidation and a backfill of L1 from L2 overlap, other processes keep
  their own L1, and a delete in Redis can fail. Correct means: one fetch for those who miss
  together, nobody waits for ever, and a replaced value is served for a bounded time only.
* **Auth.** A login, a link or a reset writes back a whole user row it read earlier; the session
  limit, the rotation of a refresh token and the end of all sessions at a reset are transactions that
  lock nothing. Correct means: an account is locked when its counter says so, a reset ends what
  was there before it, and what races can add is bounded.
* **Rate limiting.** Two stores, a health flag and timestamps that reach the script out of order.
  Correct means: no store hands out more than its burst and one token per refill time.
* **Shipping, cart, catalog.** Check-then-insert and read-modify-write on whole rows, documents and
  lists, on two databases whose transactions differ. Correct means: an order that was shipped is
  announced unless its process stops between the write and the publication, carts stay within
  their limits, the categories stay a forest as far as requests do
  not race, a product stays well formed when they do, what was deleted stays deleted.
* **RabbitMQ.** A message is published to a tier and then acknowledged; the connection can end
  in between, and handlers outlive it. Correct means: what the broker has queued is
  handled, queued, held by a consumer, or a dead letter after every tier.
* **Migrations.** Several commands, each killed at any call. Correct means: the tables are those
  `schema_migrations` records, and a command that says it succeeded has done its work.
* **Engine.** Sorting walks Go maps, whose order is arbitrary. Correct means: no module is initialised
  before one it needs, and a cycle is reported exactly when there is one.

## 2. Plan

| Step | Modules | State |
|---|---|---|
| 1 | `EventDelivery`, `Orders`, `Payments`, `Checkout`, `CheckoutProofs` | done |
| 2 | `EventPromise` (abstract), `LocalBus`, `LocalBusProofs` | done |
| 3 | `Inventory`, `InventoryProofs` | done; alerts and history tables, which only record, are left out |
| 4 | `Outbox`, `OutboxProofs` | done for the Postgres repositories |
| 5 | `Cache`, `CacheProofs`: the two levels, single flight, invalidation racing repopulation | done for one key |
| 6 | `Database`, `Sessions`, `RateLimit`, `MCGateway` | done |
| 7 | `Shipping`, `Cart`, `Categories`, `Products`, `Reviews`, `MCStorefront` | done |
| 8 | `RabbitMQ`, `Migrate`, `Startup`, `MCPlatform` | done |
| 9 | `PlatformProofs` (sessions, rate limiting, RabbitMQ, migrations, start) and `StorefrontProofs` (shipping, carts, products, reviews, categories) | done |
| 10 | `SumProofs`, and with it the units of the inventory; the money of cancelled orders in `CheckoutProofs` | done |
| 11 | `SalePromise` (abstract) implemented by `Checkout`, `OutboxPromise` (abstract) by `Outbox` | done |
| 12 | the pool of connections under readers that hold two; the items and totals of orders | open |

The components of steps 6 to 8 do not share state with each other, so one `MC` module extends several
and lets one move while the others rest: the run visits the sum of their states, not the
product. The abstract specifications are `EventPromise`, `SalePromise` and `OutboxPromise`, each
implemented by a detailed one; another one worth having is a linearizable stock row that
`Inventory` implements when nobody else saves.

## 3. Modules

### Checkout: `EventDelivery`, `Orders`, `Payments`, `Checkout`, `SalePromise`

One process. `proc[w]` is what goroutine `w` runs: an API request or a handler, with the call it
makes next (`at`) and its local variables. Every database statement and provider call is a step,
so that anything can happen between two of them.

* `EventDelivery` models `LocalEventBus.Publish` and `invokeHandlerWithRetry`: a publication adds
  to `spawned`, a free goroutine picks it up, an operation that returns an error is retried up to
  `MaxRetries` times and then dead-lettered. Here `dead` means "given up": the bus may drop
  the event instead of queueing it when the channel is full, which `LocalBus` models.
* `Orders` models `TransitionOrder` (`core/orders/service.go`) and `OrderRepository.Update`. The
  state machine is the relation `Transitions`; the write carries no condition.
* `Payments` models `CreatePaymentIntent`, `ConfirmPayment`, `RefundPayment` and
  `handleOrderCancelled` over a table with a unique index on the order, and the provider, which can
  fail without effect or take effect and be reported as failed.
* `Checkout` composes them and adds `Crash`: goroutines, handlers and dead letters are gone, tables
  and the provider stay.

`SalePromise` is what the shop may rely on, without goroutines, events or rows: how far an order has got
(`reached`, which is `held` of the checkout), which charge it names, and what the provider has taken and
paid back. Everything between a request and its answer is one of its steps or none.

The services publish directly and not through the outbox: `NewEngine` sets `container.Outbox` only
after the modules' `Init` (`engine/engine.go:341-353`), so they run with none. Identifiers come from
`crypto/rand`, which does not fail in the Go version of `go.mod`.

Left out: amounts, customers and items, the reading endpoints, the topics whose handlers only
log, and time; an intent that is older than 24 hours is any intent.

### Event bus: `EventPromise`, `LocalBus`

`EventPromise` is what a publisher may rely on: an accepted event is handled by every subscriber
or given up after `MaxRetries` attempts, and never later. `LocalBus` is `events/bus.go`: `CheckOpen`
and `Accepts` are the two looks at `closed` under the read lock, `Publish` takes the slots of the
wait group, `Launch` starts a goroutine afterwards, `Attempt` runs the handler, `SendToDLQ` is the
non-blocking send, `Done` gives the slot back, `Close`, `Wait` and `CloseDLQ` are the lines of
`Close`. One topic; subscriptions are made before the start, as the engine does.

### Inventory: `Inventory`

`stock[k]` is the stock row of location `k`; `proc[w]` the operation of a goroutine with the copy of
the row it read (`Save` writes the copy, not a difference); `pending` holds the
`stock_changed` handlers not yet run and `catalog` the catalog's copy of the quantity. Reserving, releasing, setting,
configuring, adjusting, syncing, transferring and deleting are modelled with their rollbacks,
failing statements and a crash, and so is the catalog's handler of `stock_changed`.
Left out: the alert and history tables. The expiry time of a reservation is read by nothing in
the source, so no step ends a reservation by time.

### Outbox: `OutboxPromise`, `Outbox`

Several processes share the table `row` and the deduplication table `seen`. `Fetch`, `PublishNext`,
`MarkPublished` are the parts of `OutboxRelay.poll`, `Stop`, `Exit`, `StopReturn` those of `Stop` and
`run`. `Check`, `Handle` and `Mark` are `WithIdempotency` on a goroutine of the bus.
`FOR UPDATE SKIP LOCKED` is a statement of its own, so its locks end with it and do not appear.
Nothing in the running server stores into the outbox or wraps a handler yet; the producers
follow the interface and the documentation. One handler consumes the events. A failing fetch,
`Exists` or handler is bounded by attempts or is a stutter; a failing `MarkPublished`, `Mark`,
publication or a crash counts against `MaxFaults`.

`OutboxPromise` is delivery at least once: records, the events of which some copy is under way, what was
handled, skipped or lost. Its `copies` are the events a relay has published that still wait for a
goroutine or are with one (`Copies`), however many copies that are.

### Cache: `Cache`

One key, since keys do not interact. `l1[p]` is the entry of process `p`, `l2` the one in Redis, each a
version with the ticks it has left; `pc[w]` is the call a goroutine makes next. `MissL1` to `SetL1`
are `GetOrFetch`, with singleflight's `Do` split into joining (`Do`), fetching (`Fetch`) and the end
of the flight (`Land`, `Fail`), after which everyone who shared the result stores it, as in the code.
`Commit`, `DelL1` and `DelL2` are an update followed by `Invalidate`. An update may not list the key:
`UpdateProduct` invalidates the variants of the new product and the stock handler one variant, while
the cached value of every variant is the whole product.

Left out: the null sentinel. `Set` stores it as JSON, in quotes, so that no comparison with
`nullSentinel` finds it (`memory/adapter.go:121`, `manager.go:120`), but no caller's `fetchFn` returns
`(nil, nil)`, so that the branch does not run. A deleted product is one whose fetch fails.

### Databases: `Database`

What the modules below share: `backend`, which is Postgres or MongoDB, and `Commits`. A statement
reads in one step and writes in another. `PgCommits` always holds: at the default level
(READ COMMITTED) a transaction writes over what others have committed; `MgCommits` refuses when
a document it is about to write has been changed since its snapshot, and the driver runs the
transaction again. Repository methods come in pairs, `Pg...` and `Mg...`, each from its own
adapter, and `On` picks one; where the adapters differ the model differs.

### Auth and rate limiting: `Sessions`, `RateLimit`

`Sessions` is `core/auth/service.go` over both repositories, and the middleware that links an OIDC
subject. `users` is the table, `refresh` and `resets` the tokens in the order of their insertion,
`req[r]` the request `r` with the row it has read and, in `since`, the time it began, which is
`created_at` of the token it stores. The limit revokes the oldest tokens by that time and not by
their insertion; equal times come in any order. Register, login with its counter and lock,
rotation, logout, both halves of a password reset and linking are handlers whose statements and
transactions are steps; `cut[e]` records the tokens there were at the last reset of `e`. The
commit of a reset is one step, at its last statement, the one that reads the sessions: what the
transaction wrote before is invisible until the commit and blocks others that write the same rows,
and a session stored between that statement and the commit is above the cut like a later one.
Hashing, token strings, roles and validation of input are left out.

`RateLimit` is `gateway/middleware/ratelimit.go`. One unit of time is the time a token takes to
refill. `rl[c]` is a request that has read the clock (`at`) and passes the buckets in turn; the Lua
script runs later, so a bucket sees times out of order, and the script sets its clock back
as the code does. `RedisError` falls back to memory, `Promote` is the probe, `ExpireKey` the TTL in
Redis and the janitor in memory. A Redis that forgets its data at a restart is not modelled.

### Storefront: `Shipping`, `Cart`, `Categories`, `Products`, `Reviews`

* `Shipping` is `core/shipping/service.go`: the three rate calculators, `CreateShipment`
  (check and insert in one transaction that locks nothing; a failed read skips the check, which
  `unchecked` records), `UpdateShipmentStatus` (writes the row it read, history included, and
  publishes `order.shipped` after the commit), deletion, listing and tracking. `cut` records the
  orders whose event was lost because the request ended before it. The branch that stores the event
  in an outbox does not run: the module reads `c.Outbox` in its `Init`
  (`modules/shipping/wiring/module.go:48-54`) and the engine sets it afterwards.
* `Cart` is `core/cart` with the merge after login: each request reads a cart, looks up the variant,
  and saves the whole cart; a read of an old cart empties it; a merge adds the lines of the
  guest one by one and then deletes the guest's cart. `peak` is the most each variant has had in stock.
* `Categories` is the category part of the catalog core: every check before a write is a read of its own.
  `raced` becomes true when a request writes after another one wrote under its checks; a write
  that changed nothing does not count. When the list of slugs cannot be read their check is skipped,
  and the unique index decides (`listed`).
* `Products` is one product with variants, images, discount and version. An edit of a list
  reads the list and writes it whole (`PutList`): Postgres deletes and inserts, so what another
  transaction has committed meanwhile can stay; MongoDB sets the list. A client may send the ids of
  variants, equal ones too: nothing checks them but the primary key on Postgres. The filters and
  pages of both
  adapters are operators checked against each other over small inputs (`FiltersAgree`, `ShownRight`
  in the type invariant).
* `Reviews`: submitting (check, then insert), editing, replying, deleting, ratings.

### Platform: `RabbitMQ`, `Migrate`, `Startup`

`RabbitMQ` is one topic of `events/rabbitmq.go`: `main[m]` and `retry[m]` count the copies of a message in
the broker's queues, `loop[c]` is a consuming goroutine, which works on after its connection
has ended, `UseConnection` to `Replay` are the loop that reconnects, `Close` and `CloseConnection` the end.
A loss cuts the stream of a channel between the publication to a tier and the acknowledgement, or before
both. All handlers of a topic consume one queue.

`Migrate` is `migrate`: `up`, `down`, `seed`, `verify` and the check of a starting server, for several
operators at once, each of which may fail or be killed at any call. A version stands for its tables;
the transaction of a file holds the locks its statements take. `Startup` is `NewEngine` with
`depgraph.go`: the enabled modules and their dependencies are any (`requires` is chosen at the start), the
order of map iteration is any.

## 4. Runs

| Run | Configuration | Question | Bounds |
|---|---|---|---|
| `checkout_safety` | `MCCheckout.cfg` | do orders, payments and provider stay consistent | one order, two goroutines, five requests, two failures, a crash |
| `checkout_liveness` | `MCCheckoutLive.cfg` | does everything end, do payments reach orders | three requests, one failure, a crash |
| `checkout_double_refund` | `MCCheckoutRefund.cfg` | is money refunded at most once | one goroutine, one failure |
| `local_bus` | `MCLocalBus.cfg` | does the bus keep its promise | two events, two handlers, two callers of `Close`, a channel of one |
| `inventory` | `MCInventory.cfg` | vanished units, quantities below zero | two locations, two reservations, two goroutines, three requests, one failure |
| `outbox` | `MCOutbox.cfg` | is a stored event published and accounted for | two processes, two events in a batch, one handler goroutine, two attempts, one failure |
| `outbox_relays` | `MCOutboxRelays.cfg` | do two relays share a record | the same, no failure |
| `cache` | `MCCache.cfg` | is staleness bounded, does every call return | two processes, three goroutines, one update, one failure, lifetimes of 1 and 2 ticks |
| `gateway` | `MCGateway.cfg` | do limits and locks survive races | one account, two requests, four refresh tokens, one reset, both databases; two callers, two checks, three ticks |
| `storefront` | `MCStorefront.cfg` | does what the shop stores stay sound | two requests on either database; three shipments, two carts, three categories, two variants and images, two reviews |
| `catalog_conflict` | `MCStorefrontConflict.cfg` | is a conflict reported only when there is one | the same |
| `platform` | `MCPlatform.cfg` | are events, tables and the order of modules kept | one event, two handlers, one tier, two lost connections; two operators, three modules of up to two versions; any dependencies among three modules |

Why the bounds are enough. The operations on one order never read another order, so one order
with its intents is the unit of interference; every race in the source is between two
operations on it, and five requests allow create, confirm, cancel, refund and a repetition. Two
failures allow a failed provider call whose compensation fails too. For the bus, the interesting
cases are a publisher between check and count while the closer waits, and a full channel:
one slot for four deliveries. For the inventory a transfer needs two locations, a lost update
two goroutines, and a third request shows what the lost update leads to. For the outbox,
two processes and a batch of two show every order of fetch, publish and mark; the handler's
goroutines interfere only through `seen` and `handled`, and the proof covers any number of them. For
the cache, two goroutines in one process share a fetch while a third uses another L1; the bound
of the staleness is reached (with the bound one lower TLC finds a longer-lived copy), and
that needs one update only. For the gateway, two requests over a limit of two sessions show
a limit exceeded by one and a token with two successors, and a threshold of one failure lets a
login race with the failure that locks. A second bucket is explored while the clock is at most 1,
the first one up to its end, so that it is dropped when idle, by the janitor and by its TTL, and
starts again; the proof of `GrantsBounded` covers any number of buckets, ticks and drops. For the storefront every race in the source is between
two requests on one row; a third category is needed for a loop that neither request closes alone.
The constraints of the `MC` modules, each with its comment, leave combinations out where the
parts do not interact (a second shipment together with MongoDB, discounts beside concurrent
edits of lists, ids chosen by a client with two requests, a taken slug with two requests, moved slugs
beside a product, a second shipment after an event was cut off). A failed read is explored with up to two shipments without a later status. For RabbitMQ, one event and two handlers suffice because events
interfere only through the connection; the second loss falls on a reconnection, and the proof covers
any number of each. For migrations two operators show every pair of commands.

What the passing runs show:

* `PaidMeansCaptured`, `NoStepSkipped`, `RefundsAreBacked`, `AutoRefundFollowsCancel`: the
  unconditional writes never ship what was not paid, skip a step of the lifecycle, refund money
  that was not taken or refund for a cancellation that was not written.
* `PaymentNotForgotten`, `PaymentReachesOrder`: a recorded payment is on its way, dead-lettered or
  has reached its order, except after a crash or a write whose answer was lost.
* `CancelledMoneyAccounted`: without failing calls, the money of a cancelled order is refunded
  or an event of it is dead-lettered, whichever of the racing steps came first.
* `KeepsSale`: the checkout implements `SalePromise`. An order is paid by hand or with money captured
  for it, moves only along its lifecycle, and of all the intents that retries create only the one
  its row names is captured later or paid back.
* `Quiesces`: handlers and the events they cause die out.
* `ShutsDownInOrder`: the dead-letter channel is closed after the last sender, and nobody takes a
  slot after the wait. `CloseReturns`, `KeepsPromise`: the bus implements its promise, with its
  liveness.
* `BelowZeroIsBackordered`: a stored quantity below zero is covered by a backorder limit the row has
  had. It says nothing of what was promised to customers: two reservations that read the same
  quantity both succeed (see below).
  `UnitsConserved`: the comments of the code name two ways to corrupt the stock, a save from a stale
  copy and a failed rollback; with a lost answer and a crash half-way these are all. The
  history variable `damaged` records that one of them happened, `ledger` what there should be.
* `NothingVanishes`, `EventuallyPublished`: see section 1. `UnmarkedIsInHand`: as long as nothing
  failed, an event that was sent and is not marked is in the batch of a relay whose `Stop` has not
  returned; `Shutdown` closes the connection to the database after `Stop`, so shutting a process
  down leaves nothing to be sent again.
  `DeliversAtLeastOnce`: the outbox implements `OutboxPromise`; no batch, retry, shutdown or crash
  is visible there except as a loss that is recorded. That consumers skip only what was handled
  (`NotSkippedUnhandled`) is one of its steps.
* `BoundedStaleness`: whatever an invalidation misses, a replaced version is not served longer than
  both lifetimes, the jitter and two slow goroutines allow: on each level the age of an entry and
  what it has left to live add up to no more than that. It assumes that a goroutine stores a
  value at most `MaxHold` ticks after it was read, which the timeouts of queries and of Redis
  calls stand for; without such a bound no lifetime bounds the staleness.
  `CallsReturn`: everyone who joined a flight is released, also when the fetch fails.
* `LockMatchesCount`: whole rows written back never separate the lock from the counter, although
  attempts are lost. `ResetEndsSessions`: a rotation in flight cannot bring back a session a
  reset has ended. It speaks of the tokens stored before the reset: a rotation that has passed its
  check stores its own after it, and that session lives (`core/auth/service.go:285`), which no
  sentence of the repository excludes. `TokensBounded`: sessions exceed the limit, and
  a token has several successors, only by as many requests as are in flight.
* `GrantsBounded`: each store hands out no more than its burst and a token per refill time, although its
  clock is set back by late timestamps and idle buckets are forgotten. Together
  the two stores can hand out more than one would.
* `AnnouncedUnlessCut`: an order whose shipment has been in transit has its event published, or about to
  be by a request that still runs, whatever updates overwrite the row, unless a request ended between
  its commit and the publication. `ShipmentsBounded`: an order whose reads did not fail gets at most one
  shipment per request in flight; there is no index that would keep it at one.
* `LinesWithinLimits`: lost updates and merges never take a cart over its limits.
* `TreeSoundUnlessRaced`: the checks are enough for requests one after the other; with races
  Postgres still has no dangling reference and slugs stay unique, and a loop can form.
* `ProductWellFormed`: an edit of a list that overtakes another never leaves a live product without
  variant, with a SKU or the id of an image twice, or with images and no primary one, nor on Postgres
  with the id of a variant twice. MongoDB stores an id that a client sends twice; the property leaves
  that open, since no document excludes it.
* `DeletedReviewsStayDeleted`: an edit or a reply that read a review before its deletion does not bring
  it back, on either database.
* `AcceptedIsAccounted`: no order of losses, reconnections and closing loses an event the broker has
  queued; it may be handled more than once.
* `MigrationsSound`: the tables are those recorded, whoever fails or is killed, a reported success is
  complete, and versions have a gap only where a rollback ran beside another command.
* `DependenciesFirst`: see section 1, for every dependency relation on three modules.

What the violation runs show, each against a sentence of the repository:

* `NoDoubleRefund`: the write before the provider call does not prevent a second refund when the
  answer of the first is lost.
* `BatchesDisjoint`: `SKIP LOCKED` outside a transaction does not keep two relays apart.
* `ConflictOnlyIfModified`: a product update compares the stored version with that of its payload, which
  has no version and so is always 0; the second update of a product is refused as
  "modified by another process" (`core/catalog/features/core/service_command.go:124`).

Other differences between the code and what it or its documents say, which the models contain
and no run is spent on:

* A failed payment can be attempted again (`core/payments/service.go:118`), but the unique index on
  the order always refuses the new row. Two concurrent transitions of an order can move it along an
  edge `src/docs/modules/orders.md` does not have. A second `Close` of the bus returns while
  handlers run. `UpdateStock` publishes no event, so the catalog keeps the old quantity.
* Two requests that read the last unit both get a reservation, although
  `core/inventory/domain/README.md:26` calls a reservation a lock against double-selling. A process that stops
  after the commit of a shipment and before the publication loses `order.shipped`, which the outbox of
  `src/docs/infrastructure/events.md:11` would keep.
* The rate limiter marks Redis unhealthy before it resets the count of successful probes; a probe in between
  promotes Redis on successes from before the outage (`gateway/middleware/ratelimit.go:242,302,335`).
* `src/docs/infrastructure/events.md:28` calls RabbitMQ's delivery "fan-out per topic"; one queue per topic
  makes the handlers compete, so each `inventory.stock_changed` reaches one of its two
  subscribers. Publications are not confirmed. A handler that expects a struct gets a map and drops
  the event. A consumer that fails to start leaves its topic without one until the next
  reconnection, and a `Close` that meets a reconnection can leave the new connection open.
* A `down` beside an `up` can leave a gap in the versions, and `status` then says all is well; the
  check at start passes with later versions unapplied and does not look at the token tables; a
  query error counts as an empty table.
* The engine sets the outbox after the modules' `Init`, never closes the event bus at shutdown, does not close
  the Postgres pool, and takes nothing down when an `Init` fails.
* On Postgres a product without category breaks the unfiltered list, bulk create and bulk update always
  fail (a transaction inside a transaction, `infra/db/postgres/adapter.go:181`), and listing ignores the
  filter on attributes and has no order. A merge of carts that is retried adds twice. Two first
  images can both be primary. An error while listing reviews skips the check for a second one.

Deadlock checking is off because requests, events, stops, tokens and connections are bounded: a
behaviour that has used them up really stops. Only the cache is checked for it.

### Fairness

* Checkout: weak fairness of picking up a spawned handler and of continuing a goroutine. The Go
  scheduler runs every runnable goroutine and every call returns or fails by its timeout.
  No request and no crash has to happen.
* Bus: weak fairness of starting, running and ending a goroutine whose slot was taken, and of
  `Close` once it can go on. Nobody has to publish, to close or to read the channel.
* Cache: weak fairness of each goroutine that has begun a call. Nobody has to call, and time does
  not have to pass.
* Outbox: weak fairness of each relay and of each handler goroutine. The ticker fires again and
  again, so an idle relay polls; a fetch that fails for ever is excluded. Nobody has to
  store or to stop.
* Gateway, storefront and platform are checked for safety only and assume none.

## 5. Proofs

All theorems hold for every value of the constants that satisfies the named assumptions of the
modules (`...Assumption`, evaluated by the runs): bounds are natural numbers, the values that stand
for "none" are none of the others, and what a running system has finitely many of is finite where a
proof counts it (locations, reservations and goroutines of the inventory, requests of the gateway and
of shipping, variants in a cart, categories, registered modules). `MigrateAssumption` says that the plan lists
modules with their files and that the tables `verify` expects are those of versions there are.

Every safety invariant the passing runs check is the property of a theorem; `SessionsTypes` and
`RateLimitTypes` give the types of the gateway, which need no run. `StorefrontTypes` and
`PlatformTypes` are about the specifications the runs `storefront` and `platform` check: a step of one
part is a step of its own specification and leaves the others as they are, so the theorems of the
parts carry over.

For each component there is an inductive invariant, which the initial states satisfy
(`Init => IInv`) and one lemma for each action or part shows to be preserved; the theorems follow
from it with PTL. What each invariant adds to the property:

* `CheckoutProofs`: the safety properties say too little of the goroutines. `IInv` adds what each
  knows at each label (`OrderLocals`, `PaymentLocals`): the status it is about to write was
  allowed by a status the row has held, the intent it holds is that of the row and is captured
  before it is refunded. That is stable, because captures, held statuses and the intent of a row
  are never taken back (`NothingUndone`). Hence `PaidIsCaptured`, `StepsInOrder`, `RefundsBacked`,
  `RefundAfterCancel`, `NotForgotten`.

  `MoneyAccounted` speaks of orders at rest; `MoneyIInv` says what holds before they are: as long as no call
  has failed, a cancelled order whose money is still owed has an event or a goroutine that will settle
  it or pass it on (`MoneyMoves`, `Settling`). Two ways of losing it have to be excluded by
  invariants of their own: a handler of `order.cancelled` finds the row "refunded" and does nothing, which is
  right only because another goroutine is about to call the provider (`RefundsCalled`); and an
  intent that is captured when its row is inserted must be the one that goes on to publish the success
  (`NewIntents`: nobody else knows it yet).

  `SaleKept` is the refinement of `SalePromise`. One statement or provider call changes only one of the
  orders, the payments and the intents (`OneTable`), so each table is shown to take an abstract step by
  itself (`OrderSale`, `PaymentSale`, `ProviderSale`) from what `IInv` knows of the goroutine that writes;
  new are that a manual payment writes "paid" (`HandPays`) and that an order begins as pending
  (`BornPending`).
* `LocalBusProofs`: the wait group is exactly the number of slots not given back (`HeldFinite` and
  the counting lemmas); one caller of `Close` found the bus open; who has waited found zero, and zero
  stays since a closed bus accepts nothing. Hence `ShutdownInOrder`, and the
  refinement `Implements` (the safety part of `EventPromise`).
* `InventoryProofs`: `BelowZeroIsBackordered` is not inductive since a goroutine may save an old copy; `IInv`
  adds that every copy that may still be saved is covered by a limit its row has had.
  `UnitsStayConserved` needs the units that are on their way: `UnitsIInv` says that rows, reservations
  and what each goroutine has taken and not yet put down (`Owed`) add up to the ledger at every
  step unless damage is recorded, and that the copy a goroutine holds differs from what it has read
  by just what it moves (`CopyTrue`).
* `SumProofs`: those sums are folds over sets, recursive functions whose induction no prover here
  can do. The lemmas count a set of units instead (`x` contributes the pairs `<<x, 1>>` to
  `<<x, f[x]>>`), about which the library's theorems on cardinalities speak, and show by a smallest
  counterexample that the fold is that count; negative quantities are counted apart. Hence what
  a sum is after one element has changed, appeared or gone, and that a sum grows with its terms
  (`TotalGrows`).
* `OutboxProofs`: `NothingVanishes` needs that whatever has left `todo` of a batch is accounted for
  (`BatchAccounted`), since the whole batch is marked, and that `todo` is empty by then;
  `NotSkippedUnhandled` needs that a goroutine at `mark` has handled its event. `UnmarkedIsInHand` is kept
  by every step of a relay because what has left `todo` stays in `ids` until it is marked, also when another
  relay sends the same event (`ShutdownLeavesNothing`). The lemma
  `AccountedStays` says that no step, a crash included, loses track of an event. `Implements` is the
  refinement of `OutboxPromise`: a relay's step sends, settles a batch whose events were all sent
  (`BatchAccounted`), or does nothing; a goroutine's step handles, skips or loses one copy, and other copies
  of the same event may remain (`CopiesOfGoroutine`). It needs that what a relay is about to send has been stored
  (`SentAreStored`).
* `CacheProofs`: the age of a replaced version alone is not inductive. `IInv` has one inequality for
  each place a value can be in (`FetchedAge`, `BackfillAge`, `L2Age`, `L1Age`): age plus remaining
  life, or minus the time it was held. A tick moves one from the second to the first, a copy
  starts with what its source allowed. Hence `StalenessIsBounded`; `StampedesAreShared` is
  inductive as it is (`OneFetch`: those who miss together share one fetch; proved, not in a run).
* `PlatformProofs`, one part for each of five modules:
  * `Sessions`: lock and counter agree in each row a request holds (`RowsSound`), a token it holds exists
    (`TokensKnown`), and a reset knows all tokens older than its `cut` (`CutKnown`). Hence
    `LockAlwaysMatches` and `ResetsEndSessions`. For `TokensStayBounded` the requests that may still insert
    a token count too: whichever of the pending transactions commit first, those that follow find room
    (`SavesFit`, for every set of them), and the successors of a token plus the requests that present
    it are no more than the requests (`RotationsFit`).
  * `RateLimit`: a bucket's own time may run behind the clock, so grants alone are not
    inductive. `RateLimitIInv` bounds, for each store, grants plus the tokens left in the bucket by the burst
    plus its own time, and grants alone by the latest time it has seen (`Backed`); says that a bucket
    is gone only when its successor may start full, before the oldest time a script still to run can
    carry (`RedisForgets`, `MemoryForgets`); and that nobody reads a time yet to come
    (`ReadsThePast`). Hence `GrantsStayBounded`.
  * `RabbitMQ`: the property must survive every step between a publication to a tier and the
    acknowledgement. `RabbitIInv` strengthens it: loops that have only to acknowledge do not count, since
    what they hold is safe elsewhere (`Accounted`), and a copy's retry count is no more than the
    failures of its event (`CopiesCounted`). Hence `AcceptedStaysAccounted`.
  * `Migrate`: until a rollback overlaps another command, what a command has read as applied is still recorded
    (`ReadsHold`), an `up` has applied everything before the place it has reached (`Passed`), and the
    versions have no gap (`Orderly`). Hence `MigrationsSoundHolds`.
  * `Startup`: while modules are sorted, `inDegree` counts the requirements not sorted yet and the queue holds
    those that have none (`QueueReady`), so that what remains when it is empty contains a cycle. Hence
    `DependenciesComeFirst`.
* `StorefrontProofs`, likewise:
  * `Shipping`: rows in the table and in requests end their history with their status (`RowsKept`), a row in
    transit about to be written goes on to announce its order, or that was announced, is about to be or was
    cut off before (`Announces`), a shipment keeps its order (`OrderFixed`), and rows plus pending inserts of
    an order are no more than the requests (`InsertsBounded`). Hence `ShippedAnnouncedUnlessCut` and
    `ShipmentsStayBounded`.
    `ShippingTypes` needs that ids are unique (`IdsUnique`): a row's place in the list, by the number of rows
    before it, is then its own and the pages of one are a partition (`PagesArePartition`).
  * `Cart`: the copies that requests may still save are within the limits (`CopyWithin`), not only the rows. Hence
    `CartsStayWithinLimits`. `CartTypes` compares the sums of an answer, term by term, with `SumProofs`.
  * `Products`: of the images a transaction has not deleted one is primary, and of two transactions under
    way one has seen all the commits the other has; without that a third edit could leave images with
    no primary one. On Postgres the ids of variants are distinct because the insert of a list that has one
    twice, or one that is there already, is refused; SKUs because every list is checked before it is
    written and Postgres refuses one that is there already. Hence `ProductsStayWellFormed`.
    `ProductsTypes` adds that a discount stays one that was accepted (`DiscountMoves`).
  * `Reviews`: what is deleted has an id made before, so that no new row gets it. Hence `ErasedReviewsStayErased`.
  * `Categories`: what a request has checked so far holds until another one writes (`ChecksHold`; for the walk
    up the tree, that no category passed is the one being moved). Hence `TreeStaysSound`. `CategoriesTypes` is about the recursive walks: both are
    replaced by paths (`Reaches`), and a smallest counterexample shows that neither leaves out what a path
    reaches (`DownIsBelow`, `UpIsAbove`), with a loop in the tree as well.

Model-checked only: liveness (`Quiesces`, `PaymentReachesOrder`, `CloseReturns`, the fairness part of
`KeepsPromise`, `EventuallyPublished`, `CallsReturn`), which is out of the prover's reach.

## 6. Not modelled

* The pool of connections: reading an order holds one connection while asking for a second
  (`infra/db/postgres/orders/order_repo.go:57`), so that readers can wait for each other. A model of it
  would be the pool alone, and nothing in the repository says what should happen.
* Reading the configuration (`engine/config.go`): parsing, defaults and validation of a file.
* The items, totals and listings of orders, guest orders, the alert and history tables of the
  inventory, and the transactional outbox path of the services, which no deployment reaches.
* The MongoDB outbox repository, every method of which is a stub that returns an error.
* HTTP routing and middleware other than the rate limiter and the OIDC link: they keep no state.
* Notifications (handlers that log), the dashboard (reads), file storage, logging, metrics, ids,
  commands, cryptography, and the documentation site.
