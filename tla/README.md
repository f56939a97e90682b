# A verification project for eventcommerce

Formal models of `eventcommerce` (the backend with its messaging runtime, the
storefront's auth session and the operators' catalog console), checked with TLC on small instances and, where stated, proved with TLAPS for every
value of the constants. `PROJECT.json` lists the components, the runs, the mutants
that show each property can fail, the source lines of every definition, the
hazards the properties are for, the findings and the theorems.

## 1. The system

`src/backend` is a modular monolith (FastAPI, SQLAlchemy, PostgreSQL at READ
COMMITTED, RabbitMQ). Each bounded context has a domain, use cases, repositories
and routes. Orders move along two paths:

* the asynchronous path: `POST /orders` stores a `pending` order and an
  `OrderCreated` outbox row; six AMQP handlers reserve the stock, charge the
  payment, confirm or cancel, compensate and notify;
* the synchronous path: `POST /checkout` does all of it in one transaction.

An operator may confirm or cancel an order at any time and adjust stock.

### Inventory

| component | state | operations | interacts with |
|---|---|---|---|
| orders | `orders` row (five statuses), timeline | create, confirm, cancel; on inventory result, payment result, payment authorized | outbox, events, inventory, payments |
| inventory | available and reserved quantity per product | reserve on `OrderCreated`, release on `PaymentRejected`, adjust | reads orders, outbox |
| payments | payment rows | charge on `OrderInventoryReserved` | reads orders, outbox |
| notifications | notification rows | notify on the two terminal events | |
| checkout | idempotency claim, and all of the above in one transaction | `POST /checkout` | orders, inventory, payments, cart, catalog |
| outbox | `outbox_events` rows | insert with the cause, publish, mark | broker |
| consumer, processed events | broker queues, `processed_events` | deliver, `is_processed`, `mark_processed`, ack, requeue | all handlers |
| messaging runtime | publisher and consumer tasks | start, retry with backoff, schedule, stop | outbox, consumer |
| dependency containers | one session override per context, global to the process | override, build the use case, reset | every HTTP route |
| cart | lines per shopper | add, set, remove, clear | catalog, checkout |
| catalog | product rows | create (with a stock row), PATCH, browse | inventory, cart, checkout |
| iam | users, refresh-token families, attempt buckets | register, login, rotate, revoke, rate limit | storefront |
| storefront session | access and refresh token of one browser tab | request, refresh once, log in, log out | iam |
| operator read model | none | queries; the catalog joined with its stock | catalog, inventory, orders, payments |
| operator catalog page | table, edit form and stock editor of each row | load, edit, save, adjust, retry, leave | operator read model, catalog, inventory |
| other pages | what was fetched | cart, checkout, tracking, order queue | the API |

### What is hard here

* Every transaction runs at READ COMMITTED; orders are read without a lock and
  written with values computed from that read. Operators, handlers and replicas
  therefore overwrite each other.
* Delivery is at least once: rows are published twice, acknowledgements are
  lost, handlers die before their commit, and two deliveries of one event can
  run at the same time.
* Use cases of several contexts must run in one order in one transaction (the
  compensation before the cancellation).
* Only some writes lock the rows they read: stock adjustment, checkout, cart,
  token rotation.
* Request-scoped sessions go through a container that all requests share.
* Pages keep what they were answered while other clients change it, and an answer
  may come after its form has gone, or never.

What makes each component correct: the lifecycle (only allowed transitions, a
terminal status is final and announced once), the stock ledger (where units can be
lost or left reserved, and nowhere else), payments (after a reservation, at most one, and
before every confirmation), messaging (nothing lost, nothing done twice), claims
(one order per key), tokens (one successor per token, a revoked family is dead),
carts (no edit is lost, the limits hold), the catalog (every product has stock,
adjustments add up), the console (an answer meets the form it is about, nothing
waits for ever), the browser's session (one refresh per
token, none that starts after a logout), buckets (no window holds more than the limit),
request sessions (what is answered is committed).

## 2. The modules

Nine families, each one component and the parts it needs. A family has a module
of the component, where useful an abstract specification it refines, an MC module
with the definitions its configurations use, and a module of theorems.

| family | modules | models |
|---|---|---|
| order choreography | `OrderStates`, `Choreography`, `ChoreographyProps`, `OrderLifecycle` (abstract), `MCChoreography`, `ChoreographyProofs` | orders, inventory, payments, notifications, outbox, broker, consumers, event store, synchronous checkout |
| refresh tokens | `RefreshTokens`, `MCRefreshTokens`, `RefreshTokensProofs` | `POST /iam/login` and `/iam/refresh`, one step per SQL statement |
| checkout claim | `KeyedCheckout` (abstract), `CheckoutClaim`, `MCCheckoutClaim`, `CheckoutClaimProofs` | `Idempotency-Key`: advisory lock, savepoint, claim row, replay, conflict |
| cart | `SequentialCart` (abstract), `Cart`, `MCCart`, `CartProofs` | one shopper's cart: the four routes and the checkout that empties it |
| storefront session | `StorefrontSession`, `MCStorefrontSession`, `StorefrontSessionProofs` | `createApiClient`, `createAuthClient`, `AuthProvider` in several tabs |
| operator catalog | `Catalog`, `Console`, `MCConsole`, `ConsoleProofs` | list, create, PATCH and adjust under concurrent requests; the operators' catalog page over them |
| credential routes | `Credentials`, `MCCredentials`, `CredentialsProofs` | `POST /iam/register`, `POST /iam/login` and the sliding-window limiter in front of them |
| messaging runtime | `Runtime`, `MCRuntime`, `RuntimeProofs` | the outbox worker, the publisher's and the consumer's connections, start and stop, in several processes |
| request sessions | `RequestScope`, `MCRequestScope` | the containers all requests share and the sessions their overrides hand out |

### Order choreography

`order`, `timeline`, `available`/`reserved`, `payments`, `notified`, `pending`,
`processed` are the committed tables; `broker` the messages in the durable queues,
one queue per `ConsumerBinding` of `messaging_runtime.py`. `deliveries` are the
transactions of message handlers, `requests` those of the operator's confirm and
cancel routes.

Transactions run at READ COMMITTED and read orders, and in the handlers stock,
without a lock. So a handler is a step per read, which keeps what it saw in its
delivery, and one last step that computes every write from it and commits:
`Deliver` (with `is_processed`), `ReadStock` or `RereadOrder`, `Complete`, which looks
at the claim again (`mark_processed` returns silently when another delivery has
recorded the event, and the handler goes on) and applies the handler's operator:
`ProcessInventoryReservation`, `ProcessOrderInventoryResult`,
`ProcessOrderInventoryReserved`, `ProcessPaymentAuthorized`,
`ProcessPaymentRejected`, `FinalizePaymentAuthorized`, `ProcessOrderNotification`.
Transactions that lock what they read (`AdjustStock`, the synchronous `Checkout`)
are one step. Faults are a row published and not marked, a handler that dies and a
channel that reconnects while a delivery is still running.

`OrderLifecycle` is the contract of the orders context: each order walks the
allowed transitions and announces its terminal status exactly once.

### Refresh tokens

`RefreshTokens` keeps the rows of the families and the transactions of
`POST /iam/refresh`: the unlocked read, the insert of the successor, the guarded
`UPDATE` that consumes the token (which waits for a row lock and re-evaluates its
condition), the commit; or, when the token was spent, the revocation: the snapshot
of the family's rows, their locks one by one, the second snapshot of the `UPDATE`,
the commit before the 401. Database deadlocks abort one of the waiters.

### Checkout claim

`CheckoutClaim` follows a request with an `Idempotency-Key` through the advisory
lock, the look for its row, the insert of the claim, the commerce and the commit or
rollback. Two keys may hash to one lock number (`LockOf`). `KeyedCheckout` is what
the API promises: one order per key, the same answer to the same request, 409 for
another payload.

### Cart

`Cart` has one row lock (`SELECT ... FOR UPDATE` of the cart row, taken by every
edit and not by a checkout), the lazy creation of that row with its savepoint, and
the lines with their uncommitted writes. `SequentialCart` says what an edit does to
a cart that nobody else touches.

### Storefront session

A step is one callback of a page. `page[t]` is the pair in memory and the status of
`AuthProvider`, `storage` the pair in `localStorage`, `refreshing[t]` the promise
that `createSingleflight` shares, `call[t][s]` a request and its one retry. The
server keeps what `RefreshTokens` promises: for each family the last pair minted,
and whether it was revoked. A pair is one token numbered in its family.

### Operator catalog

`Catalog` follows a request from its first read to its commit: `call[r]` is what it
asks, `pc[r]` how far it got, `read[r]`, `units[r]` and `dirty[r]` what its session
holds. A product is saved without a lock: the use case reads it, `save` looks for the
row once more (`SaveProduct`) and either inserts it (`InsertProduct`, which waits for
another insert of the id) or writes the columns that differ from this second read. A
creation seeds the stock in the same transaction (`SeedAndCommit`). Stock is adjusted
under its row lock (`LockStock`, `WriteStock`). The operator's list is two reads.

`Console` extends it with pages. `screen`, `rows` and `counts` are the state of
`OperatorCatalogPage`, `form` and `draft` that of `OperatorProductRow`, `editor` that
of `StockEditor`; `origin[r]` is the page that waits for `r`, and a request without
one is of another client, or of a page that was left. The request runs on when the
answer is lost (`Drop`).

### Credential routes

One process on one event loop: `RateLimiter` has no await, so a request's arrival
(`ArriveLogin`, `ArriveRegister`) is one step that prunes the buckets, counts the
request and lets it through or refuses it. `attempts[k]` is the deque of times of key
`k`, kept as the requests whose time it is (`at[r]`). What follows is a step per SQL
statement: registration looks for the address (`FindFree`), inserts under the unique
index (`Insert`, which waits for an uncommitted row of the address) and commits; login
reads the account and compares (`Authenticate`), then commits its refresh token
(`IssueTokens`). `Restart` forgets the buckets, which are in memory, and rolls back
what is open. `inserting` and `users` are the uncommitted and committed rows.

### Messaging runtime

`sched[w]`, `pub[w]` and `cons[w]` are the three tasks `MessagingRuntime.start`
creates in process `w`, `life[w]` how far its stop has come. A batch of the outbox
worker is a transaction: `BeginBatch` claims the oldest unlocked pending rows,
`Publish` takes them one by one and marks what the broker accepted, `CommitBatch`
commits the marks. The broker holds one durable queue, declared and bound by the
consumer's connect (`DeclareQueues`); a row published before that is returned as
unroutable. `Deliver`, `Handle`, `Ack` are the consumer's callback. Between any two of
these a process may be stopped or die, the broker go and come back, a confirmation be
lost, a commit be refused, a handler raise.

### Request sessions

`overrides[c]` is the stack of sessions that override the provider of container `c`.
`Override` pushes, `Resolve` builds the use case with whatever is on top when the
endpoint runs, `TearDown` removes every override (`reset_override`). The checkout's
route builds its use case in the step that overrides (`OverrideAndBuild`).

### How they fit together

The families meet where one relies on a promise another establishes, and are
checked apart to keep them finite. `Console` is composed with `Catalog`, whose actions
and properties it uses as they are. `StorefrontSession` takes from `RefreshTokens`
that a token has one successor and that its replay revokes the family;
`CheckoutClaim` wraps the commerce that is the one step `Checkout` of
`Choreography`; `Cart` has the part of that checkout that reads and deletes lines.
`Credentials` ends a login where `RefreshTokens` begins a family. `Choreography`
publishes a row in one step and takes for granted that a pending row reaches its queue
and that a message is delivered until it is acknowledged: `Runtime` is where that is
shown, from the tasks and connections that do it, and where it ends (a broker without
queues). All of them give each request a session of its own, which `RequestScope`
examines.

## 3. Runs

Every property of a passing run has a mutant: a plausible bug in one definition
with which TLC finds the property violated under the same configuration.

| run | what it asks | result |
|---|---|---|
| `Chain` | an asynchronous order of two lines and a synchronous checkout want the same unit, stock is adjusted, a row is published twice or a handler dies | no effect twice or out of order, the lifecycle is implemented, no negative stock, the checkout's own `OrderCreated` is not reserved again; units go astray only by a stale write or a half reservation |
| `Overlap` | an operator's confirm or cancel, an adjustment and any one fault, redelivery to an overlapping handler included | what survives everything: confirmed orders are paid, payments follow reservations, every row is processed, orders end and are notified |
| `Rotation` | four refresh requests on one family, one crash, expiry, deadlocks | one winner per token, one live token, revoked tokens unspent, all answered |
| `Claim` | three requests, two keys with one lock number, two payloads, two crashes | one order per key, equal answers, 409 only for cause; implements `KeyedCheckout` |
| `CartRequests` | two requests of any kind and a checkout, two currencies, a catalog change and a crash | edits implement `SequentialCart` until a checkout ends, limits hold, two rounds create the cart, every request ends |
| `Session` | two tabs, two requests in each, two logins | no token replayed by a page, a family revoked only if two pages held its token, after a logout a page gets a pair only from its own refresh under way or a login, all requests end |
| `ConsoleOps` | one operator's catalog page and other clients, three requests, one of which dies or whose answer is lost | stock changes by the deltas that were answered 200, no list shows a product without stock, an answer meets the form it is about, the page never waits for ever |
| `CredentialRoutes` | three registrations or logins for two addresses, a clock of half seconds, one restart | no window lets through more than its limit, a Retry-After is neither too short nor a second too long, one account per address, answers agree with the accounts, requests end |
| `Delivery` | two processes, two rows, started before or after the broker; one stop, crash, outage or failure | no published row is lost, a second copy costs a fault, a stop ends, every committed event is handled |
| `TerminalOverwritten`, `LostAdjustment`, `SessionMixup` | a sentence of the repository each | violated, section 6 |

### Bounds

* Choreography: one unit per line. In `Chain` the asynchronous order wants one unit of
  each of two products, so that a line can fit and the next one not, and the checkout
  one unit of the first, so that they race for it; an adjustment by minus one empties
  the second product before, between or after the handler's read and its write. The
  one fault falls on any step of that. `Overlap` spends its fault, a lost channel
  included, next to an operator and an adjustment that brings the missing unit. One
  replica is enough for overlap because a reconnect leaves the old delivery running.
  `LostAdjustment` needs one order and one adjustment.
* `Rotation`: the worst case needs a replay, the rotation it races and that
  rotation's successor, which is three requests; `MaxTokens` 5 exceeds the four
  tokens that four requests can add, so the bound never blocks one.
* `Claim`: a winner, a replay, and a third request that collides on the lock.
* Cart: `MaxLines` 1 and `MaxQuantity` 2 make both limits reachable by two edits,
  and the shopper may have an empty cart at the start, so that two edits also race
  past its creation; `MaxAttempts` 5 is the constant of the code, and the run and the
  proof show two are enough.
* `Session`: two tabs share the storage, two requests per page share a refresh, two
  families tell the session before a logout from the one after it. Three started
  requests or page loads suffice for the shortest violation of each property under
  its mutant (login, request, request; login, request, login in the other tab).
* `ConsoleOps`: three requests are the page's load, an edit or adjustment, and another
  client between them, or three clients; one column that may be null and one value
  tell apart unchanged, changed and cleared; `MaxInteger` 1 and deltas of one reach
  both ends of the column. The products and stock to start with are arbitrary, as long
  as every product has a stock row, so a product may be there, be created, or only
  have stock. A single fault is a request that dies or an answer that is lost.
* `CredentialRoutes`: a tick is half a second, so that rounding up to seconds can
  differ from rounding down; windows of three ticks and limits of two make three
  requests enough to fill a bucket, be refused and be let through once the window has
  moved, all before the clock stops at four. Requests are numbered in the order in
  which they arrive, which only names them. The second address is only tried with the
  usual password, which is what a bucket of the host needs.
* `Delivery`: two processes are what a row claimed twice needs, two rows and a batch
  of two what a stop in the middle of a batch needs. With one fault every property has
  a mutant that fails; `RuntimeProofs` has the safety for any number of faults.
* `SessionMixup`: two requests of one container suffice; that requests of different
  containers, or of one whose route builds at once, do not disturb each other is seen
  with every container in `Eager`, where the invariant holds.
* `CHECK_DEADLOCK FALSE` everywhere: requests, clicks and actions are used once or
  bounded, so every instance ends; that nothing is stuck is what the liveness
  properties say.

### Fairness

* The server runs what it has started, a pending row is eventually published and a
  message delivered, and a handler that is redelivered eventually commits. The
  scheduler loop polls for ever, the consumer requeues what fails, and faults are
  bounded: this is `FairSpec` of `Choreography`.
* The database grants a lock once it is free and breaks deadlocks (`RefreshTokens`,
  `CheckoutClaim`, `Cart`).
* A browser settles every fetch, with an answer or an error (`StorefrontSession`).
* The server runs what it was sent, and a page takes the answer it waits for
  (`Console`).
* The event loop keeps running what the limiter has let through (`Credentials`).
* The scheduler, the two connection tasks and a stop that has begun keep running: each
  is a task of its own that waits on nothing but the broker (`Runtime`). Nobody counts
  on the broker's return: `EveryEventHandled` is about runs in which it is up, and
  some process with it, from some moment on.
* Nothing makes a shopper or an operator act, or time pass: no fairness there.

## 4. Proofs

All theorems hold for every value of the constants that the named assumptions
allow: any number of orders, products, replicas, requests, tokens, keys, tabs, and
any fault budget.

* `ChoreographyProofs`: `TypeOK`, `ConfirmedIsPaid`, `PaymentAfterReservation`,
  `StockNeverNegative`, `CheckoutIsNotRepeated`. The first two safety properties are not
  inductive: a handler acts on
  a status that may be stale. The invariant `EvidenceInv` says that the evidence for
  a status (an outbox row, a payment row) is committed no later than the status and
  never withdrawn, and that a handler which saw a status (`Known`) therefore still
  has its evidence, whatever the order has become since. It has a part for rows
  (`RowsAreEmitted`), for staged orders (`StagedIsReserved`), for authorized orders
  (`AuthorizedIsPaid`) and for payments. Stock stays non-negative because what a
  handler read was (`ViewsNeverNegative`) and it takes no more than it read. A checkout
  is not repeated because its order is over when its rows are delivered (`SyncViews`)
  and no operator finds it open (`NoSyncRequests`).

  The other safety properties of the choreography fail when two handlers work on one
  event, or when a handler writes back a row that changed since it read it; section 6
  has the cases. The theorems name these conditions, and others say when they hold:

  | theorem | proves | while |
  |---|---|---|
  | `EffectsAreNotDuplicated` | `NoDuplicateSideEffects` | `OneAtATime` |
  | `LifecycleIsImplemented` | `ImplementsLifecycle` | `OneAtATime`, no operator decides |
  | `HandlersRespectTerminal` | `TerminalIsFinal` | `OneAtATime`, no operator decides |
  | `TimelinesAreWalks` | `TimelineIsLegalWalk` | `OneAtATime`, no operator decides |
  | `UnitsAreConserved` | units change only by adjustments and a `StaleWrite` | always |
  | `StockLossesAreExplained` | `StockLossesExplained` | `OneAtATime`, no operator decides |
  | `StockIsConserved` | `StockConserved` | `FreshAvailable`, `FreshReserved` |
  | `ReservedUnitsAreHeld` | `StockBacksOrders` | `OneAtATime`, `FreshReserved`, `NothingPartial`, no operator decides |
  | `ReservedUnitsAreHeldApart` | `StockBacksOrders` | `OneAtATime`, `Apart`, `AllOrNothing`, no operator decides |
  | `DeliveriesDoNotOverlap` | `OneAtATime` | `NoOverlap`: no channel is lost, and one process or every row published once |

  `OneAtATime`, `FreshAvailable`, `FreshReserved` and `NothingPartial` are about
  states (no event in two hands; what the open handlers read of a column still stands;
  none has read stock for a part of its lines). `NoOverlap`, `Apart` (no product wanted
  by two orders), `AllOrNothing` (one line, or stock that nobody adjusts and that is
  enough for all) and "no operator decides" (`Clicks = {}`) are about the constants, and
  imply the former. Crashes, and republished rows where `NoOverlap` allows them, are
  never excluded. `Chain` is an instance of `NoOverlap` and of "no operator decides",
  not of the others: its orders compete and its stock is adjusted. There
  `StockLossesExplained` is what can be said of the stock. `Balance` counts the units
  of a product that adjustments do not explain, `Unbacked` those reserved for no order
  (negative: promised twice). A step changes the first only by writing back a row that
  others changed since it was read without a lock (`StaleWrite`), and the second only
  so or by saving a line before one that does not fit (`HalfReservation`). In
  particular the compensation gives back what the reservation took, once, before the
  order is cancelled. `UnitsAreConserved` has the first half without any condition.
  `StockBacksOrders`, the stronger statement that every reserved unit belongs to an
  order, is proved and in no run: it fails in `Chain` as it should.

  The argument has four layers. Rows are numbered and a message never runs ahead of
  its row (`Numbered`), and an open handler's event is not yet claimed (`Waiting`): so
  every handler that commits claims an event for the first time, and the claims bound
  the rows, payments and notices (`StepsOnce`, `ChargedOnce`, `NotifiedOnce`). Without
  operators an asynchronous order has at most one event that is not handled, its status
  is the one that event finds (`DrivenByOne`), and so is what its handler has read
  (`SeesStaged`): each commit is then one move, `Moved`, from which the refinement, the
  timeline (`Walks`) and the stock ledger follow. An order joins the holders of
  reservations or leaves them, and the reserved column follows (`Matched`), or the step
  is one of the two exceptions (`HandleLedger`). `Books` counts the units the holders
  want one by one; that this count is the sum `Unbacked` speaks of (`SumIsUnits`) is an
  induction over finite sets of orders, done with a smallest counterexample, since the provers cannot instantiate the
  library's induction rule.
* `RefreshTokensProofs`: `TypeOK`, `NoTwoWinners`, `OneLiveToken`,
  `RevokedIsNeverSpent`, `RacingSuccessorIsRevoked`. The invariant ties each
  transaction's program counter to the row lock it holds and to the rows it has not
  committed; `Raced` follows a successor from the revoker's snapshot on.
* `CheckoutClaimProofs`: `TypeOK`, `OneOrderPerKey`, `AnswersAgree`,
  `RefusedForCause` and the refinement `KeepsPromise`. The invariant says that a
  request past the lock holds it, that nobody else wrote a row for its key since it
  looked, and that a row and its order were committed together.
* `CartProofs`: `TypeOK`, `LinesWithinLimit`, `CreationNeverExhausted`,
  `CommitsAsAsked` and the refinement `EditsAreSequential`. Edits exclude each other
  by the cart row, and what one read of the lines is still true when it writes, until
  a checkout ends (`Fresh`); after that a checkout only removes lines. A request
  starts a second round only once the cart is committed, and nothing uncommits it.
* `StorefrontSessionProofs`: `TypeOK`, `OnlySharedFamiliesAreRevoked`,
  `NeverReplays`, `OnlyPendingAnswersRestore`. A token is spent only if it is not its
  family's last; the invariant says that of a family no page loaded from
  `localStorage` only one page holds a token (`HeldAlone`), that no token given up
  with a lost refresh is still held (`AbandonedAlone`), and that what a page holds it
  has not presented (`Fresh`).

* `ConsoleProofs`: `TypeOK`, `ListedIsStocked`, `SavesMatchForms`, `AdjustmentsAdd`.
  The invariant says what each stage of a request still knows: an adjustment holds the
  row lock and the sum it read is still true, an insert keeps other inserts out,
  products a list has read are still there with their stock. Of a page that waits it
  says what nobody else changes: for a form being saved the draft, the row and the
  request that is to answer it are those of the save (`Kept`), and no second answer
  for that row, nor a new table, is under way (`NoRivals`).
* `CredentialsProofs`: `TypeOK`, `AttemptsLimited`, `HonestRetryAfter`,
  `AnswersMatchAccounts`. A window may end anywhere, the buckets are only pruned when a
  request comes: the invariant says that a bucket still holds every request let through
  whose window has not passed (`Recorded`) and never more fresh ones than its limit
  (`Full`), so the last request of any window saw all the others. A refusal keeps its
  oldest attempt in the bucket until the promised time (`Promised`). Of the accounts it
  says that addresses of rows, committed or not, differ (`Distinct`), whose rows they
  are (`RowsMatch`) and what each answer under way rests on (`Grounds`). `Second *
  Seconds(t)` needs two facts about integer division, proved with Z3 alone.
* `RuntimeProofs`: `TypeOK`, `NoEventLost`, `DuplicatesCostFaults`. A mark, committed
  or not, is evidence of a message the broker answered for (`Evidence`), and an
  acknowledgement of a handler's commit (`Acknowledged`), so what is committed as
  published is still somewhere. Rows locked by two transactions differ (`Batches`), so
  every copy is followed by its mark, and dropping the mark costs a fault (`Paid`).
  The number of processes is finite, which counting requeued messages needs.

Only model-checked: every liveness property (with fairness out of reach of the
prover). Every safety property of a passing run is stated by a theorem, those of the
choreography named in the table under the conditions given there (`StockConserved`,
which the code violates, under those that rule the violation out), the others without
any. The type invariants, `AnswersAgree`, `RefusedForCause` and `CommitsAsAsked` are
proved and not run: they are parts of the inductive invariants, and so is
`StockBacksOrders`, which needs conditions that no run imposes. `RequestScope` has no
theorem: its run shows that its one property fails.

## 5. Abstractions

* Choreography. The lines of an order are a quantity per product, reserved in any
  order; two lines of one product are merged; a product without a stock row has none
  available. All stock rows of an order are read at one moment, and `get` and `save`
  inside one repository call are one moment too. The second read of the order in a
  `PaymentRejected` delivery is fresh, as the identity map holds orders weakly.
  Publishing a row and marking it is one step (`SKIP LOCKED` keeps workers apart);
  publishing and not marking is the fault. Requests answered 404, 409 or rolled back
  change nothing and are stuttering. A payment is authorized, declined or has no
  derivable total. The timeline of the synchronous path is not tracked past creation.
  Messages that do not parse or are of an unknown type, which the consumer acknowledges
  and drops, and a message about an order that does not exist, which it would requeue
  for ever, are not produced by this application.
* Refresh tokens. Users are never deleted. An unknown or blank token changes nothing.
* Claim. The payload is the owner and the body; two payloads never share a hash.
* Cart. One cart; the reads of one group of statements are one moment; a statement
  that waits for a row is one step that is enabled when the row is free.
* Session. Time is left out: any access token may be found expired at any use. The
  answer to a request other than a refresh is chosen when the page takes it. React's
  double effects of development builds are left out, and so is who the user is.
* Operator catalog. A product is a few columns, trimmed and valid; `updated_at`, field
  validation, notices, the page of 100 rows and the reserved quantity are left out. An
  UPDATE and its commit are one step, since it waits for other writers of the row and
  then writes columns fixed before. The stock writes of the choreography are not among
  its clients: section 6 says what they do to an adjustment. Creating a product has no
  form; other clients do it.
* Credentials. A bucket is a set of requests with their times, not a deque; a password
  is compared, not hashed. An address is compared as PostgreSQL's `lower()` does in the
  index; that `casefold()` in the limiter's key may fold more is left out. An access
  token is a pure function of the login and is left out.
* Runtime. One queue stands for all: bindings are `Choreography`'s. The back-off is
  left out, so a retry may come at any moment; `lifespan`'s ten seconds for a stop are
  a `Crash` in the middle of it. A message the broker returns does not make
  `aio_pika`'s publish raise, so the row is marked. A handler whose message is taken
  back by a lost connection may still commit (`LateCommits`).
* Request sessions. A use case is one write; the markers of a route are resolved in
  FastAPI's thread pool, between which and the override other requests run.
* In every other module an HTTP request has a database session of its own.

## 6. Where code and documents disagree

With a run and a finding:

* `TerminalOverwritten`: a terminal status can be overwritten by a transaction that
  read the order before (`src/PRD.md:61`, `services.py:7-8`).
* `LostAdjustment`: `save` of a stock row writes absolute quantities that the handlers
  read without a lock, so an adjustment committed in between is lost, with one order and
  one adjustment. `adjust_stock.py:10-11` says that "the row is locked FOR UPDATE before
  mutation so concurrent adjustments serialize instead of losing updates", and
  `docs/GLOSSARY.md:35` that reservation and release lock their rows.
* `SessionMixup`: a use case may be built with the session of another request of the
  same context; its request's commit then commits nothing and it is answered 201, or
  the other's commit commits it before it is answered. `docs/adr/0003:25` says that
  "request-scoped sessions keep units of work clean"; `checkout/api/routes.py:47-50`
  builds its use case at once so that "concurrent requests can never read another
  request's override", and the routes of the other contexts do not.

Met while modelling, without a run of their own:

* Two overlapping deliveries of one event both commit: `mark_processed` returns
  silently when the event is recorded (`idempotency.py:62`) and the second handler's
  effects stay. `src/PRD.md:63` asks for no duplicate side effects;
  `EffectsAreNotDuplicated` shows there are none as long as deliveries do not overlap.
* The lines reserved before the one that does not fit stay reserved for the rejected
  order (`process_inventory_reservation.py:52`; `src/PRD.md:47`): `HalfReservation`,
  which `Chain` reaches.
* The same unlocked write as in `LostAdjustment` promises a unit twice: a checkout that
  commits between a handler's read and its write has its reservation undone, and both
  orders count on the last unit. `StockNeverNegative` still holds, as the column never
  shows it; `Chain` reaches it, and `StockLossesExplained` counts it as a `StaleWrite`.
* A rotation that starts while its family is being revoked can commit a successor the
  revocation does not see (`sqlalchemy_refresh_repository.py:79`; ADR 0007, line 22,
  has replay revoke the family). `RacingSuccessorIsRevoked` says which successors it
  does see.
* Rows published to a broker on which no consumer has declared the queues yet are
  returned as unroutable and marked published all the same
  (`messaging_runtime.py:304`): `Runtime` reaches `returned`, and its properties are
  about the other rows.
* A consumer whose `start` fails after its `connect` is connected again by the retry
  loop, and the first connection stays open.
* `CheckoutPage.tsx:98` makes a fresh `Idempotency-Key` for each click, so a retry
  after a lost answer is a new request to the server: it is not answered with the order
  that was placed but meets the emptied cart.
* Nothing releases the units of an order an operator cancels after its reservation:
  no consumer of `OrderCancelled` touches stock. The properties of the reserved column
  are therefore about runs without operators' decisions.
* An operator's confirm and the finalizer, each having read the order before the
  other committed, both emit `OrderConfirmed`, and the shopper is notified twice.
* Two creations of one product can both be answered 201, the second overwriting the
  first: it looks for the id before the other commits, and `save` finds the row after
  that (`sqlalchemy_repository.py:63`). `catalog/api/routes.py:5` promises a 409, which
  only two creations that both insert get (`sqlalchemy_repository.py:87-89`).
* A PATCH writes the columns in which its first read differs from the second, so one
  that commits between the two reads is undone, also in columns nobody asked to
  change; `operator.ts:61-62` says that "a PATCH never rewrites unchanged values".
* `OperatorProductRow.tsx:36` sends `null` for a cleared description; the route passes
  it on as a field that is not asked for (`routes.py:135`, `update_product.py:30`), so
  the description stays and the row shows it again.
* When the answer to an adjustment is lost the editor offers Retry
  (`StockEditor.tsx:57`), and the delta is applied twice.
* A cart can come to hold two currencies: a product that was hidden when another was
  added is shown again, or an operator changes its currency. Only the checkout
  refuses it.
* A wrong password typed on a page that still holds a token is treated as an expired
  session: the pair is refreshed, the login is retried and the second 401 clears the
  session although the refresh succeeded (`auth.ts:93-95` says it is cleared "only
  when the refresh fails").
* A refresh answered after a logout stores the new pair again, and one that started
  under an earlier login overwrites the pair of a later one; `StorefrontSession`
  reaches both. It is the one exception, besides a login, that
  `OnlyPendingAnswersRestore` makes for a page that has lost its tokens.
* A page loaded after its access token expired is anonymous although its refresh
  token is still valid.

## 7. Plan

Done: the nine families of section 2, each with its runs, and theorems for all but the
request sessions. Left:
`OrderPages`, the operator's order queue with confirm and cancel, checkout submit and
order tracking, with answers out of order.

Not modelled, and not planned: the operator's queries and the storefront's
rendering (no state), migrations and schema (their constraints are in the actions
that meet them), settings, password hashing and token signing (pure functions).
