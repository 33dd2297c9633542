# Verification of the service order service

This directory models the OS Service of the workshop (`src/src`) in TLA+: the
service orders and the stock their parts come from, the saga that takes an
order through diagnosis, budget, payment and repair with the Execution and
Billing services, the outbox and the queues that carry its messages, the
catalogue and the registrations, the access rules, the list of orders, the
notifications and metrics, and the start and end of a replica. TLC checks the
models on small instances; TLAPS proves the most important properties for any
number of orders, parts, customers, messages, relays and replicas.

    tlc -workers 2 -config SagaOneOrder.cfg MCServiceOrderSaga
    tlapm ServiceOrderSagaProofs.tla

## 1. The system

| Part | State | Operations |
|---|---|---|
| State machine (`entities/serviceOrderStateMachine.ts`) | the status of an order | `assertTransition` |
| Saga (`use-cases/saga/ServiceOrderSaga.ts`) | none of its own; reads and writes the tables below | 11 replies, 6 dead commands, all through `process()` |
| Staff requests (`use-cases/service-orders`) | the same tables | create, add/remove item, add/remove service, deliver |
| Repositories and unit of work (`adapters/gateways`) | `service_orders` (status, version, budget total), their lines, services and history; `items` (stock, reserved); `outbox_messages`; `processed_messages` | transactions, conditional updates, version claim |
| Outbox relay (`PublishPendingMessagesUseCase`, `OutboxRelay`) | `published_at` of each row | send a batch in order, mark each |
| Queue pollers (`SqsQueuePoller`, the two handlers) | messages in flight, receive counts (SQS) | receive, handle, delete |
| Catalogue, customers, vehicles, users | their tables | create, update, delete, look up; soft delete of customers |
| Validators (`entities/validators.ts`) | none | check digits of CPF and CNPJ |
| Routes and middlewares (`frameworks/http`) | none | who may call what, and which answers are documented |
| List of orders (`ListServiceOrdersUseCase`) | none | filter, sort by priority and age |
| Notifications and business metrics (`NotifyStatusChangeUseCase`, `adapters/decorators`) | counters | what follows a commit |
| Process (`main.ts`, `seed.ts`, the deployment) | timers, loops | start, SIGTERM, exit |

A request or a message becomes one unit of work: one PostgreSQL transaction
that may update rows of `items`, the order, its history, the outbox and, for a
message, the id in `processed_messages`. The relay carries the outbox to the
command queues; the participants answer on the replies queue; a command that a
participant fails to handle five times comes back from a dead-letter queue and
is treated as a failed step. After a commit that changed a status the customer
is notified and the change is measured, outside the transaction. Everything
runs in several replicas.

What is hard here, and where each question is answered:

* **Several messages, repeated and out of order, and long sequences of edits
  and failures.** Do they leave the stock, the history and the participants
  right? `ServiceOrderSaga`.
* **Units of work that interleave and may stop anywhere.** Do they act as if
  each ran alone? `OrderTransactions`. For the saga they do; for the edits they
  do not (section 5).
* **Relays without locks, crashes between send and mark, lost answers, an old
  row that commits late.** Does each queue get the commands of an order in
  order, and all of them? `OutboxRelay`.
* **Batches, expiring receipts, receive counts, replicas that overlap.** Does
  each reply take effect in its order, once, and does none get lost?
  `ReplyQueue`.
* **The saga, two participants, replies that die, commands that are carried out
  and declared dead as well.** Does an order always move on, does its status
  agree with what was done? `SagaConversation`.
* **Requests that look and then write.** Are keys held once, are used rows kept,
  do the answers tell the truth? `Catalogue`.
* **Work after the commit, replicas that start together, a SIGTERM at any
  moment, a list of orders that move.** `StatusEffects`, `Lifecycle`,
  `OrderListing`.
* **Rules that are spread over several files and must add up to one table.**
  `Routes`, `Access`, `Documents`.

The hazards, each at its line, are in `PROJECT.json`.

## 2. Modules

| Module | What it is |
|---|---|
| `ServiceOrderStateMachine` | statuses, transitions, `EXPECTED_STATUS` and `FAILED_COMMAND` |
| `PartsLedger` | abstract specification: a part is free, held for an order, or gone with it |
| `ServiceOrderSaga`, `ServiceOrderSagaProofs` | the orchestrator and the requests, one action per unit of work; theorems |
| `OrderTransactions`, `OrderTransactionsProofs` | the same units of work, statement by statement, in concurrent sessions; theorems |
| `CommandChannel` | abstract specification: per order and queue, commands in order, with repeats |
| `OutboxRelay`, `OutboxRelayProofs` | outbox, relays and command queues; theorems |
| `OrderedInbox` | abstract specification: the messages of an order take effect once each, in order, or are given up |
| `ReplyQueue`, `ReplyQueueProofs` | a FIFO queue, its pollers and its dead letters; theorems |
| `SagaConversation`, `SagaConversationProofs` | the saga composed with its participants over those channels; theorems |
| `Catalogue` | registrations and the catalogue, query by query |
| `Routes`, `Access` | every route with its guards and documented answers; the middlewares, against the authorization matrix |
| `Documents` | check digits |
| `HttpApi`, `CatalogueProofs` | the registrations with the rules every request passes (the four modules above); theorems about them |
| `StatusEffects`, `StatusEffectsProofs` | notification and metrics after a commit; theorems |
| `OrderListing` | the query and the sort |
| `Lifecycle` | start and shutdown of the replicas |
| `ListingAndLifecycleProofs` | theorems about the two modules above, which have to do with no other |
| `MC*` | constants, scopes, bounds and symmetry for TLC |

    PartsLedger    <--implements--  ServiceOrderSaga  <--implements--  OrderTransactions
                     (proved, checked)      ^              (proved, checked: without edits)
                                            | INSTANCE
                                     SagaConversation
                                      /            \
                             stands on              stands on
                            CommandChannel         OrderedInbox
                       (proved, checked)        (proved, checked)
                            OutboxRelay            ReplyQueue

Definitions whose comment begins with "A slip" are not part of any
specification. Each is a variant of the definition after it with a plausible
mistake, and there is a run in which that mistake breaks a property.

### ServiceOrderSaga

| Variable | Code |
|---|---|
| `status`, `budgetTotal` | columns of `service_orders`; "NONE" is an order not inserted yet |
| `items`, `services` | `service_order_items` (a quantity per part, 0 for no line), `service_order_services` |
| `history` | `to_status` of `service_order_status_history`, oldest first |
| `stock`, `reserved` | columns of `items` |
| `outbox` | the rows of `outbox_messages` of each order, published or not |
| `processed` | `processed_messages` |
| `customers` | customers whose `deleted_at` is null |

One action is one unit of work run to its commit. `process()` appears in each
message action as `Accepted` or `Ignored`: the id is recorded, the status is
compared with the table, and either the effect or nothing follows. A unit of
work that throws rolls everything back, its message id included, so what makes
it throw is a guard: `assertTransition`, a conditional update that finds no row,
a CHECK constraint, a customer that was deleted.

The messages are any reply and any dead command for any order at any time, with
any id. This is more than the queues deliver, so nothing proved here depends on
the participants. Quantities are any integers, since `ServiceOrderController`
does not validate them; what stops 0 and negative ones is the CHECKs, which the
actions contain. Prices, names, dates and the amount of the budget are left out.

`UpdateStock` is the stock part of `UpdateItemUseCase`, for a body as the route
documents it (section 8). `BudgetGenerated` has a total that is a number and not
negative; with any other the handler throws, which leaves no trace in these tables
and is the same as no step. Parts and services are
never added or deleted: a part or service used by an order cannot be deleted
(foreign keys; `Catalogue` has them), and one that is not does not touch these
properties.

### OrderTransactions

The committed tables have the same names as in `ServiceOrderSaga`. `tx[s]` is
the unit of work of session `s`: the statement it is at, the operation, what it
read and the uncommitted rows of `items` it holds locked.

| Action | Statement |
|---|---|
| `RecordMessage` | BEGIN and `markProcessed`: waits while another session has inserted the same id |
| `BeginRequest` | BEGIN of a staff request |
| `ReadOrder` | `findById` and the status check; takes no lock |
| `ReadItem` | `items.findById` of `RemoveItem`; takes no lock |
| `WriteItem` | one `reserve`, `release`, `consume` or the absolute update of `RemoveItem`: takes the row lock, evaluates WHERE and CHECKs on the committed row |
| `Commit` | `create`/`update` of the order, `outbox.add`, COMMIT |
| `CommitIgnored` | COMMIT of a message that found another status |
| `Abort` | rollback: an exception, a crash, a timeout, a deadlock victim, a lost version claim |
| `UpdateStock` | the administrator's single UPDATE |

The isolation is READ COMMITTED, since no isolation level is passed to
`$transaction`. Three abstractions keep it small. The version number is replaced
by `stale`, the sessions whose order another session wrote since they read it;
comparing versions asks exactly that. The claim of the version and what follows
it up to the COMMIT are one step, because the row lock of the order keeps
everybody else from writing the order in between. And the several SELECTs of
one `findById` are one read. `OperationAssumption` names what the proofs need of
the operations: their kinds, integer quantities (an opening may ask for a negative
one too, and holds its reservation until a CHECK refuses the line), and that every
order is opened under an identifier of its own (`@default(uuid())`,
`prisma/schema.prisma:106`).

What arrives is restricted by what surrounds the service, in definitions marked
external in `PROJECT.json`. `NextInQueue`: a FIFO queue hands out one message of
an order at a time, but may hand the same one out again while it is being
handled. `QueueOf` has the three queues that are polled: the replies, and the dead
commands of each participant. `Deliverable`: a reply
answers a command that was sent, and a command is dead only if it was sent.
The first one matters: without it a reply can read the status before the
previous reply commits, be dropped, and commit its id after it.

### PartsLedger

`free`, `held` and `taken` parts and a `phase` per order. Parts move between
free and held while an order is open; once it is priced they are fixed; then
they are all taken or all returned, once. `ServiceOrderSaga` implements it with
`freeParts = stock - reserved`, and phases, held and taken parts read off the
status and the lines (end of `ServiceOrderSaga.tla`).

### OutboxRelay and CommandChannel

| Variable | Code |
|---|---|
| `clock`, `open` | `created_at`, set when a transaction begins, and rows it has not committed |
| `rows`, `published` | `outbox_messages`, and those with `published_at` |
| `phase`, `batch` | where the relay of a replica is in `execute()` |
| `queue`, `remembered` | what each FIFO queue accepted per message group, and its deduplication window |

A cycle is `FindPending`, then `Send` and `MarkPublished` for each row. `SendFails`,
`AnswerLost` and `MarkFails` end the cycle with the exception that `runOnce`
catches; `Crash` may come at any point. `Forget` is the end of the five minutes.
`Begin`, `Commit` and `Rollback` are the units of work: those of one order follow
each other (`SendersFollowEachOther`, section 7, shows that they do), those of two
orders may commit against their `created_at`.
`CommandChannel` promises, per order and queue, every message in the order of the
requests, with repeats.

### ReplyQueue and OrderedInbox

| Variable | Code |
|---|---|
| `waiting`, `receives`, `inflight`, `dead` | the queue: messages, receive counts, visibility, dead letters |
| `handled` | `processed_messages`, written with the effect |
| `phase`, `batch` | where the poller of a replica is in `pollOnce` |
| `limit` | `maxReceiveCount`; 0 for the dead-letter queues of commands, which have no redrive policy |

`Receive`, `Handle` and `Delete` are the steps that go well. `Refuse` is a message
that is no envelope, or of an unknown type. `HandleFails` and `DeleteFails` break
the batch, and may have taken effect. `Expire` gives a message back while it is
still being handled, and `Redrive` moves one to the dead letters.

### SagaConversation

The message actions of `ServiceOrderSaga` (`INSTANCE`, with no parts) between two
channels, which are what the two modules above were shown to be. `handed` and
`taken` say how far each channel was read, `execution` and `billing` what each
participant has done (external, after its commands and replies), `dead` the
commands on their way back, `stuck` and `lost` what a person is told. A command
may die, and the customer may be deleted. Behaviours with faults add replies that
die without having been handled, and commands that are carried out at the fifth
receive and die as well. Orders do not meet here, so there is one.

### Catalogue

`row` is the five tables: the state of a row, its unique key as it is spelled,
and the customer of a vehicle. `uses` and `open` are the foreign keys and the
reservations of orders. A request is a sequence of queries, one action each
(`Lookup`, `Check`, `Find`, `Insert`, ...), and those of others fall in between:
none of these use cases runs in a transaction. `Settle` is an order that is paid,
rejected or cancelled. The body of a request (`Body`, `Suits`) is one of these:

| Body | What becomes of it |
|---|---|
| good | accepted |
| refused | 400 where the use case validates; a CHECK, hence 500, for a service; a wrong password for a login |
| low | a stock below what is reserved: the CHECK |
| malformed | no JSON, or without a field that is read before the first query: 500 at once (`Throw`) |
| unfit | without a field that is needed later, with one that no table has, or with an unknown role: 500 at the write, or where a password is compared |
| retired, revived | a customer's update that brings `deletedAt`, which Prisma writes as it does any column (`Written`) |

An update of a vehicle may bring another customer, and fails on the foreign key if
there is none (`ParentMissing`).

### Routes, Access and Documents

`Routes` is a table: for every route whether it reads a token, whom it lets
through, and the answers its `@openapi` block lists. `Access` passes a request
through the limiters and middlewares in their order and compares the answer with
`docs/architecture/authorization-matrix.md`. A token may have any role, since
`authMiddleware` takes any string (`AnyRole`), and the caller may have used up what
a limiter allows (`spent`). `Documents` has the check digits.
None of them has variables. `HttpApi` joins them to `Catalogue`, in whose run they
are evaluated.

### StatusEffects

`job` is what a worker (a poller or an HTTP request) has still to do after its
commit: count the order, or read order and customer, publish, and measure.
`announced` is what was sent about each order, in the order it was sent; `created`
and `measured` count the other effects; `missed` remembers orders about which
something failed or was cut off, and then for good: the property asks nothing more
of them. An order is not opened yet when the model begins, or is being repaired with
all its effects done (`UnderRepair`), so that delivery is reached. The state machine alone moves the
order, between any two steps of a worker.

### OrderListing

`Ask`, `FindAll` (the rows in any order, since the query has no ORDER BY) and
`sortByPriority`, with `Move` between any two of them. `compare` is the comparator
with its 99 for a status that has no priority; the sort puts one row after the
other into its place, as a recursive function. `Waits`, in the property, says
separately in which order the workshop looks at the statuses. The specification is
called `ListingSpec`, so that one module can hold theorems about it and `Lifecycle`.

### Lifecycle

`boot` follows the awaits of `main()`, `closing` those of the SIGTERM handler, and
`elapsed` the time since Kubernetes began to end the pod. `early` remembers that
SIGTERM came before `main()` was through. All pods share the table of users, in
which the default administrator is registered once.

## 3. Properties

Each module with variables of its own has one type invariant, except the lists
and the two whose types only the proofs state (`StatusEffects`, `Lifecycle`). The
others are:

* `ServiceOrderSaga`
  * `ReservationsBackOpenOrders`: the reserved quantity of each part is what the
    orders that still hold a reservation have in their lines.
  * `NoMessageIsPoison`: a message that finds the status it expects can be
    applied; stock and transition tables never make it fail. A deleted customer
    and a total that is no number or negative may.
  * `CompensationIsComplete`: what was asked of a participant is cancelled if and
    only if the order ends rejected or cancelled, after it was asked, and never
    once the order is paid.
  * `EachCommandAtMostOnce`, `OneMessagePerDestination` (on which the order of
    publication relies, `PrismaOutboxStore.ts:9-11`).
  * `BudgetIsTheOrder`: what was priced, what is repaired and what the order says
    are the same. This is of requests that run one at a time; an edit that overlaps
    `DiagnosisCompleted` breaks it in the code (section 5).
  * `HistoryIsALegalPath`, `ClosedOrdersAreFinal`.
  * `ImplementsLedger`: refinement of `PartsLedger`.
* `OrderTransactions`
  * `ImplementsSaga`: refinement of `ServiceOrderSaga`, for everything but the
    edits. It carries `ReservationsBackOpenOrders` and the other invariants of
    `ServiceOrderSaga` down to the interleaved statements.
  * With the edits: `HistoryIsALegalPath` and `CompensationIsComplete`, which
    survive them.
* `OutboxRelay`
  * `PublishedIsAccepted`: a row marked published is in its queue.
  * `ImplementsChannel`: refinement of `CommandChannel`; no relay, however late,
    lets a message overtake another of its order.
  * `EveryRowIsPublished` (liveness).
* `ReplyQueue`
  * `NothingIsLost`: what left the queue was handled or is in the dead letters.
  * `ImplementsInbox`: refinement of `OrderedInbox`; an order's messages take
    effect once each and in order, although receives overlap.
  * `EveryMessageIsSettled` (liveness), where a message that is no command does
    not stand for ever in front of a queue without a limit of receives.
* `SagaConversation`
  * `OnlyRepeatsAreDropped`: without faults no reply comes too early or too late.
  * `StatusAgreesWithParticipants`: the order never claims what was not done,
    whatever dies.
  * `OrdersMoveOn`, `PaidOrdersAreRepaired`, `ClosedOrdersAreReleased` (liveness).
    The last two need that no participant did what it gave up.
* `Catalogue`
  * `KeysAreHeldOnce`: look-ups and writes of two requests may fall in any way.
  * `AnswersTellTheTruth`: an answer is true at the moment it is given.
  * `AnswersAreDocumented`: and is one that the documentation lists. What it leaves
    out is named in the property: the 400 of a customer's update, and the 500 of
    what `Unanswerable` lists. On customers and users that is a malformed or unfit
    body and nothing else, never a taken key or a row that comes or goes meanwhile.
    It is about the answers of the controllers: the middlewares' 401, 403 and 429
    are compared with the authorization matrix, and not with the `@openapi` blocks,
    most of which do not list them.
  * `CallersMeetTheMatrix` (`Access`): the guards and limiters of six routers add up
    to the one table. `CheckDigitsAreUnique` (`Documents`).
* `Lifecycle`: `CleanExitsCutNothing`, of replicas that were through with `main()`
  when SIGTERM came (section 5 has the others); `EveryReplicaStarts` (liveness), although
  replicas that register the administrator together make each other fail.
* `StatusEffects`: `EffectsFollowCommits`; `EndIsAnnounced` (liveness), although
  the notification reads the order again and may be overtaken.
* `OrderListing`: `MostUrgentFirst`; `WorkIsListedOnce`, while orders move.

## 4. Runs that pass

| Run | Instance | States |
|---|---|---|
| `SagaTwoOrders` | 2 orders, 1 part, stock 0..3, quantities -1..2, 8 messages | 60,792 |
| `SagaOneOrder` | 1 order, 2 parts, 1 service, stock 0..2, 9 messages | 32,868 |
| `TxOrders` | 2 sessions; one order on every path, or two with one part and stock 2..3 | 97,799 |
| `TxEdits` | 2 sessions; 1 order, add and remove, an opening that is refused, stock 0..2, 7 messages | 152,554 |
| `Outbox` | 2 orders, 2 queues, 2 relays, batches of 2, 3 transactions, 2 copies of a message | 24,570 |
| `Queue` | 2 orders, 2 replicas, 2 messages, batches of 2, limit of receives 2 or none | 29,348 |
| `Conversation` | 1 order, 2 dead commands, three sets of faults | 45,381 |
| `Catalogue` | 2 requests, 3 scopes of rows, routes and bodies, 2 keys, 2 orders | 306,821 |
| `Lifecycle` | 2 pods, 1 request each, preStop 1, timer 2, grace period 3 | 76,793 |
| `Effects` | 1 order, 2 workers, 6 statuses | 48,290 |
| `Listing` | 3 orders, 2 customers, 2 times, the filters of `MCOrderListing` | 103,152 |

Why these bounds are enough to make the interesting cases happen.

* `Saga*`: an order ends after at most eight status changes and
  `BudgetGenerated`, so nine messages take it from the opening to any end; with
  two orders, eight let both be paid, or one be paid while the other is refused,
  fails or waits. `IdsInOrder` makes ids interchangeable: only how many were
  recorded matters. Two orders and stock up to 3 make every reservation succeed,
  fail and just fit; a second part makes the loops over the lines meet a part
  that is there and one that is not. Quantities contain 0 and a negative number
  because the controller lets them through.
* `Tx*`: two sessions are the smallest number that interleave; the redelivery of a
  message is always possible. `OneOrTwo` joins the two instances of `TxOrders`:
  `UpdateStock` is free only where two orders share the part. `FewParts` stops
  at one part more than the stock: edits that erase each other's reservations
  could otherwise add parts for ever. Sessions are symmetric.
* `Outbox`: batches of 2 and 3 transactions make a batch end inside a channel and
  between channels, and let a row commit behind one with a later `created_at`.
  A second copy is one repeat past the deduplication window. `FewRows` keeps
  transactions to shapes that differ; it stops only `Begin`, which has no
  fairness, so it hides no step that the liveness property waits for.
* `Queue`: a limit of 2 has a receive that fails, one that is the last and one too
  many; SQS has 5. One order with two messages tests their order, two orders with
  one each the break and the locks of groups.
* `Conversation`: two dead commands let one die and its compensation die as well,
  or both participants fail. Three give the same result and take longer.
* `Catalogue`: no property relates rows of all five tables, so the requests meet
  in scopes of two or three: customers and users; customers and vehicles;
  services, parts and orders. Each scope has the bodies that matter to its calls:
  the refused, malformed and unfit ones for customers and users, the two that bring
  `deletedAt` where there are vehicles, and all but those two on the shelf. The
  rules of `Access` and `Documents` do not depend on the state and are looked at
  before the first request: every route with every kind of token, within the limits
  and past them, and bases made of two digits, one of them zero.
* `Lifecycle`: 5 s, 25 s and 30 s are to scale in what matters, that the first two
  add up to the third, so that the forced exit and SIGKILL come at once.
* `Effects`: from the opening DIAGNOSIS, WAITING_APPROVAL and the ends REJECTED and
  CANCELLED; from the repair FINISHED and the end DELIVERED. So there is a change
  that may overtake another before each of the three ends.
* `Listing`: two customers and two times make equal and different keys; three
  rows are the least that a comparison which is not transitive sorts wrongly.

Deadlock is checked in all runs but two: in `Listing` a request is answered and
ends, in `Conversation` an order that has ended stops. Elsewhere a repeat, an
abort, a restart or a further request is always possible; so its absence says
little, and progress is what the liveness properties are for.

## 5. Where the code and its documents disagree

One run shows a disagreement. `TxLostReservation`: `RemoveItem` reads the reserved
quantity, another order reserves the same part, and `RemoveItem` writes back its
stale difference. The other order's reservation is gone without an error
(`data-model.md:200-202`).

Others were met while modelling; the models contain them, the properties are
stated so that they leave them out, and no run is about them:

| Where | What |
|---|---|
| `AddItemToOSUseCase.ts:27` and the other edits | `update` without `expectedVersion`. An edit that read DIAGNOSIS commits after `DiagnosisCompleted` has sent the lines: the part is in the order and in no budget (`ServiceOrderSaga.ts:176-177`, ADR-014:115-117) |
| `AddItemToOSUseCase.ts:22` | two `AddItem` read the same lines, both reserve, and the second replaces the line of the first: a reservation that nothing releases (line 10) |
| `ServiceOrderSaga.ts:129` | when `DiagnosisStarted` dies, `DiagnosisCompleted` finds RECEIVED and is dropped as a repeat (lines 25-27): the order waits for nobody, and the alert is the only trace |
| `ServiceOrderSaga.ts:129` | a command that is carried out and declared dead cancels the order; its late reply is dropped, and what was done stays done |
| `SqsQueuePoller.ts:78` | the break after a failure costs the messages behind it a receive, so they can die without having been tried (ADR-015:74-75) |
| `NotifyStatusChangeUseCase.ts:17` | it reads the order again: of two changes that overtake each other the earlier is never announced |
| `ListServiceOrdersUseCase.ts:27` | rejected and cancelled orders stay among the "active" ones |
| `main.ts:163` | SIGTERM during the start: the messaging that is started afterwards is not stopped, and `exit(0)` may cut a message (lines 152-153) |
| `main.ts:156` | the forced exit comes 5 s + 25 s after the pod began to end, which is the grace period: SIGKILL may be first (lines 153-154) |
| `DeleteItemUseCase.ts:13` | a part of an order that is paid has no reservation and cannot be deleted: 500 (`itemRoutes.ts:116-121`) |
| `CreateServiceUseCase.ts:8` | a negative price meets the CHECK: 500 (`serviceRoutes.ts:99-100` says 400) |
| `UpdateCustomerUseCase` | answers 400, which its route does not document |
| `RegisterUseCase.ts:27-28`, `CreateCustomerUseCase.ts:21-30`, `LoginUseCase.ts` | a missing field, an unknown role or an extra field is a 500 (`errorMiddleware.ts:21-22`), which no route documents |
| `PostgresCustomerRepository.ts:72` | an update may bring `deletedAt` and so delete a customer without the route for it |
| `ItemController.ts:44`, `PostgresItemRepository.ts:49` | the body of an update is passed on whole: one that names `reservedQuantity` overwrites the reservation, within the CHECK |
| `ServiceOrderSaga.ts:210-213` | a reply whose total is no number throws on every delivery and ends in the dead letters; the Billing Service is taken to send numbers |
| `authRoutes.ts:11-13` | the limit of logins is 30 in 15 minutes by default; `authorization-matrix.md:66` says 10. (Counts are not modelled: `spent` says that one is used up) |
| `CreateVehicleUseCase.ts:21` | one plate in two spellings is two vehicles (`data-model.md:197`) |
| `GetCustomerByTaxIdUseCase.ts:9` | a formatted document is not found (`customerRoutes.ts:66`) |

Passing the version that was read, and releasing with `items.release`, would
bring the edits under the argument of `ImplementsSaga`.

## 6. Fairness

| Module | Assumed | Why |
|---|---|---|
| `OutboxRelay` | WF of a restart; SF of find, send and mark | `schedule()` sets the next timer whatever the cycle came to; the database, the queue and the process may fail any number of times, but not at the same call for ever. Transactions have none |
| `ReplyQueue` | WF of expiry, restart, refusal and of the end of every call; SF of receive, of handling and deleting in time, and of redrive | `run()` polls again after every batch and every error; a message may come back while it is handled, but not for ever |
| `SagaConversation` | WF of taking a command or failing at it, of handling and deleting replies and dead commands, and of the death of a reply that can never be handled | the liveness of the two modules above, and a participant that is running. Mechanics, customers, the payment provider and the staff have none |
| `Lifecycle` | WF of a replacement and of what `main()` does next; SF of the three calls of the start | the Deployment keeps its replicas; the database does not stay away whenever a replica asks |
| `StatusEffects` | WF of a worker's next step | every step is an await whose call answers or fails. Nothing redoes what a crash cut off: `missed` says so |

The safety properties of these modules do not use it: the theorems are about
specifications without fairness, except in `StatusEffects`, whose `Spec` has it and
whose theorem does not use it.

## 7. Proofs

Eight modules of theorems. The assumptions are those of the constants:
`SagaAssumption` (every order has a customer, quantities are integers, stock
levels are natural numbers), `OperationAssumption` (section 2),
`ConversationAssumption`, `OutboxAssumption`, `QueueAssumption`,
`CatalogueAssumption` ("none" is not the identifier of a row, each has one table,
scopes contain no other calls than the modelled ones), `AccessAssumption` (orders
belong to customers), `EffectsAssumption`, `ListingAssumption` (types, and a table
of finitely many orders) and `LifecycleAssumption` (types, and a preStop sleep that
is not longer than the grace period). The bounds are constants
like the others, so the theorems hold for any value of them.

| Module | Theorems |
|---|---|
| `ServiceOrderSagaProofs` | `TypeCorrect`, `HistoryCorrect`, `CommandsAreUnique`, `CompensationCorrect`, `BudgetCorrect`, `ClosedAreFinal`, `DestinationsDiffer`, `LedgerImplemented`, `ReservationsCorrect`, `NoPoison` |
| `OrderTransactionsProofs` | `TypeCorrect`, `HistoryCorrect`, `CompensationCorrect`, `SendersFollowEachOther`; without edits `SagaImplemented`, `ReservationsHold` |
| `OutboxRelayProofs` | `TypeCorrect`, `PublishedCorrect`, `ChannelImplemented` |
| `ReplyQueueProofs` | `TypeCorrect`, `NothingLost`, `InboxImplemented` |
| `SagaConversationProofs` | `TypeCorrect`, `SagaImplemented`, `StatusCorrect`, `RepeatsCorrect` |
| `CatalogueProofs` | `TypeCorrect`, `KeysCorrect`, `AnswersAreTrue`, `DocumentationIsKept`, `ReferencesCorrect`, `CallersCorrect`, `CheckDigitsCorrect`, `DigitRulesAgree` |
| `StatusEffectsProofs` | `TypeCorrect`, `EffectsCorrect` |
| `ListingAndLifecycleProofs` | `MostUrgentCorrect`, `WorkListedCorrect` (of `ListingSpec`); `TypeCorrect`, `CleanExits` (of `Lifecycle`) |

**`ServiceOrderSagaProofs`.** `TypeOK` is inductive: the guards that come from the
WHERE clauses and the CHECKs are what keeps the subtractions natural, whatever
quantity a caller sends. `HistoryIsALegalPath` is inductive given `TypeOK`, since
a step either leaves an order's status and history alone, or opens it, or appends
one legal move (`StatusStep`).

The three properties of the outbox are not inductive. That a command was not
sent before does not follow from the absence of duplicates, but from the status
the order is in. The strengthening is `Trail`: for each status, the exact
sequence of command types an order has sent by then (several for CANCELLED, one
per step that can fail), and the payloads. Handling a message that changes the
status extends the trail by exactly the commands of the new status; edits happen
only on trails where nothing was priced. Each of the three properties then
follows from `TypeOK /\ Trail` with no further induction.

`ClosedAreFinal` goes action by action: an order that is delivered, rejected or
cancelled expects no message, and a step about another order leaves its rows
alone. `DestinationsDiffer` looks at what one action appends: one command, or
the two cancellations, which go to different queues.

For the refinement the extra invariant is `ReservedWithinStock` (the CHECK that
makes `freeParts` natural). Each action maps to one ledger action or to a
stutter; the lemmas `CreateMapped`, `EditMapped`, `PriceMapped`, `ConsumeMapped`
and `ReleaseMapped` say which.

`ReservationsBackOpenOrders` compares a column with a sum over orders. There may
be any number of them, but only finitely many are open, and the sum is over
those. No induction over sets is at hand (see the end of this section), so what it
takes of a sum is shown by smallest counterexamples: a family of subsets of a
finite set has a smallest member (`Smallest`), therefore the recursive sum exists
(`SumExists`), does not depend on the order in which it is taken (`SumsMeet`),
and changes by what one order adds, drops or changes. `NoMessageIsPoison`
follows: the quantity a message releases or consumes is one term of a sum that
equals the reservation.

**`OrderTransactionsProofs`.** What the version column is for is the invariant
`VersionsHold`: a session that will claim the version it read, and whose order
nobody wrote since, still has the status of the order right. So the move it
commits starts from the recorded end of the history. It needs that whoever
writes to an order found it (`WritersFoundIt`), and that an order which is being
opened is opened by one session only (`OpeningIsAlone`), or a second insertion
could start a history again. The edits, which claim no version, are included:
they write no status.

`Isolation` adds what a session may rely on until it commits: what it read is
what its operation expects (`ReadsHold`); the rows it locked are its own and still
the ones its WHERE was evaluated on (`RowsHold`); its message is not recorded yet
and is the only one of its order from its queue (`MessagesAlone`), and if it is to be ignored
the order has not come back to a status that expects it; and the trails of
`ServiceOrderSagaProofs` hold of the committed tables, from an instance of that
module. `CompensationCorrect` follows with the edits running.

`SagaImplemented` maps each commit to one step of `ServiceOrderSaga` and every
other statement to a stutter. Its hypothesis is `NoEdits`: no request adds or
removes a part. With edits it is false (`TxLostReservation` is the
counterexample), so the hypothesis says which operations are free of the defect.
`ReservationsHold` carries the sum down: without edits the interleaved statements
have the invariant because the atomic units of work have it.

`SendersFollowEachOther` is an action property, with the edits running. When a unit
of work commits a command of an order, whatever else runs on that order is spent:
it adds no command, or has yet to look and will find a status it does not expect,
or has read a version that is no longer the last. What is spent stays so until it
ends, and ends without a command; a message that found the wrong status needs that
the order never comes back to the right one (`NeverExpectedAgain`). So of two
transactions that add a command to one order the second began after the first had
committed, which is what `Begin` of `OutboxRelay` takes for granted.

**`OutboxRelayProofs`.** Accepted before marked is easy (`MarkedWasSent`). The
order is not: nothing keeps two relays from holding the same rows, and one of
them may be as late as it likes. The key is `BatchIsGapless`: a relay never holds
a row without the earlier rows of its channel; each of them is in the queue, or
stands before it in the same batch. It holds at the read because rows of an order
become visible in the order of their `created_at` (`OpenIsLater`) and because
what is published was accepted, and no step of another relay can break it, since
a queue only grows. A send is then a first delivery in order, or a repeat.

**`ReplyQueueProofs`** has the same key with "handled or given up" in place of "in
the queue": a poller whose receipts have expired still holds no message without
the earlier ones of its order, so it can repeat but not overtake. `NothingIsLost`
is what makes it hold at a receive, since what is no longer waiting was handled
or died.

**`SagaConversationProofs`.** On the tables of this service every step is one of
`ServiceOrderSaga` or a stutter (`SagaImplemented`), since what a channel brings
answers a command that was sent: the theorems about the saga, in an instance of
`ServiceOrderSagaProofs`, hold of the conversation (`SagaFollowed`). The rest
is what the orchestrator and the two participants know of each other.

Whatever dies, `Agreed`: a participant has done only what was handed to it
(`HandedOver`), what it told was done and is not taken back but by a cancellation
(`ToldIsDone`), a cancellation was asked for only where the order was given up
(`CancelledForGood`), and the status of an order is one it was told
(`StatusIsTold`). `StatusAgreesWithParticipants` is a consequence.

Without faults, `InTurn`: replies are handled in the order of the queue
(`HandledInOrder`), a command that died was not carried out and the order still
waits for it (`DeadInTurn`), and for each stage of an order (`Diagnosing`,
`Deciding`, `Repairing`, `GivenUp`) where both participants stand and which
replies are still on their way. So the reply that is next is one the status
expects, or was handled before. With faults this is false, and
`OnlyRepeatsAreDropped` does not claim it.

**`CatalogueProofs`.** `KeysAreHeldOnce` is kept by the unique index at the two
writes that give a row a key, whatever was looked up before. That a soft deletion
leaves it alone needs more: the row that is written must already be there
(`LeavingIsThere`, because `softDelete` finds it first and nothing else deletes
customers), and a request must write to the table of its call (`NamesItsTable`).

An answer is about the state in which it is given, while a request has seen only
earlier ones. What makes them agree is what cannot change meanwhile: the query a
request waits for is one of its own (`StepFits`), a row that was found is not lost
before it is written, or was there once (`SeenBefore`), a row that is inserted is
nobody else's (`InsertsAreNew`), and what a foreign key refers to is there
(`ReferencesHold`, a theorem of its own). The lemmas about the single queries
show each answer true and documented at once (`StepsAnswerWell`), for every body: a
500 at a write is traced to the body (`Unwritable`), to a row that is gone or to a
reference to none, and only the first can come of a customer's or a user's request.

`CallersMeetTheMatrix` is not about a state: `RolesOfRoutes` finds the roles of
each route in the table of `Routes`, `UserOfToken` says what authentication makes
of a token, and the answer is compared case by case with the documented one. TLC
does the same for two customers and orders; the theorem is for any. The CPF's
rule and the CNPJ's are written differently and give the same digit for every sum
(`DigitRulesAgree`).

`CheckDigitsAreUnique` is checked by TLC for bases of two digits (`Digits`) and proved
for any (`CheckDigitsCorrect`): with all ten TLC would have to go through 10^12 bases.
The weighted sum is unrolled (`SumOfNine` to `SumOfThirteen`), the first check digit
is a function of the base and the second of both, so the documents of a base are
one pair of digits, or none where that pair makes all the digits alike
(`OnePair`, `NoPair`).

**`StatusEffectsProofs`.** No status comes twice in a life (`Rank`, in
`HistoryIsPast`), so two jobs about one order and one status cannot both be under
way (`JobsDiffer`), and a job that is still to be measured has not been
(`JobsFollowCommits`). That no more is announced than happened is not inductive,
since a worker announces the status it reads, which may be a later one than the
change it is there for. `AnnouncedOnce` counts changes and not statuses: the
announcements of an order are at most its changes which no worker has still to
announce.

**`ListingAndLifecycleProofs`.** `ListInv` says of the rows from the query on that
no order is there twice and that every order which is wanted now is there. The
second part survives the moves because a status that ends the work is final
(`EndedStaysEnded`), so what the query left out is still not wanted. The query
returns each row once (`RowsFound`: as many places as rows, so an injection is
onto). The sort keeps the rows and puts them in order (`SortingSorts`, by the
smallest prefix for which it would not), because the comparator is total and
transitive on any statuses and times (`CompareOrders`) and a row goes in front of
the first that it precedes (`PlaceIs`). That `compare` agrees with the workshop,
whose order `Waits` writes down apart from the table, is `CompareIsUrgency`.

Of the replicas: after a SIGTERM that found `main()` through, nothing is
received, and a message that was being handled is waited for
(`NothingIsReceived`). Without `early` it does not hold (section 5).

Out of the provers' reach, and so only model-checked, are liveness and ENABLED:
`EveryRowIsPublished`, `EveryMessageIsSettled`, `OrdersMoveOn`,
`PaidOrdersAreRepaired`, `ClosedOrdersAreReleased`, `EveryReplicaStarts` and
`EndIsAnnounced`. So is induction over data, whose theorems take an operator as a
parameter; where a smallest counterexample can take its place, as for the sum of
the reservations and the sort of the list, a theorem is stated all the same.

Every safety property that the runs check has a theorem. That of `ImplementsSaga` is
without edits only, for the reason given above.

## 8. What is not modelled

* The lists of customers, vehicles, parts, services and average times: one query
  that reads one table, with nothing between it and the answer.
* Patterns of plates, telephones and e-mails, the hash of a password, the
  signature and expiry of a token: a value is good or refused.
* Bodies that name columns no route documents, other than a customer's `deletedAt`
  and a vehicle's `customerId`: `id`, the time stamps and, for a part,
  `reservedQuantity`. What is shown about reservations and stock is about bodies
  as they are documented.
* The counts and windows of the rate limiters, and whether the `@openapi` blocks
  list what the middlewares answer (401, 403, 429).
* A reply with a total that is no number or negative: it would throw each time.
* A start without `ADMIN_PASSWORD`, which registers no administrator and goes on as
  if there were one; orders that are opened between the query of a list and its
  answer.
* The bodies of requests and answers, names, prices and dates: no property here
  depends on them.
* HTTP and integration metrics, traces, logs and health probes: they observe.
* Factories, configuration and the wiring of objects, migrations of data, seeds
  for development, load tests and the deployment files, except the settings named
  above.
* The Execution and Billing services, SQS, SNS and PostgreSQL are external. They
  are modelled as far as the service relies on them, and marked so in
  `PROJECT.json`.
* The services of an order are edited only in `ServiceOrderSaga`, not statement by
  statement: they hold no reservation, and they write the order in the same way
  as the parts, without a version.

`PROJECT.json` lists every part with its status, and the hazards, each at its
line with the properties that cover it.
