# Seramet Connect: TLA+ models

Seramet Connect is a multi-tenant restaurant platform: a POS in the browser that
keeps working offline, an HTTP API on isolates with no memory of their own, a
relational database, a work queue with a minute cron, adapters to payment and
marketplace providers, and a bridge to the printers on a PC of the branch. What
makes it hard is that the same business command can be sent twice, by two routes,
from two terminals, be half done when an isolate stops, and be reported by a
response that never arrives. This directory models the parts that have to survive
that: the authoritative store, the offline queue and its replay, the worker jobs,
the integration outbox, provider events, billing, kitchen orders, kitchen printing
and reservations.

## Inventory

| component | state | operations | interacts with | hard about it | correct when |
|---|---|---|---|---|---|
| Authoritative store (`server/database/authoritative-transaction-repository.ts`) | entity rows with versions, JSON read model with a revision, `mutation_commits` | `commitMutation`, `saveState`, `loadState` | every route and worker calls it; the database runs its batch | optimistic reads at several awaits, retries, commits nobody hears of | commands take effect one at a time, at most once per key; answers are true |
| Offline queue and replay (`hooks/use-transaction-engine.ts`, `offline/`, `server/offline-sync-api.ts`) | IndexedDB commands, sequence, revision on screen; `offline_commands` rows | `mutate`, flush, refresh; `processCommand`, the mutate route | posts to the store's routes | lost responses, a handler that outlives its client, chained revisions, two routes for one key | applied once, in order, shown truthfully, drained |
| Worker jobs (`server/workers.ts`) | `worker_jobs` row: status, attempts, lease, schedule; queue messages | claim, execute, complete, record failure, cron resend | queue, cron | leases that expire, stale failure writes, a delivery limit | one worker at a time, settled in the end |
| Integration outbox (`integrations/runtime/`) | `integration_outbox`: status column and JSON record, lease; messages | enqueue, coalesce, claim, send, retry, dead-letter, requeue, manual run | workers, provider | two copies of the status, coalescing into a claimed row, read-modify-write of the record | what says sent was sent; the latest value wins; settled in the end |
| Integration runtime (`integrations/runtime/integration-runtime.ts`) | idempotency claims, event rows, mappings; orders, intents and collections in the transaction state | webhooks, recovery, replay, payment prompts, check of prompts, release of held orders | store (`saveState`), provider | claims kept by failed events, messages in any order, state saved after a provider call | an event takes effect once, an order is imported once, a receipt is booked once, nothing vanishes |
| Billing (`lib/transaction-engine.ts`, `payments/`) | orders, bills, payments, collections, allocations, receipts, refunds | request, split, merge, defer, pay in seven ways, verify, apply, refund | reducers inside `commitMutation` | two records of a payment, money left over, bills out of force | revenue conserved, money spent once, refunds covered |
| Kitchen orders (`lib/transaction-engine.ts`) | an order's lines, tickets, production stages, stock deductions | draft, hold, release, send, amend, report, recall, serve, bill, pay, cancel | tills, stations | long sequences of legal commands from several screens | the kitchen knows what to make, statuses are not early, stock is deducted once |
| Kitchen printing (`local-print-bridge/`, `server/printing-api.ts`, `hooks/use-seramet-print-queue.ts`) | obligations, grants, reservations; the bridge's ledger and tasks | claim, authorize, submit, reserve, send, record, settle, review | devices, server, bridge, printers | lost answers, crashes while printing, lost ledgers, expiring deliveries | one copy unless reviewed, delivered means printed, every job ends |
| Reservations (`guest/guest-service.ts`, `server/workers.ts`) | reservations, assignments, capacity locks, table sessions, deposits | book, change, cancel, staff transitions, walk-in, pay and apply a deposit, expire | worker, payments, store | check-then-act at many awaits, batches of which only one statement is guarded | no table promised twice, capacity returned, deposits paid and used once |
| Guest ordering, CRM and loyalty, inventory, finance, management, onboarding, enterprise, UI | relational tables | SQL services and views | database | see Not modelled | not modelled |

`PROJECT.json` lists every component with its sources, every hazard at its line,
and the lines each definition stands for.

## Modules

- **SerialLedger** is the abstract specification of the store: `TakeEffect`,
  `Confirm`, `Refuse`, `Fail`. No reads, versions or races.
- **AuthoritativeStore** is the repository as written. Every `await` is a step:
  look-up of the key (`LookupHit`, `LookupMiss`), revision, rows, revision again
  (`ReadBefore`, `LoadState`, `ReadAfterStable`, `ReadAfterMoved`, three loops),
  the `expectedRevision` check, the computation, the two parallel reads of
  `persistState`, and the batch, which alone is atomic. `WriteRow` is what the
  version-guarded statements do to one row, and `ConstraintsHold` the UNIQUE
  constraints of `mutation_commits`. The batch may commit, commit unheard, be refused
  or be aborted, and a request may be interrupted anywhere. What a command does
  to the state is the constant operator `Mutate`.
  **MCAuthoritativeStore** gives small instances.
- **OfflineReplay** is one POS device and its server: the client's queue, flush
  and refresh, the sync and the mutate handler. The store is cut down to what
  matters here: an append-only log, and `commitMutation` in two steps (look-up;
  read, compare and commit). A flush takes the first `BatchSize` of the replayable
  commands as `BySequence` orders them; that is stated as what the batch is, not as
  the loop that fills it. A command enters the queue in three transactions of IndexedDB
  (`Draw`, `Number`, `Enqueue`), between which others do, so that two may have one number;
  the route then refuses the batch (`RefuseNumbers`) or the row (`ReceiveRefused`). The
  UPDATE that follows a commit may fail and be taken for the outcome of the command, a
  conflict or a failure (`MarkMistaken`). `AppliedInSequence` is about what the replay commits: a
  command issued online is numbered when it is queued, after its response was lost,
  and may have been committed long before by the mutate route.
  **MCOfflineReplay** makes the server's requests interchangeable.
- **WorkerJobs** is one job: its row, its messages, its workers, the cron, and a
  clock of thirty-second ticks.
- **IntegrationOutbox** is the outbox of one resource. It models the status
  column and the status in the JSON record separately, because
  the claim writes only the first and the coalescing reads only the second.
  `LoadFails` is any of the reads before `outbox.process` that throws; it costs a delivery,
  may happen any number of times, and leaves the row as the claim made it. `contested` is
  history: the changes that replaced one another while a worker had the row loaded.
- **ProviderEvents** is the integration runtime: what it does with webhooks of
  orders and payments, recoveries, replays and prompts, one step per await. The
  state a handler saves is the one it loaded with its own change, as in the code,
  so a commit in between is lost. `mishaps` records which of four things has gone
  wrong so far (*overlap*: two handlers on one order; *overwritten*: a stale save;
  *unmapped*: stopped between save and mapping; *unlogged*: stopped between claim
  and event row), and each property says which it excludes. A payment does not look at
  whether its order was cancelled, and `cancelOrder` leaves a bill open, so a cancelled order
  may become PAID; `paidAfter` records it.
- **Billing** is order to cash: every action is one reducer of
  `applyServerMutation`. A payment has two records, the orchestrator's transaction
  with its allocations and the engine's `PaymentRecord`, and the model keeps both.
- **KitchenOrders** is one order with its lines, between tills, stations and stock.
  `strayed` and `late` record the lines for which a command gave up what the
  properties say. **MCKitchenOrders** gives a dish and a drink of two stations.
- **KitchenPrint** is the way from a ticket to paper: the server's obligation and
  grants, devices, the bridge with its durable ledger and its runner, printers with
  a fallback, and the manager's review. A ticket of a branch with a kitchen display is
  settled by the device as it shows it (`Display`): nothing is authorized or sent.
  **MCKitchenPrint** gives two network printers, one of which falls back to a Windows queue.
- **Reservations** is the guest service's part about tables: requests read at
  several awaits and write one batch. Only one statement of a batch is guarded by
  what was read; `missed` records the reservations for which that statement found
  no row while the others took effect. `seatWalkIn` writes a booking of two hours and looks
  at no lock; `walkIn` names these. **MCReservations** gives two tables that may
  be combined.

- **AuthoritativeStoreProofs**, **OfflineReplayProofs**, **IntegrationOutboxProofs**,
  **ProviderEventsProofs**, **KitchenOrdersProofs**, **KitchenPrintProofs** and
  **ReservationsProofs** hold the inductive invariants and the theorems of the module each
  is named after, **BillingAndJobsProofs** those of Billing and of WorkerJobs, which have
  nothing to do with each other.

The modules meet in what they leave to each other: Billing, KitchenOrders and
KitchenPrint take a command as one step because AuthoritativeStore shows that
commands take effect one at a time; ProviderEvents does not, because its handlers use
`saveState`, for which AuthoritativeStore shows the opposite.

Definitions under a comment that begins with "Mutant:" are small
plausible bugs of the code. Each property of a passing run has one that breaks it.

## Runs

All runs pass but `outbox_latest`, which is there to show a violation.

| run | states | shows |
|---|---|---|
| store | 904,783 | a sale, its retry and another terminal: `NoLostUpdate`, `RowsMatchReadModel`, and the store implements `SerialLedger` |
| store_saves | 283,090 | with a `saveState` and a reused key: `RevisionCountsCommits`, `AnswersAreTrue` |
| replay | 1,336,668 | three commands by both routes, numbers drawn twice, two handlers, two faults: `AppliedOnce`, `AppliedInSequence`, `AcknowledgedIsApplied` |
| replay_screen | 757,520 | three commands, two issued online, one refused, all of which may be in the queue at once, and another terminal: `SnapshotKeepsSaved`, `QueueDrains` |
| jobs | 991,966 | an e-mail job, executions of any length, a crash and a failed query: `LeaseIsExclusive`, `SucceededIsFinal`, `JobSettles` |
| outbox | 1,994,349 | three coalesced changes at any time, coming back to an earlier value, a queue worker and a manual run, a fault: `SucceededIsDelivered`, `OutboxSettles` |
| outbox_latest | violation | two coalesced changes, one worker, no fault: `LatestWins` does not hold |
| billing | 465,886 | two orders, four bills, two payments, two refunds: `RevenueConserved`, `NothingIsSpentTwice`, `ReceiptIsEarned`, `RefundsAreCovered` |
| print | 633,470 | two tickets of network printers, one with a fallback, one on a display, two claims, a crash or lost ledger, a retry: `NoUnreviewedCopy`, `AcceptedIsSubmitted`, `SerialLanes`, `JobsEnd` |
| events | 4,688,881 | an order and a payment, any three of nine handlers two at a time, two commands of the till, a failure: `ProcessedOnce`, `ImportedOnce`, `CancelledStaysCancelled`, `CollectedOnce`, `NothingVanishes` |
| kitchen | 1,162,644 | a dish of up to two and a drink, any length of commands, one amendment: `KitchenKnows`, `ReadyIsReady`, `StockDeductedOnce` |
| reservations | 2,304,665 | two reservations, booked or walked in, two tables, four requests two at a time, the worker, a payment: `LocksMatchBooking`, `NoDoubleBooking`, `TableOpenedForSeated`, `DepositSettled`, `DepositSpentOnce` |

### What `outbox_latest` finds

The worker claims the row and loads its record with the first change. The claim writes
the column; the JSON record still says PENDING, so `coalesceOutbox`
(`integration-repository.ts:585`) replaces it with the second. The worker sends what it
loaded, and `updateOutbox` (615-627) writes PROCESSED over the record it finds, which is
the replacement. The provider shows the first change, the row says that the second was
sent, and `docs/PASS_3_TWO_WAY_DELIVERY.md:40` says "Sold-out and restock changes use
coalesced outbox records so rapid changes resolve to the latest value."

### What the conditions of the passing runs exclude

Some properties hold only under the constants of their run. Each of the
following changes of a cfg makes TLC find a violation, a behaviour of the code that
a reader of these results should know of:

| run | change | violated | why |
|---|---|---|---|
| store | `Mutations = {sale}`, `Saves = {callback}` | `NoLostUpdate` | `saveState` requires no base revision: a sale committed since its `loadState` is overwritten, although `docs/OFFLINE_SYNC_ARCHITECTURE.md:20` says "Financial records never use last-write-wins." |
| store | the same | `RowsMatchReadModel` | `persistState` reads rows and revision in parallel; a commit between the two makes version-guarded writes miss while the read model is replaced |
| replay_screen | `Commands = {1, 2}`, `Online = {}`, `Rejected = {}`, `BatchLimit = 2` | `SnapshotKeepsSaved` | a flush does not move `revisionRef`, and the refresh after it reuses the one in flight |
| replay_screen | `Online = {1, 2, 3}`, `Rejected = {}`, two slots | `SnapshotKeepsSaved` | `mutate` takes the revision of whatever response comes last, the older of two included |
| jobs | `EmailJob = FALSE`, `MaxCrashes = 2` | `JobSettles` | the cron sends a job with an expired lease again only for the two e-mail types |

Other properties carry their condition themselves. Without it TLC finds:

- `QueueDrains` (`Refused`): the queue stands still behind a command that the sync route
  refuses whenever it is posted, since an error other than CONFLICT fails the whole
  request, which is then replayed for ever. There are three such commands, and without any
  one of them TLC finds a violation: one that a business rule refuses; one committed
  online whose response was lost, because the mutate route hashes `{action, payload}` and
  the sync route `{type, payload}` and the replay is answered DUPLICATE, although
  `docs/OFFLINE_SYNC_ARCHITECTURE.md:26` says "the same command can be sent repeatedly and
  is applied once."; and one that shares its sequence number with another.
- `AppliedInSequence` (`InTurn`): `nextSequence` reads the last number and writes the next
  one in two transactions, so a command may be stored after one with the same number or a
  higher one, and be committed after it.
- `SucceededIsDelivered` (`contested`): `updateOutbox` reads a record and writes all of it
  back, so the payload of a row that was replaced while a worker had it loaded may be
  marked sent, or the replacement undone. One of the two was sent.
- `OutboxSettles` (`Abandoned`): `requeueDueOutbox` looks for PENDING and RETRY_PENDING, so
  a row that is CLAIMED when the deliveries of its message are used up, or when a manual
  run stops, which has no message, is not looked at again.
- `LeaseIsExclusive`, `SucceededIsFinal` (`Undisturbed`): `recordWorkerFailure` clears
  whatever lease the row has, so an execution longer than its lease, or a failed
  query, lets in a second worker.
- `ImportedOnce`, `CancelledStaysCancelled`, `NothingVanishes` (`mishaps`): two handlers
  that work on one marketplace order at the same time both find no mapping, and a
  creation that read it before the tombstone was written brings the order back
  (`docs/PASS_3_TWO_WAY_DELIVERY.md:23` says it cannot); a stop between save and mapping
  makes the next recovery import the order again; a stop between claim and event row
  leaves a claim that answers every redelivery and no row; a stale save undoes what was
  committed meanwhile.
- `CancelledStaysCancelled` (`paidAfter`): the bill of a cancelled order stays open unless a
  receivable of it was voided, and its payment makes the order PAID.
- `RevenueConserved` (`reopened`): `markBillPending` accepts a bill that was split or
  merged, which can then be paid beside its parts, although
  `docs/ORDER_TO_CASH_LIFECYCLE.md:59` says "Source invoices cannot accept intents or
  allocations after either operation."
- `KitchenKnows`, `ReadyIsReady` (`strayed`): lines added and sent from BILL_REQUESTED or
  PARTIALLY_PAID go out as ORIGINAL, for which the station's ticket exists, and get
  none; `amendKitchenOrder` marks unsent lines as sent and withdraws lines that had no
  ticket; `cancelOrder` withdraws nothing from BILL_REQUESTED and PARTIALLY_PAID, and
  unsent lines otherwise; a removal with a draft whose stages are old takes a line back
  while the order stays READY.
- `StockDeductedOnce` (`late`): a line added or changed after the order was served or
  paid is never deducted.
- `LocksMatchBooking`, `NoDoubleBooking`, `TableOpenedForSeated` (`missed`): the worker
  deletes the locks of a reservation that was confirmed since it was selected, and the
  table is booked again, although `docs/PASS_11_DIGITAL_GUEST_EXPERIENCE.md:68` says
  "Concurrent attempts therefore produce one reservation and one conflict."; a change
  whose guarded UPDATE finds no row still replaces the locks; a staff transition opens
  a table or releases locks for a reservation that has moved on.
- `NoDoubleBooking` (`walkIn`): a walk-in is seated for two hours at a table that is free
  now, whoever booked it for a time within them.

What the models show besides, where no property says otherwise: the first paid part of
a split bill makes the order PAID; a second card slip with the reference of the first is
booked and not credited to the bill; a retry of a ticket that was printed after all is
accepted without new paper; a prepaid held order can no longer be sent; a replay of a
cancellation whose order is mapped is ignored; the result of a prompt that comes before
the prompt's own save is unmatched; a deposit that is paid but not yet refreshed when
its hold ends belongs to a cancelled reservation; a guest who cancels after being seated
leaves the table's session open; a command
committed by the replay may be shown as a conflict, being behind one in its batch, looked up
before its first attempt committed it, or because the UPDATE of its row met a serialization
failure; a change of a resource back to a value an earlier row was made for is dropped,
since the value is the idempotency key; a retry that overtakes its first attempt at booking is
told that the capacity was taken.

### Bounds

Two or three requests are enough for the store: every property relates a commit
to the one before it and a request to one rival, and the third request is the
retry. Two entities tell a torn write from a lost one; values are capped at 3.
Three commands and a batch of two give a batch, a rest and an online command
between them; two handlers give a retry that meets its first attempt. Two faults
give a lost response and a crash of its replay. Another terminal commits in
`replay_screen` only; in `replay` a lost race stands for it, and the theorems have no such
bound. Workers are two: in `jobs` with two messages, in `outbox` a queue consumer and a request of
`processDueOutbox`, which takes no message, so that one message is enough.
Three changes of two values come back to the first, whose key is taken by then. Deliveries (6), leases (120 s, 60 s), retry delays and attempts per execution
(4) are the code's; `max_attempts` is 2 instead of 8. The bounds on remote commits,
faults, crashes, errors and manual runs are constants, in the guards.
Billing needs two orders to merge and four bills for a split of a merged bill or a merge
of parts; an order of two lines can be split, and a payment of one or two is part, all
or more than a part. Kitchen orders are unbounded in length: quantities and amendments
are. Printing has two tickets of two TCP printers, one with a Windows queue to fall back to and
one that a display may show, two claims, one retry and one fault, which may hit any step. Events has one order and one
payment, since handlers of different ones meet only in the state they save; three
handlers give a create, a cancellation and a third to meet them, two commands of the till a
cancellation and a payment. Reservations takes two
overlapping times, parties for one table and for both, and four requests: booking,
paying, seating and applying a deposit are four; the verification policy may be either.
Deadlock is not checked: a device with an empty queue, a settled job or outbox, answered
requests and printed tickets have nothing left to do.

### Fairness

Only the liveness runs use it. Handlers and workers that are not stopped go on
(an isolate runs its promise to the end). The queue delivers what is due and
the cron fires every minute (`triggers.crons`). Time passes. A device that is
online verifies its connection at most a minute apart, and each verification
flushes the queue (`posConnectivity.subscribe(verified)`); a transaction of IndexedDB that
was begun ends. In `print` the runner's
promises go on and the bridge, a Windows service, is started again. Nothing makes a user
act, a fault happen or another terminal commit, and all fairness is weak.

## Proofs

Every theorem says of a property of a run that it holds in every behaviour of `Spec`, for
all values of the constants that the module's assumption allows: any number of requests,
commands, workers, tickets, orders or guests, and any bound on faults, crashes and
retries. Where a property needs more, the theorem has it as a hypothesis. Each rests on
an inductive invariant, which TLC has checked on the instance of the run; the proof has
one lemma per action of `Next`, or per kind of step where many actions do the same.

All invariants of the passing runs are proved, and one of the two action properties.
`SnapshotKeepsSaved` and the four liveness properties are left to TLC.

**AuthoritativeStoreProofs**, from the assumptions that saves draw keys of their own,
that Absent is a value, and that `Mutate` maps states to states:

- `TypeCorrect`: `Spec => []TypeOK`.
- `OneWriterPerRevision` (`RevisionCountsCommits`), with saves too. The
  invariant needs `ReadsNotAhead`: a revision a request read is one the read
  model has had. A batch passes the constraints only if its base is not in
  `0 .. revision - 1`, so with `ReadsNotAhead` it is the current revision
  (`BatchIsCurrent`), and the guarded upsert of the read model takes effect.
- `CallersAreToldTheTruth` (`AnswersAreTrue`), with saves too: what a request is about
  to be told agrees with the commits at every await between the batch and the answer.
- `NothingLost`, `ReadModelIsDerived`, `StoreIsSerial` assume `Saves = {}`, which
  the first two lines of the table above show to be necessary. The inductive
  invariant `SerialInv` adds `ReadModelIsLast` (the read model is what the last
  commit stored), `ReadsCurrent` (what a mutation loaded, computed and read back
  is current while the revision has not moved, so that every version guard of
  its batch holds), `PendingAnswers` and `CommitsOwn` (what a request is about to
  be told agrees with the commits). `StoreIsSerial` maps the ledger's state to the
  rows, its revision to the read model's, and its replies to those of finished
  requests. Each action is a step of the ledger or a stutter (`LedgerStep`).

**OfflineReplayProofs**: `CommandsTakeEffectOnce` (`AppliedOnce`), `ReplayKeepsTheOrder`
(`AppliedInSequence`), `SavedIsCommitted` (`AcknowledgedIsApplied`). The order is the hard
one: an abandoned handler goes on with an old batch while a newer one replays the same
commands. What keeps the order is the revision a command presents. `Ordered` says that
the commands of a batch are queued and in sequence, `Truthful` that what a request answers
is in the log, and `Based` that the revision it builds on is that of an earlier command of
its own batch, or one that was on screen. The latter is below every replayed commit of a
command queued later (`QueueInv`), so that a command cannot be accepted after one. A command
that is stored when no number as high is there yet has no commit behind it, whatever
revision it carries; one that is stored later than that (`late`) is the exception the
property names.

**IntegrationOutboxProofs**: `SentBeforeSucceeded` (`SucceededIsDelivered`), without
hypotheses: any number of changes, workers, messages, manual runs and faults, coalesced or
not. `OutboxInv` relates every row, message, worker and producer to what was sent: a
worker that is about to write PROCESSED has sent its payload, and the row holds that
payload or both are in `contested`.

**ProviderEventsProofs**: `EventsActOnce` (`ProcessedOnce`), `OrdersComeInOnce`
(`ImportedOnce`), `CancellationsStand` (`CancelledStaysCancelled`), `ReceiptsCountOnce`
(`CollectedOnce`), `EventsLeaveATrace` (`NothingVanishes`). `ClaimInv` gives each claim one
handler that saves once. `Achieved` and `EffectInv` say what a handler that is done and a
processed event have left behind. `OrderInv`, while nothing has gone wrong, has one handler
per order, a mapping that names the only import, and for every state that is loaded and
not outdated that it extends the current one (`Follows`). Receipts need none of that:
every state a handler holds has each receipt once (`Single`), so a stale save may lose a
receipt but not double it.

**BillingAndJobsProofs**, of Billing: `RevenueIsConserved` (`RevenueConserved`), `MoneyIsSpentOnce`
(`NothingIsSpentTwice`), `RefundsStayCovered` (`RefundsAreCovered`), `ReceiptsAreEarned`
(`ReceiptIsEarned`). All but the last are about sums, which the code adds up with
`reduce` and the model with the recursive function `Total`. That the recursion defines a
sum for every length is an induction, which the library's induction theorems cannot
give here; it is made from `WFMin` instead: the numbers up to which a statement fails
would have a least one (`LeastNatural`, `UpTo`). From that follow the few facts the rest
uses: a sum over a longer sequence, over equal terms, of one term changed, of a set that
gains or loses a member. `RefundsAreCovered` and `RevenueConserved` are inductive beside
the types. The former stands because a refund is requested or approved for no more than
the cash less what is reserved, and cash only grows; the latter because a split or a merge
takes bills out of force for bills of the same total, and a first bill stays what it
was. `NothingIsSpentTwice` needs that a bill is credited with no more than it was paid
and no more than was collected for it (`CreditsAreBacked`): the typed receipts that are not
confirmed have allocations too, and the credit of one must wait for its confirmation.
Of WorkerJobs: `OneWorkerPerLease` (`LeaseIsExclusive`) and the action property
`SuccessStands` (`SucceededIsFinal`). `LeaseInv`: while `Undisturbed`, every worker that
executes runs on the lease of the row, so there is one.

**KitchenOrdersProofs**: `TicketsMatchTheOrder` (`KitchenKnows`), `StatusFollowsTheStations`
(`ReadyIsReady`), `RecipesAreDeductedOnce` (`StockDeductedOnce`), for any lines, stations
and any quantities, as long as their bounds have a largest (the type of `told` needs
it). `KitchenKnows` is not inductive: a payment may bring a cancelled order back to life,
so `TicketInv` adds that nothing of a cancelled order is left to make.

**KitchenPrintProofs**: `LedgerIsInOrder` (`TypeOK`), `CopiesAreDecided`
(`NoUnreviewedCopy`), `DeliveredIsPrinted` (`AcceptedIsSubmitted`), `LanesAreSerial`
(`SerialLanes`). `SlotsInv` counts: a ticket has at most one reservation more than a
manager decided retries, at most as many papers as reservations, and fewer as long as a
delivery may still be reserved (`MayReserve`) or is being sent. A ticket counts as
delivered when it was printed, displayed or confirmed. `SerialLanes` forbids any two tasks
to send to one printer, or both over TCP, each at its primary or its fallback; `LanesInv`
holds for any backlog: the pump is stated by what it starts (`Started`: oldest first, every queued
job for which there is room and a free lane), not as the loop that finds it.

**ReservationsProofs**: `CapacityIsKept` (`LocksMatchBooking`), `BookedTablesAreNotShared`
(`NoDoubleBooking`, of guests who booked), `SessionsAreOfSeated` (`TableOpenedForSeated`), `PaidIsSettled`
(`DepositSettled`), `DepositIsSpentOnce` (`DepositSpentOnce`). The locks are the link:
their UNIQUE constraint gives one per table and slot (`OneLockPerSlot`), a reservation
that is not `missed` has exactly those of its booking, so two bookings cannot meet.
`GoodRequest` says of every request under way what its earlier reads still entitle it
to write.

Only model-checked: `JobSettles`, `OutboxSettles`, `JobsEnd` and `QueueDrains`, since
liveness under fairness is beyond the prover, and `SnapshotKeepsSaved`, which holds only with
the batches and slots of its run.

The store and the print queue state their type invariant as a property; those of the
other modules are conjuncts of their inductive invariants.

## Not modelled

- Store: the bridge statements of `persistState`. Replay: several cashiers of
  one device, a change of branch, the connectivity probe. Jobs: what a job does, and
  jobs held FAILED by an operator script. Outbox: changes of one resource recorded by
  two requests at the same moment, the circuit breaker's counters, the dead-letter list.
- Provider events: order updates, acceptance, catalogue publication, receivables and
  custody; amounts and items of what is imported.
- Payments: drawers, refunds and reversals of the orchestrator (no server action calls
  them), stored value, house accounts, custody, settlement, reconciliation, closing.
- Kitchen: marketplace modifications; in the instance, lines without a station.
- Printing: more than one copy, pairing of a bridge, capacity limits, receipts.
- Reservations: waitlist, QR tokens, guest sessions, guest ordering and its payment,
  service requests, notifications; `updated_at` is taken to change with every write, it
  has a resolution of a millisecond; a candidate's availability is read in one step.
- Authentication and permissions but for the error they end in; CRM and loyalty,
  inventory, cookbook, finance, management intelligence, onboarding, enterprise
  configuration: SQL services, imports and reports over committed state, in which the
  database orders the writes; and the user interface. `PROJECT.json` gives the reason
  for each component.

## Plan

1. Proofs still worth having: that a print job, an outbox row or a worker job has a step
   that brings it closer to its end in every state, the part of the liveness arguments
   that is a safety property.
2. Modules still worth writing: guest ordering and its payment over the store,
   stored value and loyalty, cash drawers and daily closing, notifications.
