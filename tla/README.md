# Levonis: TLA+ models of the event path, the audit log and the money and stock paths

TLA+ modules, TLC configurations and TLAPS proofs kept beside the Levonis
repository. They cover the parts of the system in which concurrent requests,
sweeps and crashes meet: the outbox and its pump, the consumers of events, the
audit log with its hash chain and its verification, the notification pump, the
wallet, the escrow over custom orders, and the stock under the shop's orders.

Paths below are relative to the repository's root. `PROJECT.json` says,
definition by definition, which lines a definition stands for, lists the
hazards with the properties aimed at them, the runs, and for each property a
plausible bug of the code (a definition marked `Fault` in the module) that
breaks it.

## 1. The system

Levonis is a shop, marketplace and 3D-printing platform on Cloudflare Workers
and D1 (SQLite). A Worker has no threads and no locks: what runs concurrently
are *requests, cron ticks and `waitUntil` leftovers*, in one isolate or several,
and they meet in the database. A D1 statement is atomic, a `batch` is one
transaction, and between two awaits anything may happen: another run, or the
eviction of the isolate. That shapes every hazard of this code, and every model
here: **an action is a statement or a batch, a phase of a run is an await.**

| Component | State | Operations | Talks to | What is hard | What makes it correct | Module |
| --- | --- | --- | --- | --- | --- | --- |
| **Outbox and event bus** (`packages/platform-kit/src/{outbox,bus}.ts`, `worker/lib/eventBus.ts`) | `*_outbox_events`, `*_outbox_deliveries`, `pump_lock`; per isolate the `leaseUntilMs` of the bus object | publish in the business batch, `pump` (cron), `pumpIds` (after a request), `replay`, `redeliver`, `pruneOutbox` | calls `deliver()` of every consumer | sweeps, pumpIds and admins on the same rows; lost answers; leases that run out; budgets | no event dropped, no ack invented, one lock holder, everything dispatched in the end | `EventBus` |
| **Consumer framework** (`packages/platform-kit/src/consumer.ts`, `idempotency.ts`) | `processed_events` | `deliver(events)` | called by the bus; runs a service's handler | the same event in several calls at once; failures between check and batch | exactly-once effect behind at-least-once delivery | `Consumer` |
| **Audit log** (`services/audit`) | `audit_events`, `audit_chain_heads`, `processed_events` | `deliver`, `record`, `sealOnce` (cron and after a delivery) | consumes events of every service | overlapping sealers with stale reads; evictions; a key that comes and goes | append-only, recorded once, one unbroken chain, everything chained in the end | `AuditLog`, `AuditChain` |
| **Audit verification** (`services/audit/src/seal.ts`) | none of its own | `verifyChain` page by page | reads what the sealers write | head and pages are read at different times; row ceiling; damaged storage | `ok` means intact; an alarm has a cause | `AuditVerify` |
| **Notifications** (`services/notifications`) | `notify_outbox`, `notify_deliveries` | enqueue, claim, screen, send, record, prune | e-mail, Telegram | crash between send and record; late outcomes; the last attempt | no attempt used twice, log and outbox agree, everything settles | `NotifyPump` |
| **Wallet** (`worker/lib/walletOps.ts`) | `wallet_transactions`, `wallet_holds`, `wallet_withdrawals` | deposits, spends, withdrawals, holds, reconciliation flag | orders, escrow | a balance nobody stores; several operations on one request | never overdrawn, request, hold and ledger agree, money moves once | `Wallet` |
| **Escrow and custom orders** (`worker/lib/{escrowOps,communityRequests}.ts`, `worker/routes/{marketplace,adminCommunity}.ts`) | `community_escrows`, `community_escrow_events`, `community_orders`, `community_requests`, complaints, merchant ledger | accept, start, deliver, confirm, dispute, cancel, decide, sweep, reconcile | the wallet; the merchant's ledger | each handler is several transactions; lost answers; suspensions; release, refund, dispute and decision at once | money is where the escrow says, the order follows the money, one deal, one settlement, nothing stuck | `Settlement`, `Escrow` |
| **Inventory and the stock of orders** (`worker/lib/{inventory,orderInventory,orderStageOps}.ts`, `worker/routes/orders.ts`) | stock and reserved counters, `inventory_ledger`, `orders.status` | checkout, confirm, cancel, reopen, undo, corrections, product saves | orders | the last unit; plans made against stale reads; status and stock in different batches | no oversell, ledger explains counters, orders held whole, returns follow takings | `OrderStock` |
| Ads relay (`services/ads`) | `ads_deliveries`, consent | deliver, retry, consent update | ad platforms | as notifications; consent out of order | no send without consent | planned |
| Analytics (`services/analytics`) | projection, roll-ups | deliver, roll up | – | recomputation beside increments | rests on `Consumer` | not planned |
| Gateway (`services/gateway`) | rate-limit windows, edge cache | request pipeline | the core Worker | window boundaries | a limit is a limit | planned (limiter) |
| Sagas, idempotency keys (`packages/platform-kit/src/{saga,idempotency}.ts`) | `*_sagas`, `*_idempotency` | begin, fence, fail, sweep; begin, complete, release, prune | the commands that use them | sweep against request; death between begin and complete | a command runs once; a saga ends | planned |
| Points (`worker/lib/pointsOps.ts`) | point ledger | accrue, release, reverse | orders | sweep against reversal | points follow orders | planned |
| Merchant ledger beyond the escrow, investor finance, trade-in, serials, stock alerts, imports (`worker/lib`) | their tables | transitions guarded row by row | wallet, escrow, points, inventory | partial failure across them | after the parts they call | not modelled |
| Catalogue, pricing, shipping, storeLayout, creativeDoc (`packages/*`) | none | pure functions | everybody | wide inputs, no interleaving | unit tested | not modelled |
| Hop assertions, signatures, keys, contracts, HTTP helpers | none shared | pure | everybody | cryptography is atomic here | – | not modelled |
| Web client, studio, migrations, tools, docs, data | – | – | – | – | – | not modelled |

**How one event travels.** A request commits its business statements and an outbox
row in one batch (`Publish`) and may leave a `pumpIds` behind; that or the next
sweep inserts a delivery row per subscriber, calls `deliver()`, books the
answers in one batch per call and marks the event dispatched once no row of it
is pending. The consumer commits the handler's statements together with its
`processed_events` row. For the audit service those statements are the append, and
a sealing pass links the new rows to the chain afterwards; for notifications
they are the enqueue, and a pump sends the row afterwards.

**How money travels in a custom order.** Accepting an offer sets the price aside as a
wallet hold, then records request, order and escrow in one batch. Confirmation
(the customer's, or the clock's) releases the escrow: the hold becomes a debit,
the merchant's ledger is credited. A refund gives the hold back. A dispute
freezes the escrow until an admin decides, for all, a part or nothing.

## 2. The modules

| Module | Level | What it is |
| --- | --- | --- |
| `AuditLog` | abstract | What the audit service promises: events are recorded once; the log grows at its end, by recorded events, none twice; every recorded event is chained in the end. |
| `AuditChain` | detailed | The tables, the two ways in and the sealing passes. Its `ImplementsLog` is `AuditLog!LogSafety` under the mapping *recorded = events with a row, log = the events the head's hash commits to*; `EveryEventChained` is its liveness half. |
| `AuditVerify` | extends `AuditChain` | The verification walk, with the service running on and storage being damaged. |
| `Consumer` | detailed | `defineConsumer()`: what one `deliver()` does with each event of its batch. |
| `EventBus` | detailed | The outbox, the deliveries, the lock and every kind of run. It takes a consumer's `deliver()` as one step, which `Consumer` justifies (with the proviso in section 4.2). |
| `NotifyPump` | detailed | The notification outbox and the pumps over it. |
| `Wallet` | detailed | One customer's wallet: every operation is one statement or one batch, so one step. |
| `Settlement` | abstract | What the escrow promises about a deal's money: agreed, perhaps frozen, settled once, what the customer pays is what the merchant's side earns. |
| `Escrow` | extends `Wallet` | The custom order and its escrow composed with the wallet. `ImplementsSettlement` is `Settlement!SettlementSpec` under the mapping in the module. |
| `OrderStock` | detailed | Orders' status, stock counters and the movement ledger. |
| `Sums` | operator | SUM over the rows of a table, for the wallet's balances and for what a stock ledger adds up to. |
| `MC...` | instances | Constants for TLC. |
| `..._proofs` | proofs | See section 5. |

### 2.1 AuditChain

* `rows` is `audit_events`, a function from `seq`. An `INSERT` gets any `seq` of `SeqNumbers` that is free: as
  `chain.ts:15-20` says, a row with a smaller `seq` can appear after a larger one was sealed. A pass reads unsealed rows in the
  order of `seq`, the chain is in the order in which rows were linked, and no property relates the two. `head` is the one row of
  `audit_chain_heads`, index 0 standing for no row. `processed` is the
  `processed_events` of the audit consumer. `sealer[s]` is what a running
  `sealOnce` holds in local variables: the head, the rows, the key.
* `Deliver` is the committed batch of a delivery (entry and key), `Record` the
  insert and back-fill of `record()`. Both ways an entry can arrive with the hash
  of a body it does not bring (`AuditRecorded` whose body stayed with the
  producer). Each delivery may leave a sealer behind (`LaunchSeal`).
* A sealing pass is three steps with anything in between: `ReadHead`, `ReadRows`,
  `CommitSeal`. The last one is one D1 batch: the links and the head advance, or
  nothing. Its fence is that the head is still the one that was read, and the
  `UNIQUE` on `chain_index`.
* `Kill` evicts a pass, `ChangeKey` is a deployment that adds or removes
  `AUDIT_CHAIN_KEY`; `InitialKeys` says whether it may be there from the start.
* A hash is the list of the cores it commits to, so the digest is injective and
  a link hash determines its whole past. The row's `alg` is part of the core
  because a keyed digest differs from a plain one.
* Abstracted: bodies are `Bodies` (their 4000-character cap changes what is stored
  for all of them alike), `actor`, `at` and the other columns are determined by
  the event, and a batch's statements fail together.

### 2.2 AuditVerify

`StartWalk` reads the head, each `ReadPage` is one query behind the last index, the
end is `CompareWithHead`, a mismatch `Broken`, the ceiling `Truncated`. A page is a set
of rows ordered by index; of `n` rows that match (`MatchingPrefix`) the walk takes over
count, index and the last hash, and the next row, if there is one, is the break.
`altered` and `lost` mark rows that storage damaged: an altered row hashes to
something else, a lost one is not in a page. `walk.damaged` is a history variable
for `OkMeansIntact`: what was already damaged when the walk began.

### 2.3 Consumer

`call[c]` is one `deliver()` in flight: the events it still has, the answers it has.
`Screen` stands for the checks before any state (schema, signature, PII ceiling,
unknown type), `CheckProcessed` for the read before the handler, `Handle` for the
handler's own reads, `Commit` for the one batch. `Clashing` are events whose own
statements violate a constraint: `isUniqueViolation()` does not tell them from
the primary key.

### 2.4 EventBus

* `outbox` is the events table in `seq` order, `dispatched` the events whose
  `dispatched_at` is set, `deliv` the deliveries table (`absent` = no row),
  `processed` the keys of all consumers, `lock` the run `pump_lock` names,
  `leases` the sweeps whose 55 seconds have not passed, `leaseOf[i]` the
  `leaseUntilMs` of the bus object of isolate `i`, `late` the calls the caller has given
  up on that may still be executed.
* `run[r]` is one run: a sweep, a `pumpIds` or an admin's operation. Its phases are
  the awaits of the code: `select`/`lookup`, (`reset`, `reopen`), `insert`, `due`, `deliver`,
  `call`, `reply`, `end`.
* Time is two actions: `BackoffOver` and `LeaseRunsOut`. No property depends on how
  long a backoff is, only on its ending.
* `Throw`, `LoseReply`, `HandleLate`, `StatementFails`, `ReleaseFails` and `Evict` are what can
  go wrong with a call, a statement or an isolate.
* Consumers are served in any order (the code goes through a `Map` in insertion
  order), which is a superset of what the code does.
* Abstracted: the statement budget and the call budget are one number, `MaxCalls`,
  that stops a run between two calls; the 500 KB limit on a call is part of
  `BatchSize`; `attempts` saturates at `MaxAttempts`.

### 2.5 NotifyPump

* `outbox` is `notify_outbox` (state and attempts), `created` the rank of its
  `created_at`, `log` the message's row of `notify_deliveries`, `pump[p]` a run of `pump()`: the
  list it read, the row it holds, the transport's answer. `enabled` is
  `NOTIFY_DELIVERY`. `called` and `accepted` are history: the attempts that reached
  the transport, and those a provider took.
* `Start` reads the list once; everything in it may be stale when `Claim`
  compares the attempts. `Drop` is what is screened before the transport (allowlist,
  payload, registry), `Send` and `SendTimesOut` the call, `Record` the outcome batch, written by
  the row's id whatever the row says by then. `Crash` is an eviction, or an
  outcome batch that throws; `ClaimThrows` a claim that fails with or without effect.
* The rows of a list are taken in any order (the code takes the oldest first).
* Abstracted: message contents, contacts and preferences, which events enqueue what.
  The core Worker's own `worker/lib/outbox.ts` has the same pump.

### 2.6 Wallet

* `tx[x]` is the status of a `wallet_transactions` row, `hold[h]` the state of a hold, `wd[w]` a
  withdrawal with its reconciliation flag, `returned[h]` what a partial refund
  credited. `Settled`, `Held` and `Available` are the SQL expressions of the same
  names; they are computed from the rows in the guard of each step that spends, as
  the code's statements do.
* Each operation is one statement or one batch whose guards are in its SQL, so each
  is one step. Several operations on one request (paid, closed, flagged, cleared) meet in any order.
* `Legacy` are the withdrawal rows from before requests and holds (migration 0015) that nobody has decided. `DecideLegacy` is the
  admin's old route (`admin.ts:1447-1539`): it refuses a row that belongs to a request (`:1455-1474`) and approves the others while the
  balance covers them.
* `walletReconciliationReport` is the report of the same name with `classifyWithdrawalRow`, an operator on the tables. It is not empty in
  correct operation: a flagged payout and an approved old row are meant to be in it.
* Abstracted: idempotent replays (they change nothing), the recorded mismatch of a
  deposit's amount, payout references, amounts of hold and request that differ, the report's LIMITs, points and memberships.
  Holds that an older version committed without a debit (`walletOps.ts:2452-2454`) are not in the initial state.

### 2.7 Escrow, and Settlement

* `Escrow` extends `Wallet`: an order is a purchase hold, and the escrow's batches are
  conjunctions of its own assignments with `PlaceHold`, `CommitHold` or `ReleaseHold`.
  The customer's other business (`UseWallet`) goes on beside it.
* `task[t]` is a handler between two of its transactions. Acceptance: `Reserve`,
  `Accept`, and after an error `AskLanded`, `ReleaseReservation`; `AcceptUnanswered` and `LandLate` are a batch that
  committed without an answer, never will, or becomes visible later. Confirmation: `Confirm` (the
  reads), `Release` (the money) or `HoldConfirmation` (the merchant is suspended), `Complete`.
  Dispute: `Freeze`, `RecordDispute`, `FileComplaint`, three transactions. Admin: `Resolve` (the reads), `Decide` (the
  money), `Consequences`. `Sweep` and `ReconcileHold` are the cron's. `Crash` may come after each.
* What `releaseEscrow` and `refundEscrow` do is read, batch, and classify on failure.
  The batch is fenced on what was read, so it is one step whose guard is the fence and
  whose other branches are the answers.
* The wait before a reservation counts as stranded and the auto-confirm clock are
  left out: the reconciliation and the sweep may come at any time, a superset.
* Abstracted: amounts are the cents of the hold; the merchant's side is one figure, the price
  it keeps before commission and fees; an order's text, chat, rating and links do not appear;
  the sweep's list is processed one order at a time; the rows that the acceptance before
  migration 0116 left, which the reconciliation heals, are not created.

### 2.8 OrderStock

* `stock` and `reserved` are the two counters of a row, `ledger` the keys of
  `inventory_ledger` (kind and line), `status` the order's, with `confirmed` standing for every
  status from which the stock is deducted. `task[t]` is a handler: what it gathered, what
  it planned, what its fence expects.
* `Gather` reads the order's ledger rows, `Plan` skips what is done and simulates the
  guards against the live counters (`planInventory`), `Commit` is the batch: each ledger row and its
  counter move under one guard (`Move`), the fence counts the rows, the order's own row flips. A key that is
  there, a fence that does not add up or a flip that matches no row roll it all back.
* A confirmation flips the status in a batch of its own (`Confirm`) and deducts later; a
  checkout and a cancellation flip in the batch that moves the stock. That is the code's choice and
  the subject of finding 3.
* `Adjust` is a correction, which has no fence. The route re-reads afterwards
  and reports a correction that wrote nothing (`adminProductRelations.ts:853`).
* `SetStock` writes a figure with no row in the ledger: the direct-stock panel (`adminProductRelations.ts:594-611`,
  `MAX(figure, reserved)` in one statement) and the save of a product's option, colour and variant rows
  (`productPersistence.ts:1591`, `:1702`, `:1748`), which is raised to the units held (`:1124-1148`) and rolled back unless stock
  and holds are still what it read (`productStockWrite.ts:53`), so it too is one step. `unledgered` is a history variable: what
  saves added to each row or took from it. `stockAlerts.ts:18-24` lists such writers.
* Reads that the code makes in one go are one step (keys, rows and the fence's count in `Plan`).
* Left out: the save of a product's *base* row. It writes the document's figure (`productPersistence.ts:2963`), and only saves
  that carry the pricing fence ask in the batch for the `products.updated_at` they read (`pricingEngine/v2/write.ts:259`, `:387`), which every
  ledgered movement bumps (`inventory.ts:864-876`). The others compare before it (`adminProducts.ts:1819`), or not at all, and a
  checkout in between is overwritten. A base row of the model is one that nobody saves that way (section 4.2).
* Abstracted: the first count of a row without stock management (`stock` NULL), lots (cost), bundles, pre-order capacity per product, unmanaged stock, the Quick Buy
  credit, return cases, merchant stores.

## 3. The runs

| Run | Shows | Instance and why it suffices |
| --- | --- | --- |
| `audit_chain` | rows recorded once, one unbroken linked chain, nothing recorded or sealed is rewritten, `AuditLog` implemented, every event chained in the end | 2 events with or without a body, whose rows appear in either order of `seq`, before or after the other was sealed, the cron and a leftover sealer, batches of 1, an eviction and a key change: a sealer can lose a race and meet a chain that is longer, equal or empty; a pass leaves rows for the next; a body comes before, between and after read and commit |
| `audit_verify` | what `ok` and what an alarm mean | pages of 1 row over 3 events whose rows appear in any order of `seq`, so that chain order and `seq` order differ, with the key there or not at first, put a seal, a key change or damage between any two pages; the ceiling of 2 lies inside the longest chain, so walks end by it, by the end of the rows and by a mismatch |
| `bus` | nothing lost, no ack invented, one lock holder, no call outside the own lease where sweeps do not share an isolate | 2 sweeps and a pumpIds on 2 events, one of them poison, one overrun, one fault anywhere; calls carry 1 event, 2 attempts, so that retry and death both happen |
| `bus_live` | everything is dispatched in the end | one event per sweep, a left-over row of a consumer that is gone, a replay or redelivery, one fault |
| `consumer` | exactly-once effect, honest answers | 2 calls, batches of 2, 4 events of which one is refused and one unknown, 2 faults |
| `notify` | no attempt used twice, outbox and log agree, everything settles | 2 pumps, lists of 1 of 3 messages (sendable, blocked, garbled), 2 attempts, one fault, the switch turned once: a stale list, a late outcome and a crash on the last attempt all happen |
| `wallet` | never overdrawn, the reconciliation report lists flagged payouts and old rows and no disagreement, money moves once | 2 deposits, 2 withdrawals, an old withdrawal row, a spend and a purchase over 3 cents, which pays for any of them and never for all |
| `escrow` | money, escrow, order and dispute agree; the abstract settlement; nothing stuck | 2 offers for 1 request, 2 handlers and the sweep, a wallet that pays for both offers or for a purchase elsewhere, one crash or lost answer anywhere, a suspension that comes and goes |
| `stock` | no oversell, the ledger explains the counters, orders held whole, returns follow takings | 2 orders of 2 lines over 2 rows, the scarce row too short for both, a correction each way, a save that sets the scarce row (below, at or above what is held, as the others have moved it), 2 tasks that die anywhere, one order prepaid and one that may be reopened |
| `bus_replay`, `escrow_confirmed_disputed`, `stock_spent_twice` | a sentence of the repository that the code does not keep | section 4; instances of the same size, in which no crash is needed |

Bounds are constants named `Max...` and occur in guards of environment actions only
(faults, evictions, key changes, admin operations, overruns, damage, deployments, suspensions). The
data bounds (`SealLimit`, `BatchSize`, `SelectLimit`, `MaxCalls`, `MaxAttempts`, `PageSize`, `MaxRows`,
`Limit`) are the code's own limits, made small so that a run meets them. Symmetry is
used for events, sweeps, calls or tasks, in runs that check no liveness.
`CHECK_DEADLOCK FALSE` is set where the system may stop: the bus with
every event dispatched and the bounded environment used up, a wallet, an
escrow or a shop in which every request was decided and nobody asks for more, a notification outbox that is switched off.

### Fairness

* `AuditChain!FairSpec`: weak fairness of `CronTick` and of the cron's own steps. The
  platform triggers the cron each minute (`wrangler.jsonc`) and a `sealOnce` that is not evicted
  runs to its end. The sealers of `waitUntil` get none: they may never be scheduled.
* `EventBus!FairSpec`: weak fairness of `TakeLock` (the cron), of the steps of a run once
  it has begun, of lease expiry and of each backoff's end. There is none for
  publishing, for admins or for late executions.
* `NotifyPump!FairSpec`: weak fairness of `Start(Cron)` and `Step(Cron)`: the cron's pump starts each minute and runs
  on. `EventuallySettled` asks for the switch to stay on.
* `Escrow!EscrowFairSpec`: weak fairness of `ReconcileHold(o)` and of the cron's own steps, strong fairness of
  `Sweep(o)`: the cron is one task that serves the orders in turn, so the sweep of one order is disabled while it
  works on another, but each run goes through everything it finds due. People and handlers get none.

Faults are finite in an instance: an isolate that is evicted at each run would never deliver anything.

## 4. What the code does otherwise than the repository says

### 4.1 Shown by a run

Each is a `violation` run, with an entry under `findings` that quotes the sentence.

1. `bus_replay` – `replay(range, consumer)` inserts rows for its consumer only, yet
   marks every event of the range dispatched that has no pending row: an event
   whose other subscribers had no row yet is closed for them.
2. `escrow_confirmed_disputed` – `holdForSuspension()` asks the order and not the escrow. A
   dispute that has frozen the escrow and not yet flipped the order loses the order to the
   confirmation; its complaint is then refused, no sweep looks at a disputed escrow, and the admin's
   decision leaves the order in `customer_confirmed`. The money is not lost (`EscrowBacked`,
   `DisputeFreezes` hold): it waits for an admin who is never asked.
3. `stock_spent_twice` – a confirmation deducts in a batch of its own after the flip
   (`orderStageOps.ts:677`, `admin.ts:3844`) without asking for the status again. A cancellation
   in between releases the hold, and the deduction then takes reserved units of the same row that belong to
   another order. (An order reopened after its release and confirmed again does the same.)
   `NeverOversold` and `CountersMatchLedger` hold all the same; what goes wrong is whose units they are.
   `SpentOnceAlone` proves that an overlap and a reopening are the only causes: where no two handlers work on one order at a
   time, no line of an order that cannot be reopened is both released and deducted.

### 4.2 Met while modelling

Stated in the modules where they can be, and left out of the runs.

* `bus.ts:302`, `:257` – `retryStatement` does not look at the row's state, so a late retry reopens a
  delivery another run has acknowledged, behind a dispatched event; `redeliver` leaves the same
  state behind when it is evicted between its two statements (`EventBus!DispatchedIsSettled`).
* `bus.ts:133-136` – "an overrun run never keeps delivering while the next run is legitimately holding the lock". The code does not keep this: the
  lease is one field of the bus object (`bus.ts:138`), and all runs of an isolate share one bus object (`eventBus.ts:90`, `:155`). When the runtime
  places the next sweep in the isolate of an overrun one, taking the lock writes the field, the first sweep then finds a lease that
  runs and goes on calling consumers outside its own. `EventBus!NeverPastLease` is the comment's claim, and
  `tlc -config MCEventBusShared.cfg MCEventBus.tla` refutes it with two sweeps in one isolate and no fault. `CallsInLease` says what
  the code does keep, for a sweep alone in its isolate, and is proved for every placement; the `bus` run gives each run its own
  isolate, so its exception never applies there.
  Nothing is lost by it (`AckedIsProcessed` and `NothingLost` do not depend on leases), but a consumer is called twice.
* `idempotency.ts:56` – any violated constraint is taken for the primary key of `processed_events`: an event
  whose own statements violate one is answered `replayed` and lost. Everything `EventBus` says of
  acks assumes that handlers have no such statements (`Clashing = {}`).
* `seal.ts:85` – head and pages are read in queries of their own; a seal in between makes an
  untouched chain answer `ok: false` (`AuditVerify!OnlyTamperingAlarms` is false; `AlarmExplained` is
  what the answer does mean).
* `pump.ts:4` of notifications – claim-then-send keeps two pumps apart on one *attempt*
  (`AttemptUsedOnce`), but a pump that is slow between claim and outcome lets the next one claim
  the following attempt, and a provider takes the message twice without any crash (`NotifyPump!NoDoubleSend` is
  false). A late `failed` then overwrites `sent` by the row's id (`pump.ts:112`), and `store.ts:80`
  "the next run retries it" is not so on the last attempt: that row stays open for ever, which is why `Settled` has its
  second case.
* `adminCommunity.ts:1533` – a partial refund may name the whole price; the order is then
  `completed` with nothing paid to the merchant, against "completed when the merchant was paid (in full or in part)"
  (`Escrow!CompletedIsPaid` is false).
* `walletOps.ts:28-32` – "a withdrawal approved through the legacy admin path (ledger row flipped without touching the hold)" "shows up in
  `walletReconciliationReport`". That flip no longer exists: the route refuses every row that belongs to a request, so what the report can show of
  that path is the approved row without a request (`ledger_debit_without_paid_withdrawal`). `ReportExplained` says so. The terms that
  keep hold and debit of a half-decided row from counting twice (`effectiveHoldsUsdSql`, `approvableWithdrawalSql`) are never used.
* `inventory.ts:1064-1069` and `adminProductRelations.ts:854-858` say that a guard that stops holding between plan and batch
  "would leave a ledger row claiming a movement that never happened". It would not: the ledger's INSERT carries the counter's guard
  and comes before it in the batch (`inventory.ts:818-849`), so both happen or neither. What the re-reading finds is a movement that was
  left out with its row. `CountersMatchLedger` is the property, and its mutant (`MoveUnproven`) the code the comments fear.
* `productPersistence.ts:2963` – a save of a product's base row without the pricing fence writes the stock it planned over units that a checkout
  took or held in between: stock below the units held, or units sold that come back. `SetStock` is the fenced save only.

## 5. What is proved

TLAPS checks the following for every value of the constants, from the named
assumptions of the modules alone: finite sets of events, messages and wallet entries, positive `seq`s, disjoint kinds of
run and of wallet entries, positive limits, amounts and quantities, no stock line in two orders, `Cron` one of
the tasks or pumps. Three theorems have a hypothesis of their own (`NothingLostUnassisted`, `SettledMeansApplied`, `SpentOnceAlone`), named below.

**Audit log** (`Audit_proofs`). `ChainUnbroken` and `ChainLinked` are not inductive:
whether a commit keeps them depends on what the sealer read several steps ago.
The inductive invariant adds that each sealed row's hash is the prefix, up to its index, of what the head commits to, and that a
sealer whose head still stands (the one case in which its fence holds) has read that very head and rows that nobody has linked
since. Nothing is assumed of the order in which `seq`s appear: `RunIndexes` shows, by counting, that the rows of a run take the indices
behind the head one for one, whatever gaps their `seq`s leave. The fence then makes
the commit an extension of the chain, or nothing. From it: `TypeCorrect`, `NeverForked`,
`AlwaysLinked`, `AlwaysRecordedOnce`, the action property `NeverRewritten`, and
`TablesImplementLog`: every step is a step of `AuditLog` or a stutter.

**Audit verification** (`Audit_proofs`). `VInv` adds to the chain's invariant where a walk stands: at
a link of the chain with the hash stored there, holding a head that was one, every row behind it intact when it was read
and readable with the caller's key. A stretch of the chain has as many rows as indices (`StretchCount`), so a page of which `n` rows match
is `n` links further along the chain, and
the three ends of a walk follow: `OkIsIntact` and `AlarmHasCause`, for any chain, page size,
ceiling and damage.

**Consumer** (`Consumer_proofs`). Each operation of a call has one of a few shapes (`StepShape`): it goes on,
answers without effect, or commits effect, key and answer together. `ExactlyOnce` follows for any number of calls and
faults; `SettledMeansApplied` needs `Clashing = {}`.

**Event bus** (`EventBus_proofs`). The inductive invariant `IInv` has four parts: types, the lock (a lease runs
exactly when the lock names its run), true acks, and `RunOK` for each run: its call has an addressee, the answers it
is about to book are in `processed_events`, and from `due` on each of its events has a row for each addressee.
Steps are sorted by what they do to the tables (`RowKept`: no row vanishes, an ack is earned, a death is due) and what
they do to runs. From it: `BusTypes`, `LockHasOneHolder`, `AcksAreTrue`. With `DInv` (no run is an admin's; a dead row used up
its attempts or was refused) `NothingLostUnassisted`: without admins nothing is lost, for any number of sweeps, pumpIds,
consumers and faults. With admins it is false (finding 1). `CallsWithinLease` holds for every placement of runs in isolates; its
invariant `Remembered` says that the bus object of a sweep at work still holds that sweep's lease if no other sweep shares
the isolate, since nobody else writes the field. For sweeps that share one it promises nothing, as the code does not (section 4.2).

**Notifications** (`NotifyPump_proofs`). `AttemptUsedOnce` is inductive once two facts join it: the
transport was never called with an attempt the row does not count (`CalledIsClaimed`), and any two pumps hold
different rows or attempts (`Apart`). `LogTellsTheTruth` needs that an `ok` in a pump's hands came from a
provider that took the message, and that only screened messages are dropped.

**Sums** (`Sums_proofs`). `SumOf` is a fold, and the library's induction theorems take an operator as a
parameter, which the provers cannot instantiate. So `SubsetInduction` is stated with a *set* of good sets, and proved from
well-foundedness of the natural numbers, the size of a least counterexample. From it: the fold unfolds (`FoldUnfolds`), a sum
does not depend on the order (`SumRemove`), and changes by what one element contributes (`SumChange`, `SumAdd`), for every finite set.

**Wallet** (`Wallet_proofs`). The type invariant and `RowsAgree` (paid means committed and debited, closed means released and
rejected, open means reserved) are inductive together (`WalletInv`). Where rows agree, the report finds what `ReportExplained` says
(`AgreeingRowsAreReported`), hence `ReportIsExplained`. `DecidedIsFinal` follows step by step. `AlwaysCovered` is `NeverOverdrawn` for any number of entries: the available amount
is a sum over all rows, each step changes the status of one or two of them, and a step that lowers the sum has the
sum in its guard.

**Escrow** (`Escrow_proofs`). `EscrowInv` joins, for each order, `Consistent` (wallet, escrow, order, decisions and count
fit together) and, for each handler between two of its transactions, `Knows`: what it learned that nobody can have
changed since (that the escrow it completes for is released, that a dispute it files is over frozen or decided
money, that the consequences it writes follow a settlement). `OffTheBoard` (an escrow's request is no longer open) gives `OneDeal`. Each
action is reduced to what it does to one order and one task; the rest is untouched. From it: `EscrowTyped`,
`MoneyBehindEscrow`, `RequestDealtOnce`, `OrdersFollowMoney`, `CompletionCountsOnce`, the action property `FrozenIsDecided`,
`EscrowUsesWallet` (so `ReportIsExplained` and `MoneyMovesOnce` hold under the escrow) and `EscrowSettles`: every step is a step of
`Settlement` or a stutter. `EscrowCovered` carries `AlwaysCovered` over to the escrow through `EscrowUsesWallet`.

**Inventory** (`OrderStock_proofs`). What holds of a batch is shown by induction over its entries (`BatchInduction`,
in the same style): whatever subset of a plan the guards let through, the counters stay sound (`MoveSound`: held is within 0 and
the shelf) and move by what the rows written add up to (`MoveMatches`). The invariant `IInv` is `Books` (counters sound and equal to the ledger's
sums and what saves set, orders held in full, every row of the ledger justified by another) and, for each handler, `Knows`: its plan is a subset of what it
gathered, each entry of that is justified by rows that were there when it read them and that no step removes, and its fence expects, for a
checkout, exactly as many holds as it planned, which are all its lines. `OrderIsHeld` then is a matter of cardinality (`FenceHoldsAll`): as
many rows as lines, each the row of a line, are the rows of all lines. From it: `StockTyped`, `ShelfCoversHolds`,
`LedgerExplainsCounters`, `OrdersAreHeld`, `ReturnsAreJustified`. `SpentOnceAlone` has the hypothesis `[]Alone`, no two handlers on one
order at a time, and speaks of the orders that cannot be reopened (`Prepaid`); each of the two is needed, which TLC shows on the instance of finding 3.

**Model-checked only**: liveness (`EveryEventChained`, `EventuallyDispatched`, `EventuallySettled`, `OrphansReleased`,
`EventuallyPaid`), which rests on fairness and `ENABLED` and is beyond the prover. Every invariant and every
action property of a passing run is a theorem.

## 6. What is not modelled, and the plan

Components that are left out are in the table above and, with the reason, in
`PROJECT.json`; so are the hazards found in them, with no property yet. Parts of modelled
components that are left out are named under *Abstracted* in section 2.

Most of the repository's lines are user interface, catalogue data, pure functions over rich records (pricing, shipping, layout), and
routes that parse, authorise and format around one guarded statement. There is nothing concurrent in them that a
state machine would bring out, and a bounded check of the pure functions would cover less than their unit tests.

What the plan has left, in this order:

1. `Outbox` – `Uow`, publish guard, `aggregate_seq`, and `pruneOutbox` in `EventBus` with a clock for its window.
2. `Idempotency` and `Saga` – abstract specification "a command takes effect at most once" implemented by both; sweep against request.
3. `Points` (accrual, release, reversal), composed with `Wallet` and the stages of `OrderStock`.
4. `AdsDelivery` – `NotifyPump`'s shape with consent order. `RateLimit`.
5. Lots, Quick Buy credit and return cases in `OrderStock`.
6. `EventBus` with `Consumer` in place of `Handle`, to discharge the step that is argued in 2.4.

## 7. Running

    tlc -workers 2 -config MCEscrow.cfg MCEscrow.tla
    tlapm Escrow_proofs.tla

The longest runs are `bus`, `escrow`, `audit_chain`, `audit_verify` and `stock`, one and a half to two and a half minutes each; the longest proofs are `Audit_proofs` and
`Escrow_proofs`, a few minutes each.
