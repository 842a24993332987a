------------------------------ MODULE EventBus ------------------------------
(***************************************************************************)
(* The transactional outbox of a producer and the pump that delivers it    *)
(* (packages/platform-kit/src/bus.ts, driven by worker/lib/eventBus.ts and *)
(* step 0 of worker/lib/jobs.ts).                                          *)
(*                                                                         *)
(* Three kinds of runs work on the same tables at once: the sweep of the   *)
(* cron (the only holder of pump_lock), the pumpIds a request leaves in    *)
(* waitUntil (no lock), and an admin's replay or redeliver.  Every run is  *)
(* a sequence of database statements and RPC calls with other runs in      *)
(* between; an isolate may be evicted between any two of them.             *)
(*                                                                         *)
(* A consumer's deliver() is one step here: what it answers `acked` for,   *)
(* it has processed.  Module Consumer shows that of any number of calls at *)
(* once, for handlers whose own statements violate no constraint.          *)
(***************************************************************************)
EXTENDS Integers, Sequences, FiniteSets

CONSTANTS
  Events,          \* event ids
  Consumers,       \* consumer services of the subscription table
  Subscriptions,   \* <<event, consumer>>: the table, PII ceiling applied
  Bound,           \* the consumers this deployment has a binding for
  Leftover,        \* delivery rows an earlier deployment left for others
  Poison,          \* <<event, consumer>>: schema-invalid or forged there
  Sweeps,          \* runs of the cron
  Requests,        \* runs of pumpIds
  Admins,          \* runs of replay and redeliver
  Isolates,
  IsolateOf,       \* the isolate (hence the bus object) a run executes in
  None,
  SelectLimit,     \* events one sweep selects
  BatchSize,       \* events per deliver() call
  MaxCalls,        \* RPC calls one run may make
  MaxAttempts,     \* MAX_DELIVERY_ATTEMPTS
  MaxFaults,       \* bound: evictions and failing statements
  AdminKinds,      \* the admin operations in use: "replay", "redeliver"
  MaxAdmin,        \* bound: admin operations
  MaxOverruns      \* bound: leases that run out under a run in progress

Runs == Sweeps \cup Requests \cup Admins
Deliveries == Events \X Consumers

ASSUME SubscriptionsType == Subscriptions \subseteq Deliveries /\ Poison \subseteq Deliveries
ASSUME BoundType == Bound \subseteq Consumers /\ IsFiniteSet(Consumers) /\ IsFiniteSet(Events)
ASSUME LeftoverType == Leftover \subseteq {d \in Deliveries : d[2] \notin Bound}
ASSUME RunsType == /\ Sweeps \cap Requests = {} /\ Sweeps \cap Admins = {}
                   /\ Requests \cap Admins = {}
                   /\ None \notin Runs /\ None \notin Consumers
                   /\ IsolateOf \in [Runs -> Isolates]
ASSUME LimitsType == /\ SelectLimit \in Nat \ {0} /\ BatchSize \in Nat \ {0}
                     /\ MaxCalls \in Nat \ {0} /\ MaxAttempts \in Nat \ {0}
                     /\ MaxFaults \in Nat /\ MaxAdmin \in Nat
                     /\ MaxOverruns \in Nat

VARIABLES
  outbox,      \* the events table, in seq order
  dispatched,  \* events whose dispatched_at is set
  deliv,       \* the deliveries table; state "absent" is no row
  processed,   \* the processed_events rows of all consumers
  lock,        \* the run whose lease pump_lock names, None once it is free
  leases,      \* sweeps whose own lease has not run out yet
  leaseOf,     \* RpcFanoutBus.leaseUntilMs, per bus object: whose lease it is
  run,         \* the runs in progress
  late,        \* calls their caller gave up on that may still be executed
  faults, adminOps, overruns

tables == <<outbox, dispatched, deliv>>
leaseVars == <<lock, leases, leaseOf>>
counters == <<faults, adminOps, overruns>>
vars == <<tables, processed, leaseVars, run, late, counters>>

-----------------------------------------------------------------------------
(* Data *)

States == {"absent", "pending", "acked", "dead"}

\* attempts saturates at MaxAttempts: nothing asks how far it is beyond it.
Delivery == [state : States, attempts : 0..MaxAttempts, due : BOOLEAN]

NoRow == [state |-> "absent", attempts |-> 0, due |-> FALSE]
FreshRow == [state |-> "pending", attempts |-> 0, due |-> TRUE]

IdleRun == [pc |-> "idle", rows |-> {}, only |-> None, todo |-> {}, calls |-> 0,
            consumer |-> None, batch |-> {}, acked |-> {}, poison |-> {}]

Phases == {"idle", "lookup", "select", "reset", "reopen", "insert", "due",
           "deliver", "call", "reply", "end"}

Published == {outbox[i] : i \in 1..Len(outbox)}
Position(e) == CHOOSE i \in 1..Len(outbox) : outbox[i] = e

\* The first n events of S in seq order.
Oldest(S, n) ==
  {e \in S : Cardinality({f \in S : Position(f) < Position(e)}) < n}

\* subscribersFor: only consumers this deployment can reach.
subscribersFor(e) == {c \in Bound : <<e, c>> \in Subscriptions}

IsPending(e, c) == deliv[<<e, c>>].state = "pending"

AtPhase(r, p) == run[r].pc = p
Becomes(r, value) == run' = [run EXCEPT ![r] = value]

Init ==
  /\ LET earlier == {d[1] : d \in Leftover}
     IN  outbox \in {s \in [1..Cardinality(earlier) -> earlier] :
                       {s[i] : i \in 1..Cardinality(earlier)} = earlier}
  /\ dispatched = {}
  /\ deliv = [d \in Deliveries |-> IF d \in Leftover THEN FreshRow ELSE NoRow]
  /\ processed = {}
  /\ lock = None
  /\ leases = {}
  /\ leaseOf = [i \in Isolates |-> None]
  /\ run = [r \in Runs |-> IdleRun]
  /\ late = {}
  /\ faults = 0
  /\ adminOps = 0
  /\ overruns = 0

-----------------------------------------------------------------------------
(* Publishing, and how each kind of run comes by its rows *)

\* The business batch commits with its event; the request may leave a pumpIds
\* behind for it (or be evicted first).
Publish(e) ==
  /\ e \notin Published
  /\ outbox' = Append(outbox, e)
  /\ \/ UNCHANGED run
     \/ \E r \in Requests :
          /\ AtPhase(r, "idle")
          /\ Becomes(r, [IdleRun EXCEPT !.pc = "lookup", !.rows = {e}])
  /\ UNCHANGED <<dispatched, deliv, processed, leaseVars, late, counters>>

\* pumpIds: those of its events that are not dispatched.
LookupIds(r) ==
  /\ AtPhase(r, "lookup")
  /\ LET open == run[r].rows \ dispatched
     IN  Becomes(r, IF open = {} THEN [run[r] EXCEPT !.pc = "end"]
                    ELSE [run[r] EXCEPT !.pc = "insert", !.rows = open])
  /\ UNCHANGED <<tables, processed, leaseVars, late, counters>>

\* The compare-and-set on pump_lock.  The lease also lands in the bus object,
\* which every run of the isolate shares.
TakeLock(r) ==
  /\ AtPhase(r, "idle") /\ r \notin leases
  /\ lock = None
  /\ lock' = r
  /\ leases' = leases \cup {r}
  /\ leaseOf' = [leaseOf EXCEPT ![IsolateOf[r]] = r]
  /\ Becomes(r, [IdleRun EXCEPT !.pc = "select"])
  /\ UNCHANGED <<tables, processed, late, counters>>

\* Fifty-five seconds are over.  A run in progress is overtaken by that only
\* when its calls or statements take as long.
LeaseRunsOut(r) ==
  /\ r \in leases
  /\ IF AtPhase(r, "idle") THEN UNCHANGED overruns
     ELSE overruns < MaxOverruns /\ overruns' = overruns + 1
  /\ leases' = leases \ {r}
  /\ lock' = IF lock = r THEN None ELSE lock
  /\ UNCHANGED <<tables, processed, leaseOf, run, late, faults, adminOps>>

\* The sweep: the oldest undispatched events.
SelectOldest(r) ==
  /\ AtPhase(r, "select")
  /\ LET open == Oldest(Published \ dispatched, SelectLimit)
     IN  Becomes(r, IF open = {} THEN [run[r] EXCEPT !.pc = "end"]
                    ELSE [run[r] EXCEPT !.pc = "insert", !.rows = open])
  /\ UNCHANGED <<tables, processed, leaseVars, late, counters>>

\* replay(range, consumer): the range is read ...
StartReplay(r, first, last, c) ==
  /\ "replay" \in AdminKinds
  /\ AtPhase(r, "idle") /\ adminOps < MaxAdmin
  /\ adminOps' = adminOps + 1
  /\ Becomes(r, [IdleRun EXCEPT !.pc = "reset", !.only = c,
                                !.rows = Oldest({outbox[i] : i \in first..last}, SelectLimit)])
  /\ UNCHANGED <<tables, processed, leaseVars, late, faults, overruns>>

\* ... its deliveries to the one consumer go back to pending ...
ResetDeliveries(r) ==
  /\ AtPhase(r, "reset")
  /\ deliv' = [d \in Deliveries |->
                 IF d[1] \in run[r].rows /\ d[2] = run[r].only /\ deliv[d].state # "absent"
                 THEN FreshRow ELSE deliv[d]]
  /\ Becomes(r, [run[r] EXCEPT !.pc = "reopen"])
  /\ UNCHANGED <<outbox, dispatched, processed, leaseVars, late, counters>>

\* ... and its events to undispatched, in a batch of their own.  A redeliver
\* goes on as a pumpIds of its event, a replay narrowed to its consumer.
ReopenEvents(r) ==
  /\ AtPhase(r, "reopen")
  /\ dispatched' = dispatched \ run[r].rows
  /\ Becomes(r, [run[r] EXCEPT !.pc = IF run[r].only = None THEN "lookup" ELSE "insert"])
  /\ UNCHANGED <<outbox, deliv, processed, leaseVars, late, counters>>

\* redeliver(event, consumer): one delivery, dead or not, back to pending, then
\* as above.
StartRedeliver(r, e, c) ==
  /\ "redeliver" \in AdminKinds
  /\ AtPhase(r, "idle") /\ adminOps < MaxAdmin
  /\ e \in Published
  /\ adminOps' = adminOps + 1
  /\ deliv' = [deliv EXCEPT ![<<e, c>>] = IF @.state = "absent" THEN @ ELSE FreshRow]
  /\ Becomes(r, [IdleRun EXCEPT !.pc = "reopen", !.rows = {e}])
  /\ UNCHANGED <<outbox, dispatched, processed, leaseVars, late, faults, overruns>>

-----------------------------------------------------------------------------
(* process(): rows, due deliveries, calls, bookkeeping, dispatch *)

\* Whom this run delivers an event to: a replay names one consumer.
Addressees(r, e) ==
  {c \in subscribersFor(e) : run[r].only = None \/ c = run[r].only}

\* 1. INSERT OR IGNORE a row for every subscriber.
InsertDeliveries(r) ==
  /\ AtPhase(r, "insert")
  /\ deliv' = [d \in Deliveries |->
                 IF d[1] \in run[r].rows /\ d[2] \in Addressees(r, d[1]) /\ deliv[d].state = "absent"
                 THEN FreshRow ELSE deliv[d]]
  /\ Becomes(r, [run[r] EXCEPT !.pc = "due"])
  /\ UNCHANGED <<outbox, dispatched, processed, leaseVars, late, counters>>

\* 2. The due deliveries of these events, whoever the consumer.
DueRows(r) ==
  {d \in run[r].rows \X Consumers :
     /\ deliv[d].state = "pending" /\ deliv[d].due
     /\ run[r].only = None \/ d[2] = run[r].only}

SelectDue(r) ==
  /\ AtPhase(r, "due")
  /\ Becomes(r, [run[r] EXCEPT !.pc = "deliver", !.todo = DueRows(r)])
  /\ UNCHANGED <<tables, processed, leaseVars, late, counters>>

\* Fault: the CASE of the retry left out, so no delivery ever dies.
retriedForever(row) ==
  [state |-> "pending", attempts |-> row.attempts + 1, due |-> FALSE]

\* retryStatement: one attempt more, dead with the last one, backed off else.
\* It asks nothing about the state the row is in.
retried(row) ==
  LET n == IF row.attempts < MaxAttempts THEN row.attempts + 1 ELSE MaxAttempts
  IN  [state |-> IF n >= MaxAttempts THEN "dead" ELSE "pending",
       attempts |-> n, due |-> FALSE]

settled(row, state) ==
  [row EXCEPT !.state = state,
              !.attempts = IF @ < MaxAttempts THEN @ + 1 ELSE MaxAttempts]

\* Fault: an event the answer does not name counts as acked.
BookedByDefault(es, c, acked, poison) ==
  [d \in Deliveries |->
     IF d[2] # c \/ d[1] \notin es \/ deliv[d].state = "absent" THEN deliv[d]
     ELSE settled(deliv[d], IF d[1] \in poison THEN "dead" ELSE "acked")]

\* What one bookkeeping batch makes of the deliveries of events es to c.
Booked(es, c, acked, poison) ==
  [d \in Deliveries |->
     IF d[2] # c \/ d[1] \notin es \/ deliv[d].state = "absent" THEN deliv[d]
     ELSE IF d[1] \in acked THEN settled(deliv[d], "acked")
     ELSE IF d[1] \in poison THEN settled(deliv[d], "dead")
     ELSE retried(deliv[d])]

TodoOf(r, c) == {d[1] : d \in {t \in run[r].todo : t[2] = c}}
Without(r, es, c) == run[r].todo \ (es \X {c})

\* Fault: an unreachable consumer's rows are skipped without an attempt.
SkipUnbound(r, c) ==
  /\ AtPhase(r, "deliver") /\ c \notin Bound /\ TodoOf(r, c) # {}
  /\ Becomes(r, [run[r] EXCEPT !.todo = Without(r, TodoOf(r, c), c)])
  /\ UNCHANGED <<tables, processed, leaseVars, late, counters>>

\* 3a. A consumer this deployment cannot reach: an ordinary retry.
RetryUnbound(r, c) ==
  /\ AtPhase(r, "deliver") /\ c \notin Bound /\ TodoOf(r, c) # {}
  /\ deliv' = Booked(TodoOf(r, c), c, {}, {})
  /\ Becomes(r, [run[r] EXCEPT !.todo = Without(r, TodoOf(r, c), c)])
  /\ UNCHANGED <<outbox, dispatched, processed, leaseVars, late, counters>>

\* Fault: the lease is checked before the first call only.
LeaseCheckedOnce(r) ==
  /\ run[r].calls = 0
  /\ leaseOf[IsolateOf[r]] # None
  /\ leaseOf[IsolateOf[r]] \notin leases

\* The lease the bus object remembers is over.
LeaseGone(r) ==
  /\ leaseOf[IsolateOf[r]] # None
  /\ leaseOf[IsolateOf[r]] \notin leases

\* 3b. One deliver() call, unless the budget or the lease is over.
Call(r, c) ==
  /\ AtPhase(r, "deliver") /\ c \in Bound /\ TodoOf(r, c) # {}
  /\ run[r].calls < MaxCalls
  /\ ~LeaseGone(r)
  /\ LET batch == Oldest(TodoOf(r, c), BatchSize)
     IN  Becomes(r, [run[r] EXCEPT !.pc = "call", !.calls = @ + 1, !.consumer = c,
                                   !.batch = batch, !.todo = Without(r, batch, c)])
  /\ UNCHANGED <<tables, processed, leaseVars, late, counters>>

Stop(r) ==
  /\ AtPhase(r, "deliver")
  /\ \E c \in Bound : TodoOf(r, c) # {}
  /\ run[r].calls = MaxCalls \/ LeaseGone(r)
  /\ Becomes(r, [run[r] EXCEPT !.pc = "end"])
  /\ UNCHANGED <<tables, processed, leaseVars, late, counters>>

PoisonFor(es, c) == {e \in es : <<e, c>> \in Poison}

\* The consumer takes in what it can; the rest it answers `retry` for.
Handle(r) ==
  /\ AtPhase(r, "call")
  /\ LET poison == PoisonFor(run[r].batch, run[r].consumer)
     IN  \E taken \in SUBSET (run[r].batch \ poison) :
           /\ processed' = processed \cup (taken \X {run[r].consumer})
           /\ Becomes(r, [run[r] EXCEPT !.pc = "reply", !.acked = taken, !.poison = poison])
  /\ UNCHANGED <<tables, leaseVars, late, counters>>

\* The call throws before (or while) the consumer executes it.
Throw(r) ==
  /\ AtPhase(r, "call") /\ faults < MaxFaults
  /\ faults' = faults + 1
  /\ late' = late \cup (run[r].batch \X {run[r].consumer})
  /\ Becomes(r, [run[r] EXCEPT !.pc = "reply"])
  /\ UNCHANGED <<tables, processed, leaseVars, adminOps, overruns>>

HandleLate(d) ==
  /\ d \in late
  /\ late' = late \ {d}
  /\ processed' = IF d \in Poison THEN processed ELSE processed \cup {d}
  /\ UNCHANGED <<tables, leaseVars, run, counters>>

\* The answer gets lost on its way back: the call throws.
LoseReply(r) ==
  /\ AtPhase(r, "reply") /\ faults < MaxFaults
  /\ run[r].acked \cup run[r].poison # {}
  /\ faults' = faults + 1
  /\ Becomes(r, [run[r] EXCEPT !.acked = {}, !.poison = {}])
  /\ UNCHANGED <<tables, processed, leaseVars, late, adminOps, overruns>>

\* One bookkeeping batch per call.
Book(r) ==
  /\ AtPhase(r, "reply")
  /\ deliv' = Booked(run[r].batch, run[r].consumer, run[r].acked, run[r].poison)
  /\ Becomes(r, [run[r] EXCEPT !.pc = "deliver", !.consumer = None, !.batch = {},
                                !.acked = {}, !.poison = {}])
  /\ UNCHANGED <<outbox, dispatched, processed, leaseVars, late, counters>>

\* Fault: a delivery that is backing off counts as settled.
SettledUnlessDue(es) ==
  {e \in es : \A c \in Consumers : ~(IsPending(e, c) /\ deliv[<<e, c>>].due)}

\* 4. Events without a pending delivery are dispatched.
Settled(es) == {e \in es : \A c \in Consumers : ~IsPending(e, c)}

MarkDispatched(r) ==
  /\ AtPhase(r, "deliver") /\ run[r].todo = {}
  /\ dispatched' = dispatched \cup Settled(run[r].rows)
  /\ Becomes(r, [run[r] EXCEPT !.pc = "end"])
  /\ UNCHANGED <<outbox, deliv, processed, leaseVars, late, counters>>

\* Fault: the release of whoever holds the lock.
ReleaseAny(r) == lock' = None

\* A sweep releases the lock it still holds, and only that one.
Release(r) == lock' = IF lock = r THEN None ELSE lock

Finish(r) ==
  /\ AtPhase(r, "end")
  /\ IF r \in Sweeps
     THEN /\ Release(r)
          /\ leases' = leases \ {r}
          /\ leaseOf' = [leaseOf EXCEPT ![IsolateOf[r]] = None]
     ELSE UNCHANGED leaseVars
  /\ Becomes(r, IdleRun)
  /\ UNCHANGED <<tables, processed, late, counters>>

-----------------------------------------------------------------------------
(* Time and failures *)

BackoffOver(d) ==
  /\ deliv[d].state = "pending" /\ ~deliv[d].due
  /\ deliv' = [deliv EXCEPT ![d].due = TRUE]
  /\ UNCHANGED <<outbox, dispatched, processed, leaseVars, run, late, counters>>

\* A statement fails: the run is over, but for the release of its lock.
StatementFails(r) ==
  /\ ~AtPhase(r, "idle") /\ ~AtPhase(r, "end") /\ ~AtPhase(r, "call")
  /\ faults < MaxFaults
  /\ faults' = faults + 1
  /\ Becomes(r, [IdleRun EXCEPT !.pc = "end"])
  /\ UNCHANGED <<tables, processed, leaseVars, late, adminOps, overruns>>

\* The release fails: the lock stays taken, and the bus object keeps the lease it
\* remembers, until a later sweep takes the lock.
ReleaseFails(r) ==
  /\ AtPhase(r, "end") /\ faults < MaxFaults
  /\ faults' = faults + 1
  /\ Becomes(r, IdleRun)
  /\ UNCHANGED <<tables, processed, leaseVars, late, adminOps, overruns>>

\* An isolate is evicted with every run and the bus object in it; calls it has
\* made may still be executed, leases run on.
Evict(i) ==
  /\ faults < MaxFaults
  /\ \E r \in Runs : IsolateOf[r] = i /\ ~AtPhase(r, "idle")
  /\ faults' = faults + 1
  /\ late' = late \cup UNION {run[r].batch \X {run[r].consumer} :
                              r \in {q \in Runs : IsolateOf[q] = i /\ AtPhase(q, "call")}}
  /\ run' = [r \in Runs |-> IF IsolateOf[r] = i THEN IdleRun ELSE run[r]]
  /\ leaseOf' = [leaseOf EXCEPT ![i] = None]
  /\ UNCHANGED <<tables, processed, lock, leases, adminOps, overruns>>

-----------------------------------------------------------------------------

\* The steps a run makes by itself once it has begun.
RunStep(r) ==
  \/ LookupIds(r) \/ SelectOldest(r) \/ ResetDeliveries(r) \/ ReopenEvents(r)
  \/ InsertDeliveries(r) \/ SelectDue(r)
  \/ \E c \in Consumers : RetryUnbound(r, c) \/ Call(r, c)
  \/ Stop(r) \/ Handle(r) \/ Book(r) \/ MarkDispatched(r) \/ Finish(r)

Admin(r) ==
  \/ \E first, last \in 1..Len(outbox), c \in Consumers :
       first <= last /\ StartReplay(r, first, last, c)
  \/ \E e \in Events, c \in Consumers : StartRedeliver(r, e, c)

Next ==
  \/ \E e \in Events : Publish(e)
  \/ \E r \in Sweeps : TakeLock(r) \/ LeaseRunsOut(r) \/ ReleaseFails(r)
  \/ \E r \in Admins : Admin(r)
  \/ \E r \in Runs : RunStep(r) \/ Throw(r) \/ LoseReply(r) \/ StatementFails(r)
  \/ \E d \in Deliveries : HandleLate(d) \/ BackoffOver(d)
  \/ \E i \in Isolates : Evict(i)

Spec == Init /\ [][Next]_vars

\* The cron comes every minute, a started run goes on until it ends (or its
\* isolate does), leases and backoffs run out.
Fairness ==
  /\ \A r \in Sweeps : WF_vars(TakeLock(r)) /\ WF_vars(LeaseRunsOut(r))
  /\ \A r \in Runs : WF_vars(RunStep(r))
  /\ \A d \in Deliveries : WF_vars(BackoffOver(d))

FairSpec == Spec /\ Fairness

-----------------------------------------------------------------------------
(* Properties *)

TypeOK ==
  /\ outbox \in Seq(Events)
  /\ dispatched \subseteq Events
  /\ deliv \in [Deliveries -> Delivery]
  /\ processed \subseteq Deliveries
  /\ lock \in Sweeps \cup {None}
  /\ leases \subseteq Sweeps
  /\ leaseOf \in [Isolates -> Sweeps \cup {None}]
  /\ run \in [Runs -> [pc : Phases, rows : SUBSET Events, only : Consumers \cup {None},
                       todo : SUBSET Deliveries, calls : Nat,
                       consumer : Consumers \cup {None}, batch : SUBSET Events,
                       acked : SUBSET Events, poison : SUBSET Events]]
  /\ late \subseteq Deliveries
  /\ faults \in Nat /\ adminOps \in Nat /\ overruns \in Nat

\* The outbox never claims a delivery that did not happen: whatever answers got
\* lost, came late or belonged to another run, a consumer has processed every
\* event whose delivery to it is acked.
AckedIsProcessed ==
  \A d \in Deliveries : deliv[d].state = "acked" => d \in processed

\* What becomes of a delivery: the consumer has processed the event, refuses it
\* for good, or the delivery used up all its attempts and is a dead letter.
Accounted(e, c) ==
  \/ <<e, c>> \in processed
  \/ <<e, c>> \in Poison
  \/ deliv[<<e, c>>].state = "dead" /\ deliv[<<e, c>>].attempts = MaxAttempts

AboutToReopen(e) == \E r \in Admins : AtPhase(r, "reopen") /\ e \in run[r].rows

\* Nothing is dropped by the overlap of sweeps and pumpIds, by evictions or by
\* lost answers: once an event counts as dispatched (and no admin is about to
\* reopen it), its delivery to every subscriber is accounted for.
NothingLost ==
  \A e \in dispatched : \A c \in subscribersFor(e) : Accounted(e, c) \/ AboutToReopen(e)

\* pump_lock: a run that still holds its lease holds the lock, so no two sweeps
\* are ever both within their leases.  An overrun sweep's release does not open
\* the lock of its successor.
OneLease == \A r \in leases : lock = r

\* A sweep that shares its isolate with no other sweep starts a call only while its
\* own lease runs, whatever pumpIds runs and operators do there.
CallsInLease ==
  [][\A r \in Sweeps :
       AtPhase(r, "deliver") /\ run'[r].pc = "call" =>
         r \in leases \/ \E s \in Sweeps \ {r} : IsolateOf[s] = IsolateOf[r]]_vars

\* What bus.ts says of every sweep, wherever it runs: "an overrun run never keeps
\* delivering while the next run is legitimately holding the lock".  Not kept where two
\* sweeps share a bus object: the second lends the first its lease.
NeverPastLease ==
  [][\A r \in Sweeps :
       AtPhase(r, "deliver") /\ run'[r].pc = "call" =>
         ~\E s \in leases \ {r} : lock = s]_vars

\* A row that keeps failing, and one nobody can deliver any more, does not hold
\* the events behind it up for ever: every event is dispatched in the end, again
\* when an admin has reopened it.
EventuallyDispatched ==
  \A e \in Events : (e \in Published \ dispatched) ~> (e \in dispatched)

\* "dispatched_at -- every subscriber acked" (docs/architecture/03-EVENTS.md),
\* "events whose deliveries are all settled" (bus.ts): no pending row is left
\* behind a dispatched event.
DispatchedIsSettled ==
  \A e \in dispatched : \A c \in Consumers : ~IsPending(e, c)
=============================================================================
