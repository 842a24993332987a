--------------------------- MODULE EventBus_proofs ---------------------------
(***************************************************************************)
(* What the event bus guarantees for any number of sweeps, pumpIds runs,   *)
(* admins, consumers and faults: the pump lock has one rightful holder, an *)
(* acknowledged delivery was processed, as long as no admin reopens        *)
(* deliveries no dispatched event is lost to a subscriber, and a sweep of  *)
(* an isolate of its own calls only within its lease.                      *)
(***************************************************************************)
EXTENDS EventBus, FiniteSetTheorems, TLAPS

RunType == [pc : Phases, rows : SUBSET Events, only : Consumers \cup {None},
            todo : SUBSET Deliveries, calls : Nat,
            consumer : Consumers \cup {None}, batch : SUBSET Events,
            acked : SUBSET Events, poison : SUBSET Events]

\* The lock names a run that still has its lease, and only such a run has one.
LockHeld == OneLease /\ (lock # None => lock \in leases)

\* The phases in which the rows of a run have their delivery rows.
Started == {"due", "deliver", "call", "reply"}

\* What every run can rely on: its call has an addressee, the answers it is
\* about to book are the consumer's own, and what it inserted is still there.
RunOK(r) ==
  /\ AtPhase(r, "call") => run[r].consumer \in Consumers
  /\ ~AtPhase(r, "reply") => run[r].acked = {} /\ run[r].poison = {}
  /\ \A e \in run[r].acked : <<e, run[r].consumer>> \in processed
  /\ \A e \in run[r].poison : <<e, run[r].consumer>> \in Poison
  /\ run[r].pc \in Started =>
       \A e \in run[r].rows : \A c \in Addressees(r, e) :
         deliv[<<e, c>>].state # "absent"

IInv == TypeOK /\ LockHeld /\ AckedIsProcessed /\ \A r \in Runs : RunOK(r)

-----------------------------------------------------------------------------
(* Types *)

\* An idle run is well typed, and so is a fresh delivery.
LEMMA IdleTyped ==
  /\ IdleRun \in RunType
  /\ FreshRow \in Delivery /\ NoRow \in Delivery
<1>1. IdleRun \in RunType
  BY DEF IdleRun, RunType, Phases
<1>2. 0 \in 0..MaxAttempts
  BY LimitsType
<1> QED BY <1>1, <1>2 DEF FreshRow, NoRow, Delivery, States

\* A run that becomes a well-typed one leaves the others alone.
LEMMA BecomesTyped ==
  ASSUME TypeOK, NEW r \in Runs, NEW value \in RunType, Becomes(r, value)
  PROVE  /\ run' \in [Runs -> RunType]
         /\ run'[r] = value
         /\ \A q \in Runs \ {r} : run'[q] = run[q]
BY DEF TypeOK, RunType, Becomes

\* What one bookkeeping makes of a row.
LEMMA RowTyped ==
  ASSUME NEW row \in Delivery, NEW state \in {"acked", "dead"}
  PROVE  /\ retried(row) \in Delivery
         /\ settled(row, state) \in Delivery
<1> DEFINE n == IF row.attempts < MaxAttempts THEN row.attempts + 1 ELSE MaxAttempts
<1>1. row.attempts \in 0..MaxAttempts /\ MaxAttempts \in Nat
  BY LimitsType DEF Delivery
<1>2. n \in 0..MaxAttempts
  BY <1>1
<1>3. retried(row) = [state |-> IF n >= MaxAttempts THEN "dead" ELSE "pending",
                      attempts |-> n, due |-> FALSE]
  BY DEF retried
<1>4. settled(row, state) = [row EXCEPT !.state = state, !.attempts = n]
  BY DEF settled
<1> HIDE DEF n
<1>5. [state |-> IF n >= MaxAttempts THEN "dead" ELSE "pending",
       attempts |-> n, due |-> FALSE] \in Delivery
  <2>1. (IF n >= MaxAttempts THEN "dead" ELSE "pending") \in States
    BY DEF States
  <2> QED BY <1>2, <2>1 DEF Delivery
<1>6. [row EXCEPT !.state = state, !.attempts = n] \in Delivery
  BY <1>2 DEF Delivery, States
<1> QED BY <1>3, <1>4, <1>5, <1>6

\* Booking keeps the deliveries table well typed.
LEMMA BookedTyped ==
  ASSUME TypeOK, NEW es, NEW c, NEW acked, NEW poison
  PROVE  Booked(es, c, acked, poison) \in [Deliveries -> Delivery]
BY RowTyped DEF TypeOK, Booked

\* A run that changes nothing but itself and a counter keeps every type.
LEMMA RunStepTyped ==
  ASSUME TypeOK, NEW r \in Runs, NEW value \in RunType, Becomes(r, value),
         UNCHANGED <<tables, processed, leaseVars, late>>,
         faults' \in Nat, adminOps' \in Nat, overruns' \in Nat
  PROVE  TypeOK'
<1>1. run' \in [Runs -> RunType]
  BY BecomesTyped
<1> QED BY <1>1 DEF TypeOK, tables, leaseVars, RunType

\* The same for a step that also writes the deliveries.
LEMMA DelivStepTyped ==
  ASSUME TypeOK, NEW r \in Runs, NEW value \in RunType, Becomes(r, value),
         deliv' \in [Deliveries -> Delivery], dispatched' \subseteq Events,
         UNCHANGED <<outbox, processed, leaseVars, late>>,
         faults' \in Nat, adminOps' \in Nat, overruns' \in Nat
  PROVE  TypeOK'
<1>1. run' \in [Runs -> RunType]
  BY BecomesTyped
<1> QED BY <1>1 DEF TypeOK, leaseVars, RunType

\* The tables start out well typed: the outbox lists the events of left-over rows.
LEMMA InitTyped == Init => TypeOK
<1> SUFFICES ASSUME Init PROVE TypeOK
  OBVIOUS
<1>1. outbox \in Seq(Events)
  <2> DEFINE earlier == {d[1] : d \in Leftover}
  <2>1. earlier \subseteq Events
    BY LeftoverType DEF Deliveries
  <2>2. IsFiniteSet(earlier)
    BY <2>1, BoundType, FS_Subset
  <2>3. Cardinality(earlier) \in Nat
    BY <2>2, FS_CardinalityType
  <2>4. outbox \in [1..Cardinality(earlier) -> earlier]
    BY DEF Init
  <2>5. ASSUME NEW n \in Nat, outbox \in [1..n -> earlier] PROVE outbox \in Seq(Events)
    <3>1. outbox \in [1..n -> Events]
      BY <2>1, <2>5
    <3> QED BY <3>1
  <2> QED BY <2>3, <2>4, <2>5
<1>2. deliv \in [Deliveries -> Delivery]
  BY IdleTyped DEF Init
<1>3. run \in [Runs -> RunType]
  BY IdleTyped DEF Init
<1> QED BY <1>1, <1>2, <1>3 DEF Init, TypeOK, RunType

\* The operations that are one run's own keep the types.
LEMMA RunStepKeepsTypes ==
  ASSUME TypeOK, \A q \in Runs : RunOK(q), NEW r \in Runs, RunStep(r)
  PROVE  TypeOK'
<1> DEFINE Quiet == UNCHANGED <<tables, processed, leaseVars, late, counters>>
<1>0. /\ run[r] \in RunType
      /\ faults \in Nat /\ adminOps \in Nat /\ overruns \in Nat
      /\ dispatched \subseteq Events /\ deliv \in [Deliveries -> Delivery]
      /\ processed \subseteq Deliveries
  BY DEF TypeOK, RunType
<1>1. ASSUME NEW value \in RunType, Becomes(r, value), Quiet PROVE TypeOK'
  BY <1>0, <1>1, RunStepTyped DEF counters
<1>2. ASSUME NEW value \in RunType, Becomes(r, value),
             deliv' \in [Deliveries -> Delivery], dispatched' \subseteq Events,
             UNCHANGED <<outbox, processed, leaseVars, late, counters>>
      PROVE  TypeOK'
  BY <1>0, <1>2, DelivStepTyped DEF counters
<1>3. CASE LookupIds(r)
  <2>1. /\ [run[r] EXCEPT !.pc = "end"] \in RunType
        /\ [run[r] EXCEPT !.pc = "insert", !.rows = run[r].rows \ dispatched] \in RunType
    BY <1>0 DEF RunType, Phases
  <2> QED BY <1>1, <1>3, <2>1 DEF LookupIds
<1>4. CASE SelectOldest(r)
  <2> DEFINE open == Oldest(Published \ dispatched, SelectLimit)
  <2>1. Published \subseteq Events
    BY DEF TypeOK, Published
  <2>2. open \subseteq Events
    BY <2>1 DEF Oldest
  <2>3. /\ [run[r] EXCEPT !.pc = "end"] \in RunType
        /\ [run[r] EXCEPT !.pc = "insert", !.rows = open] \in RunType
    BY <1>0, <2>2 DEF RunType, Phases
  <2> QED BY <1>1, <1>4, <2>3 DEF SelectOldest
<1>5. CASE ResetDeliveries(r)
  <2>1. deliv' \in [Deliveries -> Delivery]
    BY <1>0, <1>5, IdleTyped DEF ResetDeliveries
  <2>2. [run[r] EXCEPT !.pc = "reopen"] \in RunType
    BY <1>0 DEF RunType, Phases
  <2> QED BY <1>0, <1>2, <1>5, <2>1, <2>2 DEF ResetDeliveries
<1>6. CASE ReopenEvents(r)
  <2>1. [run[r] EXCEPT !.pc = IF run[r].only = None THEN "lookup" ELSE "insert"] \in RunType
    BY <1>0 DEF RunType, Phases
  <2> QED BY <1>0, <1>2, <1>6, <2>1 DEF ReopenEvents
<1>7. CASE InsertDeliveries(r)
  <2>1. deliv' \in [Deliveries -> Delivery]
    BY <1>0, <1>7, IdleTyped DEF InsertDeliveries
  <2>2. [run[r] EXCEPT !.pc = "due"] \in RunType
    BY <1>0 DEF RunType, Phases
  <2> QED BY <1>0, <1>2, <1>7, <2>1, <2>2 DEF InsertDeliveries
<1>8. CASE SelectDue(r)
  <2>1. DueRows(r) \subseteq Deliveries
    BY <1>0 DEF DueRows, Deliveries, RunType
  <2>2. [run[r] EXCEPT !.pc = "deliver", !.todo = DueRows(r)] \in RunType
    BY <1>0, <2>1 DEF RunType, Phases
  <2> QED BY <1>1, <1>8, <2>2 DEF SelectDue
<1>9. ASSUME NEW c \in Consumers, RetryUnbound(r, c) PROVE TypeOK'
  <2>1. deliv' \in [Deliveries -> Delivery]
    BY <1>9, BookedTyped DEF RetryUnbound
  <2>2. [run[r] EXCEPT !.todo = Without(r, TodoOf(r, c), c)] \in RunType
    BY <1>0 DEF RunType, Without
  <2> QED BY <1>0, <1>2, <1>9, <2>1, <2>2 DEF RetryUnbound
<1>10. ASSUME NEW c \in Consumers, Call(r, c) PROVE TypeOK'
  <2> DEFINE batch == Oldest(TodoOf(r, c), BatchSize)
  <2>1. batch \subseteq Events
    <3>1. TodoOf(r, c) \subseteq Events
      BY <1>0 DEF TodoOf, RunType, Deliveries
    <3> QED BY <3>1 DEF Oldest
  <2>2. Without(r, batch, c) \subseteq Deliveries
    BY <1>0 DEF Without, RunType
  <2>3. [run[r] EXCEPT !.pc = "call", !.calls = @ + 1, !.consumer = c,
                       !.batch = batch, !.todo = Without(r, batch, c)] \in RunType
    <3>1. run[r].calls + 1 \in Nat
      BY <1>0 DEF RunType
    <3> HIDE DEF batch
    <3> QED BY <1>0, <2>1, <2>2, <3>1 DEF RunType, Phases
  <2> QED BY <1>1, <1>10, <2>3 DEF Call
<1>11. CASE Stop(r)
  <2>1. [run[r] EXCEPT !.pc = "end"] \in RunType
    BY <1>0 DEF RunType, Phases
  <2> QED BY <1>1, <1>11, <2>1 DEF Stop
<1>12. CASE Handle(r)
  <2> DEFINE poison == PoisonFor(run[r].batch, run[r].consumer)
  <2>1. PICK taken \in SUBSET (run[r].batch \ poison) :
          /\ processed' = processed \cup (taken \X {run[r].consumer})
          /\ Becomes(r, [run[r] EXCEPT !.pc = "reply", !.acked = taken, !.poison = poison])
    BY <1>12 DEF Handle
  <2>2. poison \subseteq Events /\ taken \subseteq Events
    BY <1>0 DEF RunType, PoisonFor
  <2>3. [run[r] EXCEPT !.pc = "reply", !.acked = taken, !.poison = poison] \in RunType
    BY <1>0, <2>2 DEF RunType, Phases
  <2>4. run' \in [Runs -> RunType]
    BY <2>1, <2>3, BecomesTyped
  <2>5. processed' \subseteq Deliveries
    BY <1>0, <1>12, <2>1, <2>2 DEF Handle, RunOK, AtPhase, Deliveries
  <2> QED BY <1>0, <1>12, <2>4, <2>5 DEF Handle, TypeOK, RunType, tables, leaseVars, counters
<1>13. CASE Book(r)
  <2>1. deliv' \in [Deliveries -> Delivery]
    BY <1>13, BookedTyped DEF Book
  <2>2. [run[r] EXCEPT !.pc = "deliver", !.consumer = None, !.batch = {},
                       !.acked = {}, !.poison = {}] \in RunType
    BY <1>0 DEF RunType, Phases
  <2> QED BY <1>0, <1>2, <1>13, <2>1, <2>2 DEF Book
<1>14. CASE MarkDispatched(r)
  <2>1. dispatched' \subseteq Events
    BY <1>0, <1>14 DEF MarkDispatched, Settled, RunType
  <2>2. [run[r] EXCEPT !.pc = "end"] \in RunType
    BY <1>0 DEF RunType, Phases
  <2> QED BY <1>0, <1>2, <1>14, <2>1, <2>2 DEF MarkDispatched
<1>15. CASE Finish(r)
  <2>1. run' \in [Runs -> RunType]
    BY <1>15, IdleTyped, BecomesTyped DEF Finish
  <2>2. lock' \in Sweeps \cup {None} /\ leases' \subseteq Sweeps
        /\ leaseOf' \in [Isolates -> Sweeps \cup {None}]
    BY <1>15, RunsType DEF Finish, Release, leaseVars, TypeOK
  <2> QED BY <1>0, <1>15, <2>1, <2>2 DEF Finish, TypeOK, RunType, tables, counters
<1> QED BY <1>3, <1>4, <1>5, <1>6, <1>7, <1>8, <1>9, <1>10, <1>11, <1>12, <1>13,
           <1>14, <1>15 DEF RunStep

\* So do the failures, the admin's openings, publishing and time.
LEMMA OtherStepsKeepTypes ==
  ASSUME TypeOK, \A q \in Runs : RunOK(q), Next, \A r \in Runs : ~RunStep(r)
  PROVE  TypeOK'
<1>0. /\ run \in [Runs -> RunType]
      /\ faults \in Nat /\ adminOps \in Nat /\ overruns \in Nat
      /\ dispatched \subseteq Events /\ deliv \in [Deliveries -> Delivery]
      /\ processed \subseteq Deliveries /\ late \subseteq Deliveries
      /\ outbox \in Seq(Events)
      /\ lock \in Sweeps \cup {None} /\ leases \subseteq Sweeps
      /\ leaseOf \in [Isolates -> Sweeps \cup {None}]
  BY DEF TypeOK, RunType
<1>1. ASSUME NEW r \in Runs, NEW value \in RunType, Becomes(r, value),
             UNCHANGED <<tables, processed, leaseVars, late, overruns>>,
             faults' \in Nat, adminOps' \in Nat
      PROVE  TypeOK'
  BY <1>0, <1>1, RunStepTyped
<1>2. ASSUME NEW e \in Events, Publish(e) PROVE TypeOK'
  <2>1. outbox' \in Seq(Events)
    BY <1>0, <1>2 DEF Publish
  <2>2. run' \in [Runs -> RunType]
    <3>1. [IdleRun EXCEPT !.pc = "lookup", !.rows = {e}] \in RunType
      BY IdleTyped DEF RunType, Phases
    <3> QED BY <1>0, <1>2, <3>1, BecomesTyped DEF Publish, Runs
  <2> QED BY <1>0, <1>2, <2>1, <2>2 DEF Publish, TypeOK, RunType, leaseVars, counters
<1>3. ASSUME NEW r \in Sweeps, TakeLock(r) PROVE TypeOK'
  <2>1. r \in Runs /\ [IdleRun EXCEPT !.pc = "select"] \in RunType
    BY IdleTyped DEF RunType, Phases, Runs
  <2>2. run' \in [Runs -> RunType]
    BY <1>3, <2>1, BecomesTyped DEF TakeLock
  <2> QED BY <1>0, <1>3, <2>2 DEF TakeLock, TypeOK, RunType, tables, counters
<1>4. ASSUME NEW r \in Sweeps, LeaseRunsOut(r) PROVE TypeOK'
  BY <1>0, <1>4 DEF LeaseRunsOut, TypeOK, RunType, tables
<1>5. ASSUME NEW r \in Runs, ReleaseFails(r) \/ StatementFails(r) PROVE TypeOK'
  <2>1. IdleRun \in RunType /\ [IdleRun EXCEPT !.pc = "end"] \in RunType
    BY IdleTyped DEF RunType, Phases
  <2> QED BY <1>0, <1>1, <1>5, <2>1 DEF ReleaseFails, StatementFails
<1>6. ASSUME NEW r \in Admins, Admin(r) PROVE TypeOK'
  <2>1. r \in Runs
    BY DEF Runs
  <2>2. ASSUME NEW first \in 1..Len(outbox), NEW last \in 1..Len(outbox),
               NEW c \in Consumers, StartReplay(r, first, last, c)
        PROVE  TypeOK'
    <3> DEFINE chosen == Oldest({outbox[i] : i \in first..last}, SelectLimit)
    <3>1. chosen \subseteq Events
      <4>1. \A i \in first..last : outbox[i] \in Events
        BY <1>0
      <4> QED BY <4>1 DEF Oldest
    <3>2. [IdleRun EXCEPT !.pc = "reset", !.only = c, !.rows = chosen] \in RunType
      <4> HIDE DEF chosen
      <4> QED BY <3>1, IdleTyped DEF RunType, Phases
    <3> QED BY <1>0, <1>1, <2>1, <2>2, <3>2 DEF StartReplay
  <2>3. ASSUME NEW e \in Events, NEW c \in Consumers, StartRedeliver(r, e, c)
        PROVE  TypeOK'
    <3>1. deliv' \in [Deliveries -> Delivery]
      BY <1>0, <2>3, IdleTyped DEF StartRedeliver
    <3>2. [IdleRun EXCEPT !.pc = "reopen", !.rows = {e}] \in RunType
      BY IdleTyped DEF RunType, Phases
    <3>3. /\ Becomes(r, [IdleRun EXCEPT !.pc = "reopen", !.rows = {e}])
          /\ UNCHANGED <<outbox, dispatched, processed, leaseVars, late, faults, overruns>>
          /\ adminOps' = adminOps + 1
      BY <2>3 DEF StartRedeliver
    <3>4. dispatched' \subseteq Events /\ faults' \in Nat /\ overruns' \in Nat /\ adminOps' \in Nat
      BY <1>0, <3>3
    <3> QED BY <2>1, <3>1, <3>2, <3>3, <3>4, DelivStepTyped
  <2> QED BY <1>6, <2>2, <2>3 DEF Admin
<1>7. ASSUME NEW r \in Runs, Throw(r) PROVE TypeOK'
  <2>1. late' \subseteq Deliveries
    BY <1>0, <1>7 DEF Throw, RunOK, Deliveries, RunType
  <2>2. [run[r] EXCEPT !.pc = "reply"] \in RunType
    BY <1>0 DEF RunType, Phases
  <2>3. run' \in [Runs -> RunType]
    BY <1>7, <2>2, BecomesTyped DEF Throw
  <2> QED BY <1>0, <1>7, <2>1, <2>3 DEF Throw, TypeOK, RunType, tables, leaseVars
<1>8. ASSUME NEW r \in Runs, LoseReply(r) PROVE TypeOK'
  <2>1. [run[r] EXCEPT !.acked = {}, !.poison = {}] \in RunType
    BY <1>0 DEF RunType
  <2> QED BY <1>0, <1>1, <1>8, <2>1 DEF LoseReply
<1>9. ASSUME NEW d \in Deliveries, HandleLate(d) \/ BackoffOver(d) PROVE TypeOK'
  <2>1. CASE HandleLate(d)
    BY <1>0, <2>1 DEF HandleLate, TypeOK, RunType, tables, leaseVars, counters
  <2>2. CASE BackoffOver(d)
    <3>1. [deliv EXCEPT ![d].due = TRUE] \in [Deliveries -> Delivery]
      BY <1>0 DEF Delivery
    <3> QED BY <1>0, <2>2, <3>1 DEF BackoffOver, TypeOK, RunType, leaseVars, counters
  <2> QED BY <1>9, <2>1, <2>2
<1>10. ASSUME NEW i \in Isolates, Evict(i) PROVE TypeOK'
  <2>1. late' \subseteq Deliveries
    <3>1. \A r \in Runs : AtPhase(r, "call") =>
                            run[r].batch \X {run[r].consumer} \subseteq Deliveries
      BY <1>0 DEF RunOK, Deliveries, RunType
    <3> QED BY <1>0, <1>10, <3>1 DEF Evict
  <2>2. run' \in [Runs -> RunType]
    BY <1>0, <1>10, IdleTyped DEF Evict
  <2> QED BY <1>0, <1>10, <2>1, <2>2 DEF Evict, TypeOK, RunType, tables
<1> QED BY <1>2, <1>3, <1>4, <1>5, <1>6, <1>7, <1>8, <1>9, <1>10 DEF Next, Runs

-----------------------------------------------------------------------------
(* The lock *)

\* Only these three operations touch the lock or the leases.
LEMMA LeaseSteps ==
  ASSUME Next
  PROVE  \/ UNCHANGED <<lock, leases>>
         \/ \E r \in Runs : TakeLock(r) /\ r \in Sweeps
         \/ \E r \in Runs : LeaseRunsOut(r) /\ r \in Sweeps
         \/ \E r \in Runs : Finish(r) /\ r \in Sweeps
<1> SUFFICES ASSUME \A r \in Runs : r \in Sweeps => ~TakeLock(r) /\ ~LeaseRunsOut(r) /\ ~Finish(r)
             PROVE  UNCHANGED <<lock, leases>>
  OBVIOUS
<1>1. ASSUME NEW e \in Events, Publish(e) PROVE UNCHANGED <<lock, leases>>
  BY <1>1 DEF Publish, leaseVars
<1>2. ASSUME NEW r \in Admins, Admin(r) PROVE UNCHANGED <<lock, leases>>
  BY <1>2 DEF Admin, StartReplay, StartRedeliver, leaseVars
<1>3. ASSUME NEW r \in Runs, ReleaseFails(r) \/ Throw(r) \/ LoseReply(r) \/ StatementFails(r)
      PROVE  UNCHANGED <<lock, leases>>
  BY <1>3 DEF ReleaseFails, Throw, LoseReply, StatementFails, leaseVars
<1>4. ASSUME NEW d \in Deliveries, HandleLate(d) \/ BackoffOver(d)
      PROVE  UNCHANGED <<lock, leases>>
  BY <1>4 DEF HandleLate, BackoffOver, leaseVars
<1>5. ASSUME NEW i \in Isolates, Evict(i) PROVE UNCHANGED <<lock, leases>>
  BY <1>5 DEF Evict
<1>6. ASSUME NEW r \in Runs, RunStep(r) PROVE UNCHANGED <<lock, leases>>
  <2>1. CASE LookupIds(r) \/ SelectOldest(r) \/ ResetDeliveries(r) \/ ReopenEvents(r)
    BY <2>1 DEF LookupIds, SelectOldest, ResetDeliveries, ReopenEvents, leaseVars
  <2>2. CASE InsertDeliveries(r) \/ SelectDue(r) \/ Stop(r) \/ Handle(r) \/ Book(r)
             \/ MarkDispatched(r)
    BY <2>2 DEF InsertDeliveries, SelectDue, Stop, Handle, Book, MarkDispatched, leaseVars
  <2>3. ASSUME NEW c \in Consumers, RetryUnbound(r, c) \/ Call(r, c)
        PROVE  UNCHANGED <<lock, leases>>
    BY <2>3 DEF RetryUnbound, Call, leaseVars
  <2>4. CASE Finish(r)
    BY <2>4 DEF Finish, leaseVars
  <2> QED BY <1>6, <2>1, <2>2, <2>3, <2>4 DEF RunStep
<1> QED BY <1>1, <1>2, <1>3, <1>4, <1>5, <1>6 DEF Next, Runs

\* Taking, losing and releasing the lock keep it with the one lease that runs.
LEMMA LockKept ==
  ASSUME LockHeld, TypeOK, Next
  PROVE  LockHeld'
<1>1. None \notin Sweeps /\ leases \subseteq Sweeps
  BY RunsType DEF Runs, TypeOK
<1>2. CASE UNCHANGED <<lock, leases>>
  BY <1>2 DEF LockHeld, OneLease
<1>3. ASSUME NEW r \in Sweeps, TakeLock(r) PROVE LockHeld'
  BY <1>1, <1>3 DEF LockHeld, OneLease, TakeLock
<1>4. ASSUME NEW r \in Sweeps, LeaseRunsOut(r) PROVE LockHeld'
  BY <1>1, <1>4 DEF LockHeld, OneLease, LeaseRunsOut
<1>5. ASSUME NEW r \in Sweeps, Finish(r) PROVE LockHeld'
  BY <1>1, <1>5 DEF LockHeld, OneLease, Finish, Release
<1> QED BY <1>2, <1>3, <1>4, <1>5, LeaseSteps

-----------------------------------------------------------------------------
(* What a step does to the tables *)

\* A row once written stays, it is acked only when the consumer has processed
\* the event, and it dies of its last attempt or of a refusal.
RowKept(d) ==
  /\ deliv[d].state # "absent" => deliv'[d].state # "absent"
  /\ deliv'[d].state = "acked" => deliv[d].state = "acked" \/ d \in processed
  /\ deliv'[d].state = "dead" =>
       \/ deliv'[d].attempts = deliv[d].attempts /\ deliv[d].state = "dead"
       \/ deliv'[d].attempts = MaxAttempts
       \/ d \in Poison

\* Unless it is reopened, a dead letter stays one, or is answered for after all.
DeadKept(d) ==
  deliv[d].state = "dead" /\ deliv[d].attempts = MaxAttempts =>
    \/ deliv'[d].state = "dead" /\ deliv'[d].attempts = MaxAttempts
    \/ d \in processed

TablesKept ==
  /\ processed \subseteq processed'
  /\ \A d \in Deliveries : RowKept(d)

\* Bookkeeping writes nothing but what the consumer answered.
LEMMA BookedKeeps ==
  ASSUME TypeOK, NEW es, NEW c, NEW acked, NEW poison,
         \A e \in acked : <<e, c>> \in processed,
         \A e \in poison : <<e, c>> \in Poison,
         deliv' = Booked(es, c, acked, poison)
  PROVE  \A d \in Deliveries : RowKept(d) /\ DeadKept(d)
<1> SUFFICES ASSUME NEW d \in Deliveries PROVE RowKept(d) /\ DeadKept(d)
  OBVIOUS
<1> DEFINE n == IF deliv[d].attempts < MaxAttempts THEN deliv[d].attempts + 1 ELSE MaxAttempts
<1>1. d = <<d[1], d[2]>>
  BY DEF Deliveries
<1>2. deliv[d] \in Delivery
  BY DEF TypeOK
<1>3. n \in 0..MaxAttempts /\ (deliv[d].attempts = MaxAttempts => n = MaxAttempts)
  BY <1>2, LimitsType DEF Delivery
<1>4. CASE deliv'[d] = deliv[d]
  BY <1>4 DEF RowKept, DeadKept
<1>5. CASE d[1] \in acked /\ d[2] = c /\ deliv'[d] = settled(deliv[d], "acked")
  <2>1. d \in processed
    BY <1>1, <1>5
  <2>2. deliv'[d].state = "acked"
    BY <1>2, <1>5 DEF settled, Delivery
  <2> QED BY <2>1, <2>2 DEF RowKept, DeadKept
<1>6. CASE d[1] \in poison /\ d[2] = c /\ deliv'[d] = settled(deliv[d], "dead")
  <2>1. d \in Poison
    BY <1>1, <1>6
  <2>2. deliv'[d].state = "dead" /\ deliv'[d].attempts = n
    BY <1>2, <1>6 DEF settled, Delivery
  <2> QED BY <1>3, <2>1, <2>2 DEF RowKept, DeadKept
<1>7. CASE deliv'[d] = retried(deliv[d])
  <2>1. /\ deliv'[d].attempts = n
        /\ deliv'[d].state = IF n >= MaxAttempts THEN "dead" ELSE "pending"
    BY <1>7 DEF retried
  <2>2. n >= MaxAttempts => n = MaxAttempts
    BY <1>3, LimitsType
  <2> HIDE DEF n
  <2> QED BY <1>3, <2>1, <2>2, LimitsType DEF RowKept, DeadKept
<1> QED BY <1>4, <1>5, <1>6, <1>7 DEF Booked

\* A step that leaves the deliveries alone, or fills and refreshes rows.
LEMMA QuietKeeps ==
  ASSUME \A d \in Deliveries : deliv'[d] = deliv[d]
  PROVE  \A d \in Deliveries : RowKept(d) /\ DeadKept(d)
BY DEF RowKept, DeadKept

\* Opening a row that is there, or inserting one that is not.
LEMMA FreshKeeps ==
  ASSUME \A d \in Deliveries : deliv'[d] = deliv[d] \/ deliv'[d] = FreshRow
  PROVE  \A d \in Deliveries : RowKept(d)
BY DEF RowKept, FreshRow

\* Every operation of a run keeps the tables honest, and all but the reset of a
\* replay keep the dead letters.
LEMMA RunStepKeepsTables ==
  ASSUME TypeOK, \A q \in Runs : RunOK(q), NEW r \in Runs, RunStep(r)
  PROVE  /\ TablesKept
         /\ (\A d \in Deliveries : DeadKept(d)) \/ ResetDeliveries(r)
<1>1. ASSUME UNCHANGED <<deliv, processed>>
      PROVE  TablesKept /\ \A d \in Deliveries : DeadKept(d)
  BY <1>1, QuietKeeps DEF TablesKept
<1>2. CASE LookupIds(r) \/ SelectOldest(r) \/ ReopenEvents(r) \/ SelectDue(r) \/ Stop(r)
           \/ MarkDispatched(r) \/ Finish(r)
  BY <1>1, <1>2 DEF LookupIds, SelectOldest, ReopenEvents, SelectDue, Stop, MarkDispatched,
                    Finish, tables
<1>3. CASE ResetDeliveries(r)
  BY <1>3, FreshKeeps DEF ResetDeliveries, TablesKept
<1>4. CASE InsertDeliveries(r)
  <2>1. \A d \in Deliveries :
          deliv'[d] = deliv[d] \/ (deliv'[d] = FreshRow /\ deliv[d].state = "absent")
    BY <1>4 DEF InsertDeliveries
  <2>2. \A d \in Deliveries : DeadKept(d)
    BY <2>1 DEF DeadKept
  <2> QED BY <1>4, <2>1, <2>2, FreshKeeps DEF InsertDeliveries, TablesKept
<1>5. ASSUME NEW c \in Consumers, RetryUnbound(r, c)
      PROVE  TablesKept /\ \A d \in Deliveries : DeadKept(d)
  BY <1>5, BookedKeeps DEF RetryUnbound, TablesKept
<1>6. ASSUME NEW c \in Consumers, Call(r, c)
      PROVE  TablesKept /\ \A d \in Deliveries : DeadKept(d)
  BY <1>1, <1>6 DEF Call, tables
<1>7. CASE Handle(r)
  BY <1>7, QuietKeeps DEF Handle, tables, TablesKept
<1>8. CASE Book(r)
  BY <1>8, BookedKeeps DEF Book, RunOK, TablesKept
<1> QED BY <1>2, <1>3, <1>4, <1>5, <1>6, <1>7, <1>8 DEF RunStep

\* So does everything else that can happen; only an admin reopens dead letters.
LEMMA OtherStepsKeepTables ==
  ASSUME TypeOK, Next, \A r \in Runs : ~RunStep(r)
  PROVE  /\ TablesKept
         /\ (\A d \in Deliveries : DeadKept(d)) \/ \E r \in Admins : Admin(r)
<1>1. ASSUME UNCHANGED deliv, processed \subseteq processed'
      PROVE  TablesKept /\ \A d \in Deliveries : DeadKept(d)
  BY <1>1, QuietKeeps DEF TablesKept
<1>2. ASSUME NEW e \in Events, Publish(e)
      PROVE  TablesKept /\ \A d \in Deliveries : DeadKept(d)
  BY <1>1, <1>2 DEF Publish
<1>3. ASSUME NEW r \in Runs, TakeLock(r) \/ LeaseRunsOut(r) \/ ReleaseFails(r) \/ Throw(r)
                             \/ LoseReply(r) \/ StatementFails(r)
      PROVE  TablesKept /\ \A d \in Deliveries : DeadKept(d)
  BY <1>1, <1>3 DEF TakeLock, LeaseRunsOut, ReleaseFails, Throw, LoseReply, StatementFails,
                    tables
<1>4. ASSUME NEW r \in Admins, Admin(r) PROVE TablesKept
  <2>1. \A d \in Deliveries : deliv'[d] = deliv[d] \/ deliv'[d] = FreshRow
    BY <1>4 DEF Admin, StartReplay, StartRedeliver, TypeOK, tables
  <2>2. processed' = processed
    BY <1>4 DEF Admin, StartReplay, StartRedeliver
  <2> QED BY <2>1, <2>2, FreshKeeps DEF TablesKept
<1>5. ASSUME NEW d \in Deliveries, HandleLate(d)
      PROVE  TablesKept /\ \A x \in Deliveries : DeadKept(x)
  BY <1>1, <1>5 DEF HandleLate, tables
<1>6. ASSUME NEW x \in Deliveries, BackoffOver(x)
      PROVE  TablesKept /\ \A d \in Deliveries : DeadKept(d)
  <2>1. \A d \in Deliveries : deliv'[d].state = deliv[d].state
                              /\ deliv'[d].attempts = deliv[d].attempts
    BY <1>6 DEF BackoffOver, TypeOK, Delivery
  <2>2. processed' = processed
    BY <1>6 DEF BackoffOver
  <2> QED BY <2>1, <2>2 DEF TablesKept, RowKept, DeadKept
<1>7. ASSUME NEW i \in Isolates, Evict(i)
      PROVE  TablesKept /\ \A d \in Deliveries : DeadKept(d)
  BY <1>1, <1>7 DEF Evict, tables
<1> QED BY <1>2, <1>3, <1>4, <1>5, <1>6, <1>7 DEF Next, Runs

-----------------------------------------------------------------------------
(* What a step does to the runs *)

\* A run that does nothing can rely on what it relied on.
LEMMA RunStays ==
  ASSUME TypeOK, TablesKept, NEW r \in Runs, RunOK(r), run'[r] = run[r]
  PROVE  RunOK(r)'
<1>1. ASSUME NEW e \in run[r].rows, NEW c \in Addressees(r, e), deliv[<<e, c>>].state # "absent"
      PROVE  deliv'[<<e, c>>].state # "absent"
  <2>1. <<e, c>> \in Deliveries
    BY <1>1, BoundType DEF TypeOK, Addressees, subscribersFor, Deliveries
  <2> QED BY <1>1, <2>1 DEF TablesKept, RowKept
<1> QED BY <1>1 DEF RunOK, TablesKept, AtPhase, Addressees, subscribersFor

\* Nor does one lose it by going on without new answers and new rows.
LEMMA RunGoesOn ==
  ASSUME TypeOK, TablesKept, NEW r \in Runs, RunOK(r),
         run'[r].acked = {}, run'[r].poison = {},
         run'[r].pc = "call" => run'[r].consumer \in Consumers,
         run'[r].pc \in Started => /\ run[r].pc \in Started
                                   /\ run'[r].rows = run[r].rows
                                   /\ run'[r].only = run[r].only
  PROVE  RunOK(r)'
<1>1. ASSUME NEW e \in run[r].rows, NEW c \in Addressees(r, e), deliv[<<e, c>>].state # "absent"
      PROVE  deliv'[<<e, c>>].state # "absent"
  <2>1. <<e, c>> \in Deliveries
    BY <1>1, BoundType DEF TypeOK, Addressees, subscribersFor, Deliveries
  <2> QED BY <1>1, <2>1 DEF TablesKept, RowKept
<1> QED BY <1>1 DEF RunOK, AtPhase, Addressees, subscribersFor

\* The operations of a run keep what it relies on: a call gets an addressee, an
\* answer is in processed_events, and the rows it goes on with are inserted.
LEMMA RunStepKeepsRun ==
  ASSUME TypeOK, TablesKept, NEW r \in Runs, RunOK(r), RunStep(r)
  PROVE  RunOK(r)'
<1>0. run[r] \in RunType /\ run \in [Runs -> RunType]
  BY DEF TypeOK, RunType
<1>1. CASE LookupIds(r) \/ SelectOldest(r) \/ ResetDeliveries(r) \/ ReopenEvents(r) \/ Stop(r)
           \/ MarkDispatched(r)
  <2> DEFINE Leaves == /\ ~AtPhase(r, "reply")
                       /\ run'[r].acked = run[r].acked /\ run'[r].poison = run[r].poison
                       /\ run'[r].pc \notin Started
  <2>1. ASSUME LookupIds(r) \/ SelectOldest(r) PROVE Leaves
    <3>1. /\ run[r].pc \in {"lookup", "select"}
          /\ \/ run'[r] = [run[r] EXCEPT !.pc = "end"]
             \/ \E open : run'[r] = [run[r] EXCEPT !.pc = "insert", !.rows = open]
      BY <1>0, <2>1 DEF LookupIds, SelectOldest, Becomes, AtPhase
    <3> QED BY <1>0, <3>1 DEF RunType, AtPhase, Started
  <2>2. ASSUME ResetDeliveries(r) \/ ReopenEvents(r) PROVE Leaves
    <3>1. /\ run[r].pc \in {"reset", "reopen"}
          /\ \E pc \in {"reopen", "lookup", "insert"} : run'[r] = [run[r] EXCEPT !.pc = pc]
      BY <1>0, <2>2 DEF ResetDeliveries, ReopenEvents, Becomes, AtPhase
    <3> QED BY <1>0, <3>1 DEF RunType, AtPhase, Started
  <2>3. ASSUME Stop(r) \/ MarkDispatched(r) PROVE Leaves
    <3>1. run[r].pc = "deliver" /\ run'[r] = [run[r] EXCEPT !.pc = "end"]
      BY <1>0, <2>3 DEF Stop, MarkDispatched, Becomes, AtPhase
    <3> QED BY <1>0, <3>1 DEF RunType, AtPhase, Started
  <2>4. Leaves
    BY <1>1, <2>1, <2>2, <2>3
  <2> QED BY <2>4, RunGoesOn DEF RunOK, Started
<1>2. CASE InsertDeliveries(r)
  <2>1. /\ run'[r] = [run[r] EXCEPT !.pc = "due"] /\ AtPhase(r, "insert")
    BY <1>0, <1>2 DEF InsertDeliveries, Becomes
  <2>2. ASSUME NEW e \in run[r].rows, NEW c \in Addressees(r, e)
        PROVE  deliv'[<<e, c>>].state # "absent"
    <3>1. <<e, c>> \in Deliveries
      BY <2>2, BoundType DEF TypeOK, Addressees, subscribersFor, Deliveries
    <3> QED BY <1>2, <2>2, <3>1 DEF InsertDeliveries, FreshRow
  <2>3. /\ run'[r].pc = "due" /\ run'[r].rows = run[r].rows /\ run'[r].only = run[r].only
        /\ run'[r].acked = {} /\ run'[r].poison = {}
    BY <1>0, <2>1 DEF RunType, RunOK, AtPhase
  <2> QED BY <2>2, <2>3 DEF RunOK, AtPhase, Addressees, subscribersFor
<1>3. CASE SelectDue(r)
  <2>1. /\ AtPhase(r, "due")
        /\ run'[r] = [run[r] EXCEPT !.pc = "deliver", !.todo = DueRows(r)]
    BY <1>0, <1>3 DEF SelectDue, Becomes
  <2> QED BY <1>0, <2>1, RunGoesOn, ZenonT(30) DEF RunOK, AtPhase, Started, RunType
<1>4. ASSUME NEW c \in Consumers, RetryUnbound(r, c) PROVE RunOK(r)'
  <2>1. /\ AtPhase(r, "deliver")
        /\ run'[r] = [run[r] EXCEPT !.todo = Without(r, TodoOf(r, c), c)]
    BY <1>0, <1>4 DEF RetryUnbound, Becomes
  <2> QED BY <1>0, <2>1, RunGoesOn DEF RunOK, AtPhase, Started, RunType
<1>5. ASSUME NEW c \in Consumers, Call(r, c) PROVE RunOK(r)'
  <2>1. /\ AtPhase(r, "deliver")
        /\ run'[r].pc = "call" /\ run'[r].consumer = c
        /\ run'[r].rows = run[r].rows /\ run'[r].only = run[r].only
        /\ run'[r].acked = run[r].acked /\ run'[r].poison = run[r].poison
    BY <1>0, <1>5 DEF Call, Becomes, RunType
  <2> QED BY <2>1, RunGoesOn DEF RunOK, AtPhase, Started
<1>6. CASE Handle(r)
  <2> DEFINE poison == PoisonFor(run[r].batch, run[r].consumer)
  <2>1. PICK taken \in SUBSET (run[r].batch \ poison) :
          /\ processed' = processed \cup (taken \X {run[r].consumer})
          /\ Becomes(r, [run[r] EXCEPT !.pc = "reply", !.acked = taken, !.poison = poison])
    BY <1>6 DEF Handle
  <2>2. run'[r] = [run[r] EXCEPT !.pc = "reply", !.acked = taken, !.poison = poison]
    BY <1>0, <2>1 DEF Becomes
  <2>3. /\ run'[r].pc = "reply" /\ run'[r].consumer = run[r].consumer
        /\ run'[r].rows = run[r].rows /\ run'[r].only = run[r].only
        /\ run'[r].acked = taken /\ run'[r].poison = poison
    <3> HIDE DEF poison
    <3> QED BY <1>0, <2>2 DEF RunType
  <2>4. \A e \in taken : <<e, run[r].consumer>> \in processed'
    BY <2>1
  <2>5. \A e \in poison : <<e, run[r].consumer>> \in Poison
    BY DEF PoisonFor
  <2>6. deliv' = deliv /\ run[r].pc = "call"
    BY <1>6 DEF Handle, tables, AtPhase
  <2> HIDE DEF poison
  <2> QED BY <2>3, <2>4, <2>5, <2>6 DEF RunOK, AtPhase, Started, Addressees, subscribersFor
<1>7. CASE Book(r)
  <2>1. /\ AtPhase(r, "reply")
        /\ run'[r] = [run[r] EXCEPT !.pc = "deliver", !.consumer = None, !.batch = {},
                                    !.acked = {}, !.poison = {}]
    BY <1>0, <1>7 DEF Book, Becomes
  <2>2. /\ run'[r].pc = "deliver" /\ run'[r].acked = {} /\ run'[r].poison = {}
        /\ run'[r].rows = run[r].rows /\ run'[r].only = run[r].only
    BY <1>0, <2>1 DEF RunType
  <2> QED BY <2>1, <2>2, RunGoesOn DEF AtPhase, Started
<1>8. CASE Finish(r)
  <2>1. run'[r] = IdleRun
    BY <1>0, <1>8 DEF Finish, Becomes
  <2> QED BY <2>1, RunGoesOn DEF IdleRun, Started
<1> QED BY <1>1, <1>2, <1>3, <1>4, <1>5, <1>6, <1>7, <1>8 DEF RunStep

\* The other steps start a run, stop it, or take its answers away.
LEMMA OtherStepsKeepRuns ==
  ASSUME TypeOK, TablesKept, NEW r \in Runs, RunOK(r), Next, \A q \in Runs : ~RunStep(q)
  PROVE  RunOK(r)'
<1>0. run[r] \in RunType /\ run \in [Runs -> RunType]
  BY DEF TypeOK, RunType
<1>1. ASSUME run'[r].acked = {}, run'[r].poison = {}, run'[r].pc \notin Started
      PROVE  RunOK(r)'
  BY <1>1, RunGoesOn DEF Started
<1>2. ASSUME NEW q \in Runs, NEW value, Becomes(q, value), value.acked = {}, value.poison = {},
             value.pc \notin Started
      PROVE  RunOK(r)'
  BY <1>0, <1>1, <1>2, RunStays DEF Becomes
<1>3. ASSUME NEW e \in Events, Publish(e) PROVE RunOK(r)'
  <2>1. CASE UNCHANGED run
    BY <2>1, RunStays
  <2>2. ASSUME NEW q \in Requests, Becomes(q, [IdleRun EXCEPT !.pc = "lookup", !.rows = {e}])
        PROVE  RunOK(r)'
    BY <1>2, <2>2 DEF IdleRun, Started, Runs
  <2> QED BY <1>3, <2>1, <2>2 DEF Publish
<1>4. ASSUME NEW q \in Runs, TakeLock(q) \/ ReleaseFails(q) \/ StatementFails(q)
      PROVE  RunOK(r)'
  BY <1>2, <1>4 DEF TakeLock, ReleaseFails, StatementFails, IdleRun, Started
<1>5. ASSUME NEW q \in Runs, LeaseRunsOut(q) PROVE RunOK(r)'
  BY <1>5, RunStays DEF LeaseRunsOut
<1>6. ASSUME NEW q \in Admins, Admin(q) PROVE RunOK(r)'
  BY <1>2, <1>6 DEF Admin, StartReplay, StartRedeliver, IdleRun, Started, Runs
<1>7. ASSUME NEW q \in Runs, Throw(q) \/ LoseReply(q) PROVE RunOK(r)'
  <2>1. CASE q # r
    BY <1>0, <1>7, <2>1, RunStays DEF Throw, LoseReply, Becomes
  <2>2. CASE q = r
    <3>1. /\ run'[r].pc = "reply" /\ run'[r].acked = {} /\ run'[r].poison = {}
          /\ run'[r].rows = run[r].rows /\ run'[r].only = run[r].only
          /\ run[r].pc \in Started
      <4>1. CASE Throw(q)
        <5>1. run[r].pc = "call" /\ run'[r] = [run[r] EXCEPT !.pc = "reply"]
          BY <1>0, <2>2, <4>1 DEF Throw, Becomes, AtPhase
        <5>2. run[r].acked = {} /\ run[r].poison = {}
          BY <5>1 DEF RunOK, AtPhase
        <5> QED BY <1>0, <5>1, <5>2 DEF RunType, Started
      <4>2. CASE LoseReply(q)
        <5>1. run[r].pc = "reply" /\ run'[r] = [run[r] EXCEPT !.acked = {}, !.poison = {}]
          BY <1>0, <2>2, <4>2 DEF LoseReply, Becomes, AtPhase
        <5> QED BY <1>0, <5>1 DEF RunType, Started
      <4> QED BY <1>7, <4>1, <4>2
    <3> QED BY <3>1, RunGoesOn
  <2> QED BY <2>1, <2>2
<1>8. ASSUME NEW d \in Deliveries, HandleLate(d) \/ BackoffOver(d) PROVE RunOK(r)'
  BY <1>8, RunStays DEF HandleLate, BackoffOver
<1>9. ASSUME NEW i \in Isolates, Evict(i) PROVE RunOK(r)'
  <2>1. run'[r] = run[r] \/ run'[r] = IdleRun
    BY <1>0, <1>9 DEF Evict
  <2> QED BY <1>1, <2>1, RunStays DEF IdleRun, Started
<1> QED BY <1>3, <1>4, <1>5, <1>6, <1>7, <1>8, <1>9 DEF Next, Runs

\* A run's own operation is not the others' business.
LEMMA OneRunAtATime ==
  ASSUME TypeOK, NEW r \in Runs, RunStep(r)
  PROVE  \A q \in Runs \ {r} : run'[q] = run[q]
BY DEF RunStep, LookupIds, SelectOldest, ResetDeliveries, ReopenEvents, InsertDeliveries,
       SelectDue, RetryUnbound, Call, Stop, Handle, Book, MarkDispatched, Finish, Becomes, TypeOK

-----------------------------------------------------------------------------
(* The theorems *)

\* Acks are processed already or become so with the row.
LEMMA AcksKept ==
  ASSUME AckedIsProcessed, TablesKept
  PROVE  AckedIsProcessed'
BY DEF AckedIsProcessed, TablesKept, RowKept

\* The inductive invariant.
LEMMA InvariantKept ==
  ASSUME IInv, [Next]_vars
  PROVE  IInv'
<1>0. TypeOK /\ LockHeld /\ AckedIsProcessed /\ \A r \in Runs : RunOK(r)
  BY DEF IInv
<1>1. ASSUME NEW r \in Runs, RunStep(r) PROVE IInv'
  <2>1. TypeOK'
    BY <1>0, <1>1, RunStepKeepsTypes
  <2>2. TablesKept
    BY <1>0, <1>1, RunStepKeepsTables
  <2>3. \A q \in Runs : RunOK(q)'
    BY <1>0, <1>1, <2>2, RunStepKeepsRun, OneRunAtATime, RunStays
  <2>4. LockHeld'
    BY <1>0, <1>1, LockKept DEF Next
  <2> QED BY <1>0, <2>1, <2>2, <2>3, <2>4, AcksKept DEF IInv
<1>2. ASSUME Next, \A r \in Runs : ~RunStep(r) PROVE IInv'
  <2>1. TypeOK'
    BY <1>0, <1>2, OtherStepsKeepTypes
  <2>2. TablesKept
    BY <1>0, <1>2, OtherStepsKeepTables
  <2>3. \A q \in Runs : RunOK(q)'
    BY <1>0, <1>2, <2>2, OtherStepsKeepRuns
  <2>4. LockHeld'
    BY <1>0, <1>2, LockKept
  <2> QED BY <1>0, <2>1, <2>2, <2>3, <2>4, AcksKept DEF IInv
<1>3. CASE UNCHANGED vars
  <2>1. TypeOK'
    BY <1>0, <1>3 DEF vars, TypeOK, tables, leaseVars, counters
  <2>2. TablesKept
    BY <1>3, QuietKeeps DEF vars, tables, TablesKept
  <2>3. \A q \in Runs : RunOK(q)'
    BY <1>0, <1>3, <2>2, RunStays DEF vars
  <2>4. LockHeld'
    BY <1>0, <1>3 DEF vars, leaseVars, LockHeld, OneLease
  <2> QED BY <1>0, <2>1, <2>2, <2>3, <2>4, AcksKept DEF IInv
<1> QED BY <1>1, <1>2, <1>3

\* The empty bus, with or without left-over rows, satisfies it.
LEMMA InitInvariant == Init => IInv
<1> SUFFICES ASSUME Init PROVE IInv
  OBVIOUS
<1>1. LockHeld
  BY DEF Init, LockHeld, OneLease
<1>2. AckedIsProcessed
  BY DEF Init, AckedIsProcessed, FreshRow, NoRow
<1>3. \A r \in Runs : RunOK(r)
  BY DEF Init, RunOK, IdleRun, AtPhase, Started
<1> QED BY <1>1, <1>2, <1>3, InitTyped DEF IInv

\* Each run has a lease, an addressee and answers it can rely on, in every
\* reachable state.
THEOREM BusInvariant == Spec => []IInv
BY InitInvariant, InvariantKept, PTL DEF Spec

\* Type correctness of the bus.
THEOREM BusTypes == Spec => []TypeOK
BY BusInvariant, PTL DEF IInv

\* pump_lock (bus.ts: the compare-and-set, the guarded release): for any number
\* of sweeps, whoever still holds a lease holds the lock.
THEOREM LockHasOneHolder == Spec => []OneLease
BY BusInvariant, PTL DEF IInv, LockHeld

\* However runs overlap and answers get lost, the outbox records no ack for an
\* event the consumer has not processed.
THEOREM AcksAreTrue == Spec => []AckedIsProcessed
BY BusInvariant, PTL DEF IInv

-----------------------------------------------------------------------------
(* Nothing is lost while no admin interferes *)

\* No run is an admin's: each delivers to every subscriber.
Unassisted == \A r \in Runs : run[r].only = None /\ run[r].pc \notin {"reset", "reopen"}

\* A delivery dies of its last attempt, or refused.
DeadIsFinal ==
  \A d \in Deliveries :
    deliv[d].state = "dead" => deliv[d].attempts = MaxAttempts \/ d \in Poison

DInv == Unassisted /\ DeadIsFinal /\ NothingLost

\* Dispatch marks are only set by the one operation.
LEMMA DispatchSteps ==
  ASSUME Next
  PROVE  dispatched' \subseteq dispatched \/ \E r \in Runs : MarkDispatched(r)
<1>1. ASSUME NEW r \in Runs, RunStep(r), ~MarkDispatched(r) PROVE dispatched' \subseteq dispatched
  BY <1>1 DEF RunStep, LookupIds, SelectOldest, ResetDeliveries, ReopenEvents,
              InsertDeliveries, SelectDue, RetryUnbound, Call, Stop, Handle, Book, Finish, tables
<1>2. ASSUME \A r \in Runs : ~RunStep(r) PROVE dispatched' = dispatched
  BY <1>2 DEF Next, Publish, TakeLock, LeaseRunsOut, ReleaseFails, Admin, StartReplay,
              StartRedeliver, Throw, LoseReply, StatementFails, HandleLate, BackoffOver,
              Evict, tables, Runs
<1> QED BY <1>1, <1>2

\* Without admins no run becomes one that reopens or narrows deliveries.
LEMMA UnassistedKept ==
  ASSUME TypeOK, Unassisted, Admins = {}, Next
  PROVE  Unassisted'
<1>0. run \in [Runs -> RunType]
  BY DEF TypeOK, RunType
<1> DEFINE Plain(v) == v.only = None /\ v.pc \notin {"reset", "reopen"}
<1>1. ASSUME NEW q \in Runs, NEW value, Becomes(q, value), Plain(value)
      PROVE  Unassisted'
  BY <1>0, <1>1 DEF Unassisted, Becomes
<1>2. ASSUME NEW r \in Runs, RunStep(r) PROVE Unassisted'
  <2>0. run[r] \in RunType /\ Plain(run[r])
    BY <1>0 DEF Unassisted
  <2>1. CASE LookupIds(r) \/ SelectOldest(r)
    <3>1. \A open : Plain([run[r] EXCEPT !.pc = "insert", !.rows = open])
      BY <2>0 DEF RunType
    <3>2. Plain([run[r] EXCEPT !.pc = "end"])
      BY <2>0 DEF RunType
    <3> QED BY <1>1, <2>1, <3>1, <3>2 DEF LookupIds, SelectOldest
  <2>2. ~ResetDeliveries(r) /\ ~ReopenEvents(r)
    BY DEF ResetDeliveries, ReopenEvents, Unassisted, AtPhase
  <2>3. CASE InsertDeliveries(r) \/ Stop(r) \/ MarkDispatched(r)
    <3>1. Plain([run[r] EXCEPT !.pc = "due"]) /\ Plain([run[r] EXCEPT !.pc = "end"])
      BY <2>0 DEF RunType
    <3> QED BY <1>1, <2>3, <3>1 DEF InsertDeliveries, Stop, MarkDispatched
  <2>4. CASE SelectDue(r)
    <3>1. Plain([run[r] EXCEPT !.pc = "deliver", !.todo = DueRows(r)])
      BY <2>0 DEF RunType
    <3> QED BY <1>1, <2>4, <3>1 DEF SelectDue
  <2>5. ASSUME NEW c \in Consumers, RetryUnbound(r, c) PROVE Unassisted'
    <3>1. Plain([run[r] EXCEPT !.todo = Without(r, TodoOf(r, c), c)])
      BY <2>0 DEF RunType
    <3> QED BY <1>1, <2>5, <3>1 DEF RetryUnbound
  <2>6. ASSUME NEW c \in Consumers, Call(r, c) PROVE Unassisted'
    <3>1. /\ run'[r].only = run[r].only /\ run'[r].pc = "call"
          /\ \A q \in Runs \ {r} : run'[q] = run[q]
      BY <1>0, <2>0, <2>6 DEF Call, Becomes, RunType
    <3> QED BY <2>0, <3>1 DEF Unassisted
  <2>7. CASE Handle(r)
    <3>1. \A taken, poison :
            Plain([run[r] EXCEPT !.pc = "reply", !.acked = taken, !.poison = poison])
      BY <2>0 DEF RunType
    <3> QED BY <1>1, <2>7, <3>1 DEF Handle
  <2>8. CASE Book(r)
    <3>1. Plain([run[r] EXCEPT !.pc = "deliver", !.consumer = None, !.batch = {},
                               !.acked = {}, !.poison = {}])
      BY <2>0 DEF RunType
    <3> QED BY <1>1, <2>8, <3>1 DEF Book
  <2>9. CASE Finish(r)
    BY <1>1, <2>9 DEF Finish, IdleRun
  <2> QED BY <1>2, <2>1, <2>2, <2>3, <2>4, <2>5, <2>6, <2>7, <2>8, <2>9 DEF RunStep
<1>3. CASE UNCHANGED run
  BY <1>3 DEF Unassisted
<1>4. ASSUME NEW e \in Events, Publish(e) PROVE Unassisted'
  <2>1. Plain([IdleRun EXCEPT !.pc = "lookup", !.rows = {e}])
    BY DEF IdleRun
  <2> QED BY <1>1, <1>3, <1>4, <2>1 DEF Publish, Runs
<1>5. ASSUME NEW r \in Runs, TakeLock(r) \/ ReleaseFails(r) \/ StatementFails(r)
      PROVE  Unassisted'
  BY <1>1, <1>5 DEF TakeLock, ReleaseFails, StatementFails, IdleRun
<1>6. ASSUME NEW r \in Runs, Throw(r) \/ LoseReply(r) PROVE Unassisted'
  <2>1. /\ Plain([run[r] EXCEPT !.pc = "reply"])
        /\ Plain([run[r] EXCEPT !.acked = {}, !.poison = {}])
    BY <1>0 DEF Unassisted, RunType
  <2> QED BY <1>1, <1>6, <2>1 DEF Throw, LoseReply
<1>7. ASSUME NEW i \in Isolates, Evict(i) PROVE Unassisted'
  BY <1>0, <1>7 DEF Evict, IdleRun, Unassisted
<1>8. CASE \A r \in Runs : ~RunStep(r)
  BY <1>3, <1>4, <1>5, <1>6, <1>7, <1>8
     DEF Next, LeaseRunsOut, HandleLate, BackoffOver, Runs
<1> QED BY <1>2, <1>8

\* A dispatched event whose deliveries are accounted for stays so, and the
\* dispatch mark is set only when every subscriber's row is there and settled.
LEMMA LostNothing ==
  ASSUME IInv, DInv, Admins = {}, [Next]_vars
  PROVE  DInv'
<1>0. TypeOK /\ AckedIsProcessed /\ (\A r \in Runs : RunOK(r)) /\ BoundType
  BY BoundType DEF IInv
<1>1. TablesKept /\ \A d \in Deliveries : DeadKept(d)
  <2>1. ASSUME NEW r \in Runs, RunStep(r) PROVE TablesKept /\ \A d \in Deliveries : DeadKept(d)
    <3>1. ~ResetDeliveries(r)
      BY DEF ResetDeliveries, DInv, Unassisted, AtPhase
    <3> QED BY <1>0, <2>1, <3>1, RunStepKeepsTables
  <2>2. ASSUME Next, \A r \in Runs : ~RunStep(r)
        PROVE  TablesKept /\ \A d \in Deliveries : DeadKept(d)
    BY <1>0, <2>2, OtherStepsKeepTables
  <2>3. CASE UNCHANGED vars
    BY <2>3, QuietKeeps DEF vars, tables, TablesKept
  <2> QED BY <2>1, <2>2, <2>3
<1>2. Unassisted'
  BY <1>0, UnassistedKept DEF DInv, Unassisted, vars
<1>3. DeadIsFinal'
  BY <1>1 DEF DInv, DeadIsFinal, TablesKept, RowKept
<1>4. \A e \in Events : \A c \in subscribersFor(e) : <<e, c>> \in Deliveries
  BY <1>0 DEF subscribersFor, Deliveries
<1>5. ASSUME NEW e \in dispatched, NEW c \in subscribersFor(e) PROVE Accounted(e, c)'
  <2>1. Accounted(e, c) /\ <<e, c>> \in Deliveries
    BY <1>0, <1>4 DEF DInv, NothingLost, Unassisted, AboutToReopen, AtPhase, Runs, TypeOK
  <2> QED BY <1>1, <2>1 DEF Accounted, TablesKept, DeadKept
<1>6. ASSUME NEW r \in Runs, MarkDispatched(r), NEW e \in Settled(run[r].rows),
             NEW c \in subscribersFor(e)
      PROVE  Accounted(e, c)'
  <2>1. /\ e \in run[r].rows /\ run[r].pc = "deliver" /\ ~IsPending(e, c) /\ c \in Consumers
    BY <1>0, <1>6 DEF MarkDispatched, Settled, AtPhase, subscribersFor
  <2>2. c \in Addressees(r, e)
    BY DEF Addressees, DInv, Unassisted
  <2>3. deliv[<<e, c>>].state # "absent"
    BY <1>0, <2>1, <2>2 DEF RunOK, Started
  <2>4. <<e, c>> \in Deliveries
    BY <1>0, <1>4, <2>1 DEF TypeOK
  <2>5. deliv[<<e, c>>].state \in {"acked", "dead"}
    BY <1>0, <2>1, <2>3, <2>4 DEF TypeOK, Delivery, States, IsPending
  <2>6. Accounted(e, c)
    BY <1>0, <2>4, <2>5 DEF Accounted, AckedIsProcessed, DInv, DeadIsFinal
  <2> QED BY <1>1, <2>4, <2>6 DEF Accounted, TablesKept, DeadKept
<1>7. \A e \in dispatched' : e \in dispatched \/ \E r \in Runs : MarkDispatched(r) /\ e \in Settled(run[r].rows)
  <2>1. CASE UNCHANGED vars
    BY <2>1 DEF vars, tables
  <2>2. ASSUME NEW r \in Runs, MarkDispatched(r)
        PROVE  dispatched' = dispatched \cup Settled(run[r].rows)
    BY <2>2 DEF MarkDispatched
  <2> QED BY <2>1, <2>2, DispatchSteps
<1>8. \A e \in dispatched' : \A c \in subscribersFor(e) : Accounted(e, c)'
  BY <1>5, <1>6, <1>7
<1> QED BY <1>2, <1>3, <1>8 DEF DInv, NothingLost, subscribersFor

\* bus.ts, steps 1 to 4 of process(): for any number of sweeps and pumpIds runs,
\* whatever fails, a dispatched event was processed or refused by every
\* subscriber or its delivery used up its attempts.  An admin's operation can
\* break it (see the run bus_replay), so there is none here.
THEOREM NothingLostUnassisted ==
  ASSUME Admins = {}
  PROVE  Spec => []NothingLost
<1>1. Init => DInv
  BY DEF Init, DInv, Unassisted, IdleRun, DeadIsFinal, FreshRow, NoRow, NothingLost
<1>2. IInv /\ DInv /\ [Next]_vars => DInv'
  BY LostNothing
<1>3. DInv => NothingLost
  BY DEF DInv
<1> QED BY <1>1, <1>2, <1>3, BusInvariant, PTL DEF Spec
-----------------------------------------------------------------------------
(* Calls within the lease                                                   *)

\* No other sweep shares the isolate; requests and admins may.
Alone(r) == \A s \in Sweeps \ {r} : IsolateOf[s] # IsolateOf[r]

Busy(r) == run[r].pc \notin {"idle", "end"}

\* The bus object of a sweep at work remembers this sweep's lease, for no other run
\* of the isolate writes it.
Remembered == \A r \in Sweeps : Alone(r) /\ Busy(r) => leaseOf[IsolateOf[r]] = r

LeasedCall(r) ==
  AtPhase(r, "deliver") /\ run'[r].pc = "call" =>
    r \in leases \/ \E s \in Sweeps \ {r} : IsolateOf[s] = IsolateOf[r]

\* A sweep's own operations keep the lease in mind until it ends, and the one
\* that starts a call has just looked at it.
LEMMA OwnStepLease ==
  ASSUME TypeOK, NEW r \in Runs, RunStep(r)
  PROVE  /\ Busy(r)' => Busy(r)
         /\ \/ leaseOf' = leaseOf
            \/ /\ r \in Sweeps /\ ~Busy(r)'
               /\ leaseOf' = [leaseOf EXCEPT ![IsolateOf[r]] = None]
         /\ AtPhase(r, "deliver") /\ run'[r].pc = "call" => ~LeaseGone(r)
<1>0. run[r] \in RunType /\ run \in [Runs -> RunType]
  BY DEF TypeOK, RunType
<1>1. CASE LookupIds(r) \/ SelectOldest(r) \/ ResetDeliveries(r) \/ ReopenEvents(r)
  <2>1. run[r].pc \in {"lookup", "select", "reset", "reopen"} /\ leaseOf' = leaseOf
    BY <1>1 DEF LookupIds, SelectOldest, ResetDeliveries, ReopenEvents, AtPhase, leaseVars
  <2> QED BY <2>1 DEF Busy, AtPhase
<1>2. CASE InsertDeliveries(r) \/ SelectDue(r) \/ Handle(r) \/ Book(r)
  <2>1. run[r].pc \in {"insert", "due", "call", "reply"} /\ leaseOf' = leaseOf
    BY <1>2 DEF InsertDeliveries, SelectDue, Handle, Book, AtPhase, leaseVars
  <2> QED BY <2>1 DEF Busy, AtPhase
<1>3. CASE Stop(r) \/ MarkDispatched(r)
  <2>1. run[r].pc = "deliver" /\ run'[r] = [run[r] EXCEPT !.pc = "end"] /\ leaseOf' = leaseOf
    BY <1>0, <1>3 DEF Stop, MarkDispatched, AtPhase, leaseVars, Becomes
  <2>2. run'[r].pc = "end"
    BY <1>0, <2>1 DEF RunType
  <2> QED BY <2>1, <2>2 DEF Busy, AtPhase
<1>4. ASSUME NEW c \in Consumers, RetryUnbound(r, c)
      PROVE  run[r].pc = "deliver" /\ run'[r].pc = "deliver" /\ leaseOf' = leaseOf
  <2>1. /\ run[r].pc = "deliver" /\ leaseOf' = leaseOf
        /\ run'[r] = [run[r] EXCEPT !.todo = Without(r, TodoOf(r, c), c)]
    BY <1>0, <1>4 DEF RetryUnbound, AtPhase, leaseVars, Becomes
  <2> QED BY <1>0, <2>1 DEF RunType
<1>5. ASSUME NEW c \in Consumers, Call(r, c)
      PROVE  run[r].pc = "deliver" /\ ~LeaseGone(r) /\ leaseOf' = leaseOf
  BY <1>5 DEF Call, AtPhase, leaseVars
<1>6. CASE Finish(r)
  <2>1. /\ run[r].pc = "end" /\ run'[r] = IdleRun
        /\ leaseOf' = leaseOf \/ (r \in Sweeps /\ leaseOf' = [leaseOf EXCEPT ![IsolateOf[r]] = None])
    BY <1>0, <1>6 DEF Finish, AtPhase, leaseVars, Becomes
  <2> QED BY <2>1 DEF Busy, AtPhase, IdleRun
<1> QED BY <1>1, <1>2, <1>3, <1>4, <1>5, <1>6 DEF RunStep, Busy, AtPhase

\* Of the other steps only taking the lock puts a sweep to work, and only an
\* eviction makes a bus object forget, with its runs.
LEMMA OtherStepsLease ==
  ASSUME TypeOK, NEW r \in Sweeps, Next, \A q \in Runs : ~RunStep(q)
  PROVE  /\ \/ (Busy(r)' => Busy(r)) /\ leaseOf' = leaseOf
            \/ TakeLock(r)
            \/ \E q \in Sweeps \ {r} : /\ leaseOf' = [leaseOf EXCEPT ![IsolateOf[q]] = q]
                                       /\ run'[r] = run[r]
            \/ \E i \in Isolates : /\ leaseOf' = [leaseOf EXCEPT ![i] = None]
                                   /\ IF IsolateOf[r] = i THEN ~Busy(r)' ELSE run'[r] = run[r]
         /\ ~(AtPhase(r, "deliver") /\ run'[r].pc = "call")
<1>0. /\ run[r] \in RunType /\ run \in [Runs -> RunType] /\ r \in Runs
      /\ r \notin Requests /\ r \notin Admins
  BY RunsType DEF TypeOK, RunType, Runs
<1>1. ASSUME NEW e \in Events, Publish(e) PROVE run'[r] = run[r] /\ leaseOf' = leaseOf
  BY <1>0, <1>1 DEF Publish, Becomes, leaseVars
<1>2. ASSUME NEW q \in Sweeps, TakeLock(q)
      PROVE  /\ AtPhase(q, "idle") /\ leaseOf' = [leaseOf EXCEPT ![IsolateOf[q]] = q]
             /\ q # r => run'[r] = run[r]
  BY <1>0, <1>2 DEF TakeLock, Becomes
<1>3. ASSUME NEW q \in Sweeps, LeaseRunsOut(q) PROVE run'[r] = run[r] /\ leaseOf' = leaseOf
  BY <1>3 DEF LeaseRunsOut
<1>4. ASSUME NEW q \in Runs, ReleaseFails(q) \/ StatementFails(q)
      PROVE  leaseOf' = leaseOf /\ (run'[r] = run[r] \/ run'[r].pc \in {"idle", "end"})
  BY <1>0, <1>4 DEF ReleaseFails, StatementFails, Becomes, leaseVars, IdleRun
<1>5. ASSUME NEW q \in Admins, Admin(q) PROVE run'[r] = run[r] /\ leaseOf' = leaseOf
  BY <1>0, <1>5 DEF Admin, StartReplay, StartRedeliver, Becomes, leaseVars
<1>6. ASSUME NEW q \in Runs, Throw(q) \/ LoseReply(q)
      PROVE  leaseOf' = leaseOf /\ (run'[r] = run[r] \/ run[r].pc \in {"call", "reply"})
  BY <1>0, <1>6 DEF Throw, LoseReply, Becomes, leaseVars, AtPhase
<1>7. ASSUME NEW d \in Deliveries, HandleLate(d) \/ BackoffOver(d)
      PROVE  run'[r] = run[r] /\ leaseOf' = leaseOf
  BY <1>7 DEF HandleLate, BackoffOver, leaseVars
<1>8. ASSUME NEW i \in Isolates, Evict(i)
      PROVE  /\ leaseOf' = [leaseOf EXCEPT ![i] = None]
             /\ IF IsolateOf[r] = i THEN run'[r] = IdleRun ELSE run'[r] = run[r]
  BY <1>0, <1>8 DEF Evict
<1>9. IdleRun.pc = "idle"
  BY DEF IdleRun
<1>10. CASE \E e \in Events : Publish(e)
  BY <1>1, <1>10 DEF Busy, AtPhase
<1>11. CASE \E q \in Sweeps : TakeLock(q)
  <2>1. PICK q \in Sweeps : TakeLock(q)
    BY <1>11
  <2>2. CASE q = r
    BY <1>2, <2>1, <2>2 DEF AtPhase
  <2>3. CASE q # r
    BY <1>2, <2>1, <2>3 DEF AtPhase
  <2> QED BY <2>2, <2>3
<1>12. CASE \E q \in Sweeps : LeaseRunsOut(q)
  BY <1>3, <1>12 DEF Busy, AtPhase
<1>13. CASE \E q \in Runs : ReleaseFails(q) \/ StatementFails(q)
  BY <1>4, <1>13 DEF Busy, AtPhase
<1>14. CASE \E q \in Admins : Admin(q)
  BY <1>5, <1>14 DEF Busy, AtPhase
<1>15. CASE \E q \in Runs : Throw(q) \/ LoseReply(q)
  BY <1>6, <1>15 DEF Busy, AtPhase
<1>16. CASE \E d \in Deliveries : HandleLate(d) \/ BackoffOver(d)
  BY <1>7, <1>16 DEF Busy, AtPhase
<1>17. CASE \E i \in Isolates : Evict(i)
  BY <1>8, <1>9, <1>17 DEF Busy, AtPhase
<1> QED BY <1>10, <1>11, <1>12, <1>13, <1>14, <1>15, <1>16, <1>17 DEF Next, Runs

\* Taking the lock puts the lease into the bus object, where no other sweep writes.
LEMMA LeaseRemembered ==
  ASSUME TypeOK, Remembered, Next
  PROVE  Remembered' /\ \A r \in Sweeps : LeasedCall(r)
<1> SUFFICES ASSUME NEW r \in Sweeps, Alone(r)
             PROVE  /\ Busy(r)' => leaseOf'[IsolateOf[r]] = r
                    /\ AtPhase(r, "deliver") /\ run'[r].pc = "call" => r \in leases
  BY DEF Remembered, LeasedCall, Alone
<1>0. /\ r \in Runs /\ r # None /\ IsolateOf[r] \in Isolates
      /\ leaseOf \in [Isolates -> Sweeps \cup {None}] /\ Sweeps \subseteq Runs
      /\ Busy(r) => leaseOf[IsolateOf[r]] = r
      /\ \A q \in Sweeps : q # r => IsolateOf[q] # IsolateOf[r]
  BY RunsType DEF Runs, TypeOK, Remembered, Alone
<1>1. CASE RunStep(r)
  <2>1. AtPhase(r, "deliver") => Busy(r)
    BY DEF AtPhase, Busy
  <2> QED BY <1>0, <1>1, <2>1, OwnStepLease DEF LeaseGone
<1>2. ASSUME NEW q \in Runs, q # r, RunStep(q)
      PROVE  /\ Busy(r)' => leaseOf'[IsolateOf[r]] = r
             /\ AtPhase(r, "deliver") /\ run'[r].pc = "call" => r \in leases
  <2>1. run'[r] = run[r]
    BY <1>0, <1>2, OneRunAtATime
  <2>2. leaseOf' = leaseOf \/ (q \in Sweeps /\ leaseOf' = [leaseOf EXCEPT ![IsolateOf[q]] = None])
    BY <1>2, OwnStepLease
  <2>3. leaseOf'[IsolateOf[r]] = leaseOf[IsolateOf[r]]
    BY <1>0, <1>2, <2>2
  <2> QED BY <1>0, <2>1, <2>3 DEF Busy, AtPhase
<1>3. CASE \A q \in Runs : ~RunStep(q)
  <2>1. ~(AtPhase(r, "deliver") /\ run'[r].pc = "call")
    BY <1>3, OtherStepsLease
  <2>2. CASE TakeLock(r)
    <3>1. leaseOf' = [leaseOf EXCEPT ![IsolateOf[r]] = r]
      BY <2>2 DEF TakeLock
    <3> QED BY <1>0, <2>1, <3>1
  <2>3. CASE (Busy(r)' => Busy(r)) /\ leaseOf' = leaseOf
    BY <1>0, <2>1, <2>3
  <2>4. ASSUME NEW q \in Sweeps \ {r}, leaseOf' = [leaseOf EXCEPT ![IsolateOf[q]] = q], run'[r] = run[r]
        PROVE  Busy(r)' => leaseOf'[IsolateOf[r]] = r
    BY <1>0, <2>4 DEF Busy
  <2>5. ASSUME NEW i \in Isolates, leaseOf' = [leaseOf EXCEPT ![i] = None],
               IF IsolateOf[r] = i THEN ~Busy(r)' ELSE run'[r] = run[r]
        PROVE  Busy(r)' => leaseOf'[IsolateOf[r]] = r
    BY <1>0, <2>5 DEF Busy
  <2> QED BY <1>3, <2>1, <2>2, <2>3, <2>4, <2>5, OtherStepsLease
<1> QED BY <1>0, <1>1, <1>2, <1>3

\* bus.ts, the lease check before each call: wherever the runtime places the runs, a
\* sweep starts a call only while its own lease runs, unless another sweep shares
\* its isolate, and with it the bus object; pumpIds runs and admins may share it.
THEOREM CallsWithinLease == Spec => CallsInLease
<1>1. Init => Remembered
  BY DEF Init, Remembered, Busy, IdleRun, Runs
<1>2. IInv /\ Remembered /\ [Next]_vars => Remembered'
  <2>1. CASE UNCHANGED vars
    BY <2>1 DEF Remembered, Busy, vars, leaseVars
  <2> QED BY <2>1, LeaseRemembered DEF IInv
<1>3. IInv /\ Remembered /\ [Next]_vars
        => [\A r \in Sweeps : LeasedCall(r)]_vars
  BY LeaseRemembered DEF IInv
<1>4. Spec => [][\A r \in Sweeps : LeasedCall(r)]_vars
  BY <1>1, <1>2, <1>3, BusInvariant, PTL DEF Spec
<1> QED BY <1>4 DEF LeasedCall, CallsInLease
=============================================================================
