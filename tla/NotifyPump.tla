----------------------------- MODULE NotifyPump -----------------------------
(***************************************************************************)
(* The outbox of the notifications service: messages are enqueued in the   *)
(* batch of whoever wants them sent, and pumps send them.  A pump reads a  *)
(* list of due rows and goes through it: claim by compare-and-swap on the  *)
(* attempts, screen, call the transport, write the outcome.  The cron      *)
(* starts a pump each minute; every delivery of events and every send()    *)
(* leaves another one behind in waitUntil.                                 *)
(***************************************************************************)
EXTENDS Integers, FiniteSets

CONSTANTS
  Messages,      \* outbox rows: one per event key and channel
  Blocked,       \* recipients outside the staging allowlist
  Garbled,       \* rows whose payload does not parse
  Unrouted,      \* channels without a configured transport
  Pumps,         \* pump runs that may be in flight
  Cron,          \* the one that scheduled() starts
  Limit,         \* rows a pump reads
  MaxAttempts,   \* MAX_ATTEMPTS
  MaxFaults,     \* bound: crashes, lost answers, failed claims
  MaxDeploys,    \* bound: changes of NOTIFY_DELIVERY
  None           \* no row

Rows == [msg : Messages, attempts : 0..(MaxAttempts - 1)]

ASSUME MessageClasses == Blocked \cup Garbled \cup Unrouted \subseteq Messages
ASSUME MessagesFinite == IsFiniteSet(Messages)
ASSUME CronIsAPump == Cron \in Pumps
ASSUME NotifyBounds == /\ Limit \in Nat \ {0} /\ MaxAttempts \in Nat \ {0}
                       /\ MaxFaults \in Nat /\ MaxDeploys \in Nat
ASSUME NoneIsNoRow == None \notin Rows

VARIABLES
  outbox,        \* notify_outbox: state and attempts
  created,       \* its created_at, as a rank
  log,           \* notify_deliveries: the status of a message's row
  pump,          \* the pumps in flight
  enabled,       \* NOTIFY_DELIVERY
  called,        \* history: the attempts that reached the transport
  accepted,      \* history: those the provider took
  faults, deploys

vars == <<outbox, created, log, pump, enabled, called, accepted, faults, deploys>>

Open == {"pending", "failed"}
States == Open \cup {"absent", "sent", "skipped", "dead"}
Statuses == {"none", "sent", "failed", "dead", "dropped"}
Holding == {"claimed", "answered"}

IdlePump == [at |-> "idle", rows |-> {}, row |-> None, result |-> "none"]

Init ==
  /\ outbox = [m \in Messages |-> [state |-> "absent", attempts |-> 0]]
  /\ created = [m \in Messages |-> 0]
  /\ log = [m \in Messages |-> "none"]
  /\ pump = [p \in Pumps |-> IdlePump]
  /\ enabled = FALSE
  /\ called = [m \in Messages |-> {}]
  /\ accepted = [m \in Messages |-> {}]
  /\ faults = 0 /\ deploys = 0

Fault == faults < MaxFaults /\ faults' = faults + 1

Enqueued == {m \in Messages : outbox[m].state # "absent"}

\* INSERT OR IGNORE: a second enqueue of a key changes nothing.  A message for
\* an unverified recipient is recorded as skipped.
Enqueue(m, state) ==
  /\ outbox[m].state = "absent"
  /\ outbox' = [outbox EXCEPT ![m].state = state]
  /\ created' = [created EXCEPT ![m] = Cardinality(Enqueued) + 1]
  /\ UNCHANGED <<log, pump, enabled, called, accepted, faults, deploys>>

\* Fault: rows that have exhausted their attempts stay on the list.
ClaimableForever == {m \in Messages : outbox[m].state \in Open}

Claimable ==
  {m \in Messages : outbox[m].state \in Open /\ outbox[m].attempts < MaxAttempts}

Oldest(S) ==
  {m \in S : Cardinality({k \in S : created[k] < created[m]}) < Limit}

\* The work list is read once.  Everything in it may be stale when it is used.
Start(p) ==
  /\ pump[p].at = "idle" /\ enabled
  /\ pump' = [pump EXCEPT ![p] =
       [IdlePump EXCEPT !.at = "next",
          !.rows = {[msg |-> m, attempts |-> outbox[m].attempts] : m \in Oldest(Claimable)}]]
  /\ UNCHANGED <<outbox, created, log, enabled, called, accepted, faults, deploys>>

Unchanged(r) ==
  outbox[r.msg].state \in Open /\ outbox[r.msg].attempts = r.attempts

Skip(p, r) == pump' = [pump EXCEPT ![p].rows = @ \ {r}]

Hold(p, r) ==
  pump' = [pump EXCEPT ![p].at = "claimed", ![p].rows = @ \ {r}, ![p].row = r]

\* Fault: the attempts are not compared.
ClaimBlindly(p, r) ==
  /\ pump[p].at = "next" /\ r \in pump[p].rows
  /\ IF outbox[r.msg].state \in Open
     THEN /\ outbox' = [outbox EXCEPT ![r.msg].attempts = r.attempts + 1]
          /\ Hold(p, r)
     ELSE Skip(p, r) /\ UNCHANGED outbox
  /\ UNCHANGED <<created, log, enabled, called, accepted, faults, deploys>>

\* Fault: the attempt is counted when the outcome is written, not when claimed.
ClaimUncounted(p, r) ==
  /\ pump[p].at = "next" /\ r \in pump[p].rows
  /\ IF Unchanged(r) THEN Hold(p, r) ELSE Skip(p, r)
  /\ UNCHANGED <<outbox, created, log, enabled, called, accepted, faults, deploys>>

\* claim(): the UPDATE that changes a row wins it.
Claim(p, r) ==
  /\ pump[p].at = "next" /\ r \in pump[p].rows
  /\ IF Unchanged(r)
     THEN /\ outbox' = [outbox EXCEPT ![r.msg].attempts = @ + 1]
          /\ Hold(p, r)
     ELSE Skip(p, r) /\ UNCHANGED outbox
  /\ UNCHANGED <<created, log, enabled, called, accepted, faults, deploys>>

\* An UPDATE that throws counts as a lost race, whether it took effect or not.
ClaimThrows(p, r) ==
  /\ pump[p].at = "next" /\ r \in pump[p].rows /\ Fault
  /\ \/ UNCHANGED outbox
     \/ Unchanged(r) /\ outbox' = [outbox EXCEPT ![r.msg].attempts = @ + 1]
  /\ Skip(p, r)
  /\ UNCHANGED <<created, log, enabled, called, accepted, deploys>>

\* Fault: the delivery log is written in a statement of its own, only when the
\* row did not move on.
WriteApart(p, state, status) ==
  /\ outbox' = [outbox EXCEPT ![pump[p].row.msg].state = state]
  /\ log' = IF outbox[pump[p].row.msg].attempts = pump[p].row.attempts + 1
            THEN [log EXCEPT ![pump[p].row.msg] = status] ELSE log
  /\ pump' = [pump EXCEPT ![p].at = "next", ![p].row = None, ![p].result = "none"]

\* One batch: the row's state by its id, whatever it is by now, and the upsert
\* into the delivery log.
Write(p, state, status) ==
  /\ outbox' = [outbox EXCEPT ![pump[p].row.msg].state = state]
  /\ log' = [log EXCEPT ![pump[p].row.msg] = status]
  /\ pump' = [pump EXCEPT ![p].at = "next", ![p].row = None, ![p].result = "none"]

Screened == Blocked \cup Garbled \cup Unrouted

\* What never reaches a transport: the staging guard first, then the payload,
\* then the registry.
Drop(p) ==
  /\ pump[p].at = "claimed" /\ pump[p].row.msg \in Screened
  /\ IF pump[p].row.msg \in Blocked THEN Write(p, "skipped", "dropped")
     ELSE IF pump[p].row.msg \in Garbled THEN Write(p, "dead", "dead")
     ELSE Write(p, "dead", "dropped")
  /\ UNCHANGED <<created, enabled, called, accepted, faults, deploys>>

\* transport.send(): "retry" may be tried again, "final" is disabled or not
\* retryable.
Send(p, result) ==
  /\ pump[p].at = "claimed" /\ pump[p].row.msg \notin Screened
  /\ pump' = [pump EXCEPT ![p].at = "answered", ![p].result = result]
  /\ called' = [called EXCEPT ![pump[p].row.msg] = @ \cup {pump[p].row.attempts + 1}]
  /\ accepted' = IF result = "ok"
       THEN [accepted EXCEPT ![pump[p].row.msg] = @ \cup {pump[p].row.attempts + 1}]
       ELSE accepted
  /\ UNCHANGED <<outbox, created, log, enabled, faults, deploys>>

\* The provider took the message and the answer was lost: a timeout.
SendTimesOut(p) ==
  /\ pump[p].at = "claimed" /\ pump[p].row.msg \notin Screened /\ Fault
  /\ pump' = [pump EXCEPT ![p].at = "answered", ![p].result = "retry"]
  /\ called' = [called EXCEPT ![pump[p].row.msg] = @ \cup {pump[p].row.attempts + 1}]
  /\ accepted' = [accepted EXCEPT ![pump[p].row.msg] = @ \cup {pump[p].row.attempts + 1}]
  /\ UNCHANGED <<outbox, created, log, enabled, deploys>>

Record(p) ==
  /\ pump[p].at = "answered"
  /\ IF pump[p].result = "ok" THEN Write(p, "sent", "sent")
     ELSE IF pump[p].result = "final" \/ pump[p].row.attempts + 1 >= MaxAttempts
     THEN Write(p, "dead", "dead")
     ELSE Write(p, "failed", "failed")
  /\ UNCHANGED <<created, enabled, called, accepted, faults, deploys>>

Finish(p) ==
  /\ pump[p].at = "next" /\ pump[p].rows = {}
  /\ pump' = [pump EXCEPT ![p] = IdlePump]
  /\ UNCHANGED <<outbox, created, log, enabled, called, accepted, faults, deploys>>

\* The isolate goes away, or a batch throws: the run ends where it is.
Crash(p) ==
  /\ pump[p].at # "idle" /\ Fault
  /\ pump' = [pump EXCEPT ![p] = IdlePump]
  /\ UNCHANGED <<outbox, created, log, enabled, called, accepted, deploys>>

\* The retention roll: settled rows of the delivery log only.
Prune(m) ==
  /\ log[m] \in {"sent", "dropped"}
  /\ log' = [log EXCEPT ![m] = "none"]
  /\ UNCHANGED <<outbox, created, pump, enabled, called, accepted, faults, deploys>>

\* A deployment turns the master switch.  A pump reads it when it starts.
Deploy ==
  /\ deploys < MaxDeploys /\ deploys' = deploys + 1
  /\ enabled' = ~enabled
  /\ UNCHANGED <<outbox, created, log, pump, called, accepted, faults>>

Step(p) ==
  \/ \E r \in pump[p].rows : Claim(p, r)
  \/ Drop(p)
  \/ \E result \in {"ok", "retry", "final"} : Send(p, result)
  \/ Record(p)
  \/ Finish(p)

Next ==
  \/ \E m \in Messages : Prune(m) \/ \E state \in {"pending", "skipped"} : Enqueue(m, state)
  \/ \E p \in Pumps :
       \/ Start(p) \/ Step(p) \/ SendTimesOut(p) \/ Crash(p)
       \/ \E r \in pump[p].rows : ClaimThrows(p, r)
  \/ Deploy

Spec == Init /\ [][Next]_vars

\* The platform starts the cron's pump each minute and what is not evicted runs
\* on.  The pumps of waitUntil are promised nothing.
FairSpec == Spec /\ WF_vars(Start(Cron)) /\ WF_vars(Step(Cron))

-----------------------------------------------------------------------------
(* Properties *)

TypeOK ==
  /\ outbox \in [Messages -> [state : States, attempts : 0..MaxAttempts]]
  /\ created \in [Messages -> Nat]
  /\ log \in [Messages -> Statuses]
  /\ pump \in [Pumps -> [at : {"idle", "next"} \cup Holding, rows : SUBSET Rows,
                         row : Rows \cup {None}, result : {"none", "ok", "retry", "final"}]]
  /\ \A p \in Pumps : pump[p].at \in Holding => pump[p].row \in Rows
  /\ enabled \in BOOLEAN
  /\ called \in [Messages -> SUBSET (1..MaxAttempts)]
  /\ accepted \in [Messages -> SUBSET (1..MaxAttempts)]
  /\ faults \in Nat /\ deploys \in Nat

\* "Only the processor whose UPDATE changed a row proceeds" (pump.ts): no two
\* pumps hold the same attempt of a message, and one about to call the transport
\* holds an attempt nobody has called it with.  So a message is sent at most
\* MaxAttempts times, crashes and lost answers included.
AttemptUsedOnce ==
  \A p \in Pumps : pump[p].at \in Holding =>
    LET r == pump[p].row IN
    /\ r.attempts < outbox[r.msg].attempts
    /\ pump[p].at = "claimed" => r.attempts + 1 \notin called[r.msg]
    /\ \A q \in Pumps \ {p} : pump[q].at \in Holding => pump[q].row # r

\* The delivery log and the outbox tell the same story however late an outcome is
\* written: they differ only by what the retention roll took, and nothing is
\* recorded as sent that no provider took.
LogTellsTheTruth ==
  \A m \in Messages :
    /\ outbox[m].state = "sent" => accepted[m] # {} /\ log[m] \in {"sent", "none"}
    /\ outbox[m].state = "failed" => log[m] = "failed"
    /\ outbox[m].state = "dead" => log[m] \in {"dead", "dropped"} \/ (m \in Screened /\ log[m] = "none")
    /\ outbox[m].state = "skipped" => log[m] \in {"dropped", "none"}
    /\ outbox[m].state \in {"absent", "pending"} => log[m] = "none"

\* Once delivery stays switched on every message is settled, or its last attempt
\* is used up and a run that crashed, or reported late, left it open.  The cron
\* alone sees to it.
Settled(m) ==
  \/ outbox[m].state \in {"sent", "skipped", "dead"}
  \/ outbox[m].state \in Open /\ outbox[m].attempts = MaxAttempts

EventuallySettled ==
  <>[]enabled => \A m \in Messages : m \in Enqueued ~> Settled(m)

\* "The claim-then-send order ... is the reason two concurrent pumps cannot
\* double-send" (pump.ts:4): with no crash and no lost answer, a provider takes a
\* message once.
NoDoubleSend == \A m \in Messages : Cardinality(accepted[m]) <= 1
=============================================================================
