------------------------------ MODULE Consumer ------------------------------
(***************************************************************************)
(* defineConsumer() of packages/platform-kit: the deliver() every consumer *)
(* service exposes.  The same event may be delivered by several calls at   *)
(* once (a sweep, a pumpIds, a call its caller gave up on); each looks     *)
(* whether the event is processed, runs the handler, and commits the       *)
(* handler's statements in one batch with the processed_events row, whose  *)
(* primary key decides.  EventBus takes this deliver() as one step.        *)
(***************************************************************************)
EXTENDS Integers, Sequences, FiniteSets

CONSTANTS
  Events,
  Refused,       \* forged, invalid or above the consumer's PII ceiling
  Unknown,       \* no handler or no schema in this deployment's contracts
  Clashing,      \* the handler's own statements violate a constraint
  Calls,         \* deliver() invocations in flight
  BatchSize,     \* DELIVER_MAX_EVENTS
  MaxFaults      \* bound: handlers and statements that fail

ASSUME EventClasses == Refused \cup Unknown \cup Clashing \subseteq Events
                       /\ Refused \cap Unknown = {}
ASSUME BoundsNat == BatchSize \in Nat \ {0} /\ MaxFaults \in Nat

VARIABLES
  processed,     \* the processed_events table
  applied,       \* how often the handler's statements for an event committed
  call,          \* the deliver() calls in flight
  faults

vars == <<processed, applied, call, faults>>

Outcomes == {"acked", "replayed", "retry", "refused"}

IdleCall == [pc |-> "idle", todo |-> << >>, results |-> << >>]

Init ==
  /\ processed = {}
  /\ applied = [e \in Events |-> 0]
  /\ call = [c \in Calls |-> IdleCall]
  /\ faults = 0

Current(c) == Head(call[c].todo)
At(c, pc) == call[c].pc = pc /\ call[c].todo # << >>
Goto(c, pc) == call' = [call EXCEPT ![c].pc = pc]

\* The outcome of the current event is recorded and the next one is next.
Answer(c, outcome) ==
  call' = [call EXCEPT ![c] = [pc |-> "screen", todo |-> Tail(@.todo),
                               results |-> Append(@.results, <<Head(@.todo), outcome>>)]]

Fault == faults < MaxFaults /\ faults' = faults + 1

Batches == UNION {[1..n -> Events] : n \in 1..BatchSize}

Arrive(c, batch) ==
  /\ call[c].pc = "idle"
  /\ call' = [call EXCEPT ![c] = [pc |-> "screen", todo |-> batch, results |-> << >>]]
  /\ UNCHANGED <<processed, applied, faults>>

\* The checks that come before any state is touched.  An unknown type is not
\* poison: the deployment that knows it may be minutes away.
Screen(c) ==
  /\ At(c, "screen")
  /\ IF Current(c) \in Unknown THEN Answer(c, "retry")
     ELSE IF Current(c) \in Refused THEN Answer(c, "refused")
     ELSE Goto(c, "check")
  /\ UNCHANGED <<processed, applied, faults>>

\* isProcessed(): a read before the handler, in no transaction with the batch.
CheckProcessed(c) ==
  /\ At(c, "check")
  /\ IF Current(c) \in processed THEN Answer(c, "replayed") ELSE Goto(c, "handle")
  /\ UNCHANGED <<processed, applied, faults>>

\* The handler computes its statements, or fails for now.
Handle(c) ==
  /\ At(c, "handle")
  /\ Goto(c, "commit")
  /\ UNCHANGED <<processed, applied, faults>>

\* Fault: an outcome the contract does not know.
HandlerFailsLoudly(c) ==
  /\ At(c, "handle") /\ Fault
  /\ Answer(c, "error")
  /\ UNCHANGED <<processed, applied>>

HandlerFails(c) ==
  /\ At(c, "handle") /\ Fault
  /\ Answer(c, "retry")
  /\ UNCHANGED <<processed, applied>>

\* Fault: the processed_events row is written in a batch of its own, after the
\* handler's statements.
CommitSeparately(c) ==
  /\ At(c, "commit")
  /\ Answer(c, IF Current(c) \in processed THEN "replayed" ELSE "acked")
  /\ processed' = processed \cup {Current(c)}
  /\ applied' = [applied EXCEPT ![Current(c)] = @ + 1]
  /\ UNCHANGED faults

\* One batch.  isUniqueViolation() takes every violated constraint for the one
\* on processed_events.
Commit(c) ==
  /\ At(c, "commit")
  /\ IF Current(c) \in processed \cup Clashing
     THEN /\ Answer(c, "replayed")
          /\ UNCHANGED <<processed, applied>>
     ELSE /\ Answer(c, "acked")
          /\ processed' = processed \cup {Current(c)}
          /\ applied' = [applied EXCEPT ![Current(c)] = @ + 1]
  /\ UNCHANGED faults

\* Fault: a batch that failed for any reason counts as a replay.
BatchFailsReplayed(c) ==
  /\ At(c, "commit") /\ Fault
  /\ Answer(c, "replayed")
  /\ UNCHANGED <<processed, applied>>

\* The batch fails for a passing reason.
BatchFails(c) ==
  /\ At(c, "commit") /\ Fault
  /\ Answer(c, "retry")
  /\ UNCHANGED <<processed, applied>>

\* The call is lost with what it has answered so far: isProcessed() throws, or
\* the isolate goes away.
Lose(c) ==
  /\ call[c].pc # "idle" /\ Fault
  /\ call' = [call EXCEPT ![c] = IdleCall]
  /\ UNCHANGED <<processed, applied>>

\* Every event is answered for: the results go back to the producer.
Return(c) ==
  /\ call[c].pc = "screen" /\ call[c].todo = << >>
  /\ call' = [call EXCEPT ![c] = IdleCall]
  /\ UNCHANGED <<processed, applied, faults>>

Step(c) ==
  \/ Screen(c) \/ CheckProcessed(c) \/ Handle(c) \/ HandlerFails(c)
  \/ Commit(c) \/ BatchFails(c) \/ Return(c)

Next ==
  \E c \in Calls :
    \/ \E batch \in Batches : Arrive(c, batch)
    \/ Step(c)
    \/ Lose(c)

Spec == Init /\ [][Next]_vars

-----------------------------------------------------------------------------
(* Properties *)

TypeOK ==
  /\ processed \subseteq Events
  /\ applied \in [Events -> Nat]
  /\ call \in [Calls -> [pc : {"idle", "screen", "check", "handle", "commit"},
                         todo : Seq(Events), results : Seq(Events \X Outcomes)]]
  /\ faults \in Nat

\* At-least-once delivery, exactly-once effect: however many calls deliver an
\* event at once, its statements commit with its processed_events row, and once.
AppliedOnce ==
  \A e \in Events : applied[e] = IF e \in processed THEN 1 ELSE 0

\* "A PK violation means replay" (consumer.ts): whoever is told acked or replayed
\* may forget the event, because its effect has been applied.
SettledIsApplied ==
  \A c \in Calls : \A i \in 1..Len(call[c].results) :
    call[c].results[i][2] \in {"acked", "replayed"} => applied[call[c].results[i][1]] > 0
=============================================================================
