--------------------------- MODULE Consumer_proofs ---------------------------
(***************************************************************************)
(* Exactly-once effect of a consumer, for any number of concurrent calls,  *)
(* events and faults.                                                      *)
(***************************************************************************)
EXTENDS Consumer, TLAPS

CallType == [pc : {"idle", "screen", "check", "handle", "commit"},
             todo : Seq(Events), results : Seq(Events \X Outcomes)]

IInv == TypeOK /\ AppliedOnce

-----------------------------------------------------------------------------

\* Answering for the current event leaves a well-typed call.
LEMMA AnswerType ==
  ASSUME TypeOK, NEW c \in Calls, call[c].todo # << >>,
         NEW outcome \in Outcomes, Answer(c, outcome)
  PROVE  /\ Current(c) \in Events
         /\ call' \in [Calls -> CallType]
         /\ call'[c].results = Append(call[c].results, <<Current(c), outcome>>)
         /\ \A d \in Calls \ {c} : call'[d] = call[d]
<1>1. call[c] \in CallType /\ call \in [Calls -> CallType]
  BY DEF TypeOK, CallType
<1>2. /\ Head(call[c].todo) \in Events /\ Tail(call[c].todo) \in Seq(Events)
      /\ Append(call[c].results, <<Head(call[c].todo), outcome>>) \in Seq(Events \X Outcomes)
  <2>1. call[c].todo \in Seq(Events) /\ call[c].results \in Seq(Events \X Outcomes)
    BY <1>1 DEF CallType
  <2>2. Head(call[c].todo) \in Events /\ Tail(call[c].todo) \in Seq(Events)
    BY <2>1
  <2> QED BY <2>1, <2>2
<1>3. call' = [call EXCEPT ![c] = [pc |-> "screen", todo |-> Tail(call[c].todo),
                 results |-> Append(call[c].results, <<Head(call[c].todo), outcome>>)]]
  BY DEF Answer
<1>4. [pc |-> "screen", todo |-> Tail(call[c].todo),
       results |-> Append(call[c].results, <<Head(call[c].todo), outcome>>)] \in CallType
  BY <1>2 DEF CallType
<1> QED BY <1>1, <1>2, <1>3, <1>4 DEF Current

\* Going on to the next phase keeps what the call has answered.
LEMMA GotoType ==
  ASSUME TypeOK, NEW c \in Calls,
         NEW pc \in {"idle", "screen", "check", "handle", "commit"}, Goto(c, pc)
  PROVE  /\ call' \in [Calls -> CallType]
         /\ \A d \in Calls : call'[d].results = call[d].results
BY DEF TypeOK, Goto, CallType

\* Forgetting a call, and starting one, leaves it with no answers.
LEMMA IdleType ==
  ASSUME TypeOK, NEW c \in Calls, NEW v \in CallType, v.results = << >>,
         call' = [call EXCEPT ![c] = v]
  PROVE  /\ call' \in [Calls -> CallType]
         /\ call'[c].results = << >>
         /\ \A d \in Calls \ {c} : call'[d] = call[d]
BY DEF TypeOK, CallType

\* A call that starts is well typed and has answered nothing.
LEMMA StartType ==
  ASSUME NEW batch \in Batches
  PROVE  [pc |-> "screen", todo |-> batch, results |-> << >>] \in CallType
<1>1. batch \in Seq(Events)
  <2>1. PICK n \in 1..BatchSize : batch \in [1..n -> Events]
    BY DEF Batches
  <2>2. n \in Nat
    BY <2>1, BoundsNat
  <2> QED BY <2>1, <2>2
<1>2. << >> \in Seq(Events \X Outcomes)
  OBVIOUS
<1> QED BY <1>1, <1>2 DEF CallType

\* An idle call is well typed and has answered nothing.
LEMMA IdleIsCall == IdleCall \in CallType /\ IdleCall.results = << >>
BY DEF IdleCall, CallType

-----------------------------------------------------------------------------
(* Exactly once *)

\* What one step does to a call: it goes on, starts anew, or answers for one
\* event; and to the tables: nothing, or it applies one event with its key.
StepShape(c) ==
  /\ call' \in [Calls -> CallType]
  /\ faults' \in Nat
  /\ \A d \in Calls \ {c} : call'[d].results = call[d].results
  /\ \/ /\ UNCHANGED <<processed, applied>>
        /\ \/ call'[c].results \in {call[c].results, << >>}
           \/ \E e \in Events, o \in {"retry", "refused"} :
                call'[c].results = Append(call[c].results, <<e, o>>)
           \/ \E e \in processed :
                call'[c].results = Append(call[c].results, <<e, "replayed">>)
           \/ \E e \in Clashing :
                call'[c].results = Append(call[c].results, <<e, "replayed">>)
     \/ \E e \in Events \ processed :
          /\ processed' = processed \cup {e}
          /\ applied' = [applied EXCEPT ![e] = @ + 1]
          /\ call'[c].results = Append(call[c].results, <<e, "acked">>)

\* Every operation of a call is such a step.
LEMMA EveryStepHasShape ==
  ASSUME TypeOK, NEW c \in Calls,
         (\E batch \in Batches : Arrive(c, batch)) \/ Step(c) \/ Lose(c)
  PROVE  StepShape(c)
<1> DEFINE Quiet == UNCHANGED <<processed, applied>>
<1>1. ASSUME NEW batch \in Batches, Arrive(c, batch) PROVE StepShape(c)
  <2>1. call' = [call EXCEPT ![c] = [pc |-> "screen", todo |-> batch, results |-> << >>]]
        /\ Quiet /\ faults' = faults
    BY <1>1 DEF Arrive
  <2> QED BY <2>1, StartType, IdleType DEF StepShape, TypeOK
<1>2. ASSUME call' = [call EXCEPT ![c] = IdleCall], Quiet, faults' \in Nat
      PROVE  StepShape(c)
  BY <1>2, IdleIsCall, IdleType DEF StepShape
<1>3. CASE Lose(c)
  BY <1>2, <1>3 DEF Lose, Fault, TypeOK
<1>4. CASE Return(c)
  BY <1>2, <1>4 DEF Return, TypeOK
<1>5. ASSUME NEW pc \in {"check", "handle", "commit"}, Goto(c, pc), Quiet, faults' \in Nat
      PROVE  StepShape(c)
  BY <1>5, GotoType DEF StepShape
<1>6. ASSUME NEW o \in {"retry", "refused"}, call[c].todo # << >>,
             Answer(c, o), Quiet, faults' \in Nat
      PROVE  StepShape(c)
  BY <1>6, AnswerType DEF StepShape, Outcomes
<1>7. CASE Screen(c)
  BY <1>5, <1>6, <1>7 DEF Screen, At, TypeOK
<1>8. CASE CheckProcessed(c)
  <2>1. call[c].todo # << >> /\ Quiet /\ faults' \in Nat
    BY <1>8 DEF CheckProcessed, At, TypeOK
  <2>2. CASE Current(c) \in processed /\ Answer(c, "replayed")
    BY <2>1, <2>2, AnswerType DEF StepShape, Outcomes
  <2>3. CASE Goto(c, "handle")
    BY <2>1, <2>3, <1>5
  <2> QED BY <1>8, <2>2, <2>3 DEF CheckProcessed
<1>9. CASE Handle(c)
  BY <1>5, <1>9 DEF Handle, TypeOK
<1>10. CASE HandlerFails(c) \/ BatchFails(c)
  BY <1>6, <1>10 DEF HandlerFails, BatchFails, At, Fault, TypeOK
<1>11. CASE Commit(c)
  <2>1. call[c].todo # << >> /\ faults' \in Nat
    BY <1>11 DEF Commit, At, TypeOK
  <2>2. CASE Current(c) \in processed \cup Clashing /\ Answer(c, "replayed") /\ Quiet
    BY <2>1, <2>2, AnswerType DEF StepShape, Outcomes
  <2>3. CASE /\ Current(c) \notin processed /\ Answer(c, "acked")
             /\ processed' = processed \cup {Current(c)}
             /\ applied' = [applied EXCEPT ![Current(c)] = @ + 1]
    BY <2>1, <2>3, AnswerType DEF StepShape, Outcomes
  <2> QED BY <1>11, <2>2, <2>3 DEF Commit
<1> QED BY <1>1, <1>3, <1>4, <1>7, <1>8, <1>9, <1>10, <1>11 DEF Step

\* The key and the effect stay together.
LEMMA ShapeKeepsInvariant ==
  ASSUME IInv, NEW c \in Calls, StepShape(c)
  PROVE  IInv'
<1>1. CASE UNCHANGED <<processed, applied>>
  BY <1>1 DEF IInv, TypeOK, AppliedOnce, StepShape, CallType
<1>2. ASSUME NEW e \in Events \ processed, processed' = processed \cup {e},
             applied' = [applied EXCEPT ![e] = @ + 1]
      PROVE  IInv'
  <2>1. TypeOK'
    <3>1. applied' \in [Events -> Nat] /\ processed' \subseteq Events
      BY <1>2 DEF IInv, TypeOK
    <3>2. call' \in [Calls -> CallType] /\ faults' \in Nat
      BY DEF StepShape
    <3> QED BY <3>1, <3>2 DEF TypeOK, CallType
  <2>2. AppliedOnce'
    BY <1>2 DEF IInv, TypeOK, AppliedOnce
  <2> QED BY <2>1, <2>2 DEF IInv
<1> QED BY <1>1, <1>2 DEF StepShape

\* The empty consumer satisfies the invariant, and every step keeps it.
LEMMA InvariantHolds == Spec => []IInv
<1>1. Init => IInv
  BY IdleIsCall DEF Init, IInv, TypeOK, AppliedOnce, CallType
<1>2. IInv /\ [Next]_vars => IInv'
  <2> SUFFICES ASSUME IInv, [Next]_vars PROVE IInv'
    OBVIOUS
  <2>1. ASSUME NEW c \in Calls,
               (\E batch \in Batches : Arrive(c, batch)) \/ Step(c) \/ Lose(c)
        PROVE  IInv'
    BY <2>1, EveryStepHasShape, ShapeKeepsInvariant DEF IInv
  <2>2. CASE UNCHANGED vars
    BY <2>2 DEF vars, IInv, TypeOK, AppliedOnce
  <2> QED BY <2>1, <2>2 DEF Next
<1> QED BY <1>1, <1>2, PTL DEF Spec

\* However many calls deliver an event at once, its effect commits once, with
\* its processed_events row (consumer.ts: the batch and its primary key).
THEOREM ExactlyOnce == Spec => []AppliedOnce
BY InvariantHolds, PTL DEF IInv

\* Type correctness of the consumer.
THEOREM ConsumerTypes == Spec => []TypeOK
BY InvariantHolds, PTL DEF IInv

-----------------------------------------------------------------------------
(* What an answer means *)

\* A step adds at most one answer to a call, and a settled one only for an event
\* that is applied by then.
LEMMA ShapeKeepsSettled ==
  ASSUME IInv, IInv', SettledIsApplied, Clashing = {}, NEW c \in Calls, StepShape(c)
  PROVE  SettledIsApplied'
<1>1. \A e \in Events : applied[e] > 0 => applied'[e] > 0
  <2>1. applied \in [Events -> Nat]
    BY DEF IInv, TypeOK
  <2>2. CASE UNCHANGED applied
    BY <2>2
  <2>3. ASSUME NEW e \in Events, applied' = [applied EXCEPT ![e] = @ + 1]
        PROVE  \A f \in Events : applied[f] > 0 => applied'[f] > 0
    BY <2>1, <2>3
  <2> QED BY <2>2, <2>3 DEF StepShape
<1>2. \A e \in Events : e \in processed' => applied'[e] > 0
  BY DEF IInv, AppliedOnce, TypeOK
<1>3. ASSUME NEW d \in Calls \ {c}, NEW i \in 1..Len(call'[d].results),
             call'[d].results[i][2] \in {"acked", "replayed"}
      PROVE  applied'[call'[d].results[i][1]] > 0
  <2>1. call'[d].results = call[d].results
    BY <1>3 DEF StepShape
  <2>2. call[d].results \in Seq(Events \X Outcomes)
    BY DEF IInv, TypeOK
  <2>3. call[d].results[i][1] \in Events
    BY <1>3, <2>1, <2>2
  <2> QED BY <1>1, <1>3, <2>1, <2>3 DEF SettledIsApplied
<1>4. ASSUME NEW i \in 1..Len(call'[c].results),
             call'[c].results[i][2] \in {"acked", "replayed"}
      PROVE  applied'[call'[c].results[i][1]] > 0
  <2>1. call[c].results \in Seq(Events \X Outcomes)
    BY DEF IInv, TypeOK
  <2>2. ASSUME i \in 1..Len(call[c].results), call'[c].results[i] = call[c].results[i]
        PROVE  applied'[call'[c].results[i][1]] > 0
    <3>1. call[c].results[i][1] \in Events
      BY <2>1, <2>2
    <3> QED BY <1>1, <1>4, <2>2, <3>1 DEF SettledIsApplied
  <2>3. CASE call'[c].results \in {call[c].results, << >>}
    BY <1>4, <2>2, <2>3
  <2>4. ASSUME NEW e \in Events, NEW o \in Outcomes,
               call'[c].results = Append(call[c].results, <<e, o>>),
               o \in {"acked", "replayed"} => e \in processed'
        PROVE  applied'[call'[c].results[i][1]] > 0
    <3>1. CASE i = Len(call[c].results) + 1
      <4>1. call'[c].results[i] = <<e, o>>
        BY <2>1, <2>4, <3>1
      <4> QED BY <1>2, <1>4, <2>4, <4>1
    <3>2. CASE i # Len(call[c].results) + 1
      <4>1. i \in 1..Len(call[c].results) /\ call'[c].results[i] = call[c].results[i]
        BY <1>4, <2>1, <2>4, <3>2
      <4> QED BY <2>2, <4>1
    <3> QED BY <3>1, <3>2
  <2>5. processed \subseteq Events
    BY DEF IInv, TypeOK
  <2> QED BY <2>3, <2>4, <2>5 DEF StepShape, Outcomes
<1> QED BY <1>3, <1>4 DEF SettledIsApplied

\* "A PK violation means replay" (consumer.ts), provided no handler's own
\* statements ever violate a constraint: then an event answered acked or
\* replayed has been applied.
THEOREM SettledMeansApplied ==
  ASSUME Clashing = {}
  PROVE  Spec => []SettledIsApplied
<1>1. Init => SettledIsApplied
  BY DEF Init, SettledIsApplied, IdleCall
<1>2. IInv /\ IInv' /\ SettledIsApplied /\ [Next]_vars => SettledIsApplied'
  <2> SUFFICES ASSUME IInv, IInv', SettledIsApplied, [Next]_vars
               PROVE  SettledIsApplied'
    OBVIOUS
  <2>1. ASSUME NEW c \in Calls,
               (\E batch \in Batches : Arrive(c, batch)) \/ Step(c) \/ Lose(c)
        PROVE  SettledIsApplied'
    BY <2>1, EveryStepHasShape, ShapeKeepsSettled DEF IInv
  <2>2. CASE UNCHANGED vars
    BY <2>2 DEF vars, SettledIsApplied
  <2> QED BY <2>1, <2>2 DEF Next
<1> QED BY <1>1, <1>2, InvariantHolds, PTL DEF Spec
=============================================================================
