-------------------------- MODULE NotifyPump_proofs --------------------------
(***************************************************************************)
(* No attempt of a message is used twice and the delivery log tells the    *)
(* truth, for any number of messages, of pumps that overlap, of attempts   *)
(* and of faults.                                                          *)
(***************************************************************************)
EXTENDS NotifyPump, FiniteSetTheorems, TLAPS

PumpType == [at : {"idle", "next"} \cup Holding, rows : SUBSET Rows,
             row : Rows \cup {None}, result : {"none", "ok", "retry", "final"}]

\* What a pump that holds an attempt may rely on.
HoldsAttempt(p) ==
  pump[p].at \in Holding =>
    /\ pump[p].row \in Rows
    /\ pump[p].row.attempts < outbox[pump[p].row.msg].attempts
    /\ pump[p].at = "claimed" => pump[p].row.attempts + 1 \notin called[pump[p].row.msg]
    /\ pump[p].at = "answered" /\ pump[p].result = "ok" => accepted[pump[p].row.msg] # {}

Apart(p, q) ==
  pump[p].at \in Holding /\ pump[q].at \in Holding => pump[p].row # pump[q].row

\* Nobody calls the transport with an attempt that was not claimed.
CalledIsClaimed == \A m \in Messages : called[m] \subseteq 1..outbox[m].attempts

DroppedIsScreened == \A m \in Messages : log[m] = "dropped" => m \in Screened

PumpInv ==
  /\ TypeOK
  /\ \A p \in Pumps : HoldsAttempt(p)
  /\ \A p, q \in Pumps : p # q => Apart(p, q)
  /\ CalledIsClaimed
  /\ DroppedIsScreened
  /\ LogTellsTheTruth

-----------------------------------------------------------------------------

LEMMA RowsTyped ==
  ASSUME NEW r \in Rows
  PROVE  r.msg \in Messages /\ r.attempts \in Nat /\ r.attempts < MaxAttempts
BY NotifyBounds DEF Rows

LEMMA IdleIsPump == IdlePump \in PumpType /\ IdlePump.at = "idle"
BY DEF IdlePump, PumpType

LEMMA Typed ==
  ASSUME PumpInv
  PROVE  /\ outbox \in [Messages -> [state : States, attempts : 0..MaxAttempts]]
         /\ pump \in [Pumps -> PumpType]
         /\ log \in [Messages -> Statuses]
         /\ called \in [Messages -> SUBSET (1..MaxAttempts)]
         /\ accepted \in [Messages -> SUBSET (1..MaxAttempts)]
         /\ created \in [Messages -> Nat] /\ enabled \in BOOLEAN
         /\ faults \in Nat /\ deploys \in Nat /\ MaxAttempts \in Nat \ {0}
BY NotifyBounds DEF PumpInv, TypeOK, PumpType

\* A pump goes on and nobody else does: what is left to show is about the pump.
LEMMA PumpStep ==
  ASSUME PumpInv, NEW p \in Pumps, pump' \in [Pumps -> PumpType],
         \A q \in Pumps \ {p} : pump'[q] = pump[q],
         outbox' \in [Messages -> [state : States, attempts : 0..MaxAttempts]],
         log' \in [Messages -> Statuses],
         called' \in [Messages -> SUBSET (1..MaxAttempts)],
         accepted' \in [Messages -> SUBSET (1..MaxAttempts)],
         faults' \in Nat, UNCHANGED <<created, enabled, deploys>>,
         \A m \in Messages : /\ outbox[m].attempts <= outbox'[m].attempts
                             /\ called[m] \subseteq called'[m]
                             /\ accepted[m] \subseteq accepted'[m],
         \A q \in Pumps \ {p} : pump[q].at = "claimed" /\ pump[q].row.attempts + 1 \in called'[pump[q].row.msg]
           => pump[q].row.attempts + 1 \in called[pump[q].row.msg],
         HoldsAttempt(p)', \A q \in Pumps \ {p} : Apart(p, q)',
         CalledIsClaimed', DroppedIsScreened', LogTellsTheTruth'
  PROVE  PumpInv'
<1>1. ASSUME NEW q \in Pumps \ {p} PROVE HoldsAttempt(q)'
  <2>1. HoldsAttempt(q) /\ pump'[q] = pump[q]
    BY DEF PumpInv
  <2>2. CASE pump[q].at \in Holding
    <3>1. pump[q].row \in Rows
      BY <2>1, <2>2 DEF HoldsAttempt
    <3>2. pump[q].row.msg \in Messages /\ pump[q].row.attempts \in Nat
      BY <3>1, RowsTyped
    <3>3. /\ outbox[pump[q].row.msg].attempts \in Nat
          /\ outbox'[pump[q].row.msg].attempts \in Nat
      BY <3>2, Typed
    <3> QED BY <2>1, <2>2, <3>1, <3>2, <3>3 DEF HoldsAttempt
  <2>3. CASE pump[q].at \notin Holding
    BY <2>1, <2>3 DEF HoldsAttempt
  <2> QED BY <2>2, <2>3
<1>2. \A q, r \in Pumps : q # r => Apart(q, r)'
  BY DEF PumpInv, Apart
<1>3. \A q \in Pumps : pump'[q].at \in Holding => pump'[q].row \in Rows
  BY <1>1 DEF HoldsAttempt
<1>4. TypeOK'
  BY <1>3, Typed DEF TypeOK, PumpType
<1> QED BY <1>1, <1>2, <1>4 DEF PumpInv

-----------------------------------------------------------------------------
(* The steps of a pump                                                      *)

\* Winning the compare-and-swap makes an attempt that nobody holds and nobody
\* has used.
LEMMA ClaimKeeps ==
  ASSUME PumpInv, NEW p \in Pumps, NEW r \in pump[p].rows, Claim(p, r)
  PROVE  PumpInv'
<1>1. /\ r \in Rows /\ pump[p] \in PumpType /\ pump[p].at = "next"
      /\ UNCHANGED <<created, log, enabled, called, accepted, faults, deploys>>
  BY Typed DEF PumpType, Claim
<1>2. r.msg \in Messages /\ r.attempts \in Nat /\ r.attempts < MaxAttempts
  BY <1>1, RowsTyped
<1>3. CASE Unchanged(r)
  <2>1. /\ outbox' = [outbox EXCEPT ![r.msg].attempts = @ + 1] /\ Hold(p, r)
        /\ outbox[r.msg].attempts = r.attempts
    BY <1>3 DEF Claim, Unchanged
  <2>2. /\ pump' \in [Pumps -> PumpType] /\ \A q \in Pumps \ {p} : pump'[q] = pump[q]
        /\ pump'[p].at = "claimed" /\ pump'[p].row = r
    BY <1>1, <2>1, Typed DEF Hold, PumpType, Holding
  <2>3. /\ outbox' \in [Messages -> [state : States, attempts : 0..MaxAttempts]]
        /\ outbox'[r.msg].attempts = r.attempts + 1
        /\ \A m \in Messages : /\ outbox'[m].state = outbox[m].state
                               /\ m # r.msg => outbox'[m].attempts = outbox[m].attempts
    BY <1>2, <2>1, Typed
  <2>4. \A m \in Messages : outbox[m].attempts \in Nat /\ outbox[m].attempts <= outbox'[m].attempts
    BY <1>2, <2>1, <2>3, Typed
  <2>5. r.attempts + 1 \notin called[r.msg]
    BY <1>2, <2>1 DEF PumpInv, CalledIsClaimed
  <2>6. HoldsAttempt(p)'
    BY <1>1, <1>2, <2>2, <2>3, <2>5 DEF HoldsAttempt
  <2>7. ASSUME NEW q \in Pumps \ {p} PROVE Apart(p, q)'
    BY <1>2, <2>1, <2>2 DEF PumpInv, HoldsAttempt, Apart
  <2>8. CalledIsClaimed'
    BY <1>1, <2>3, <2>4 DEF PumpInv, CalledIsClaimed
  <2>9. DroppedIsScreened' /\ LogTellsTheTruth'
    BY <1>1, <2>3 DEF PumpInv, DroppedIsScreened, LogTellsTheTruth
  <2> QED BY <1>1, <2>2, <2>3, <2>4, <2>6, <2>7, <2>8, <2>9, Typed, PumpStep
<1>4. CASE ~Unchanged(r)
  <2>1. Skip(p, r) /\ UNCHANGED outbox
    BY <1>4 DEF Claim
  <2>2. /\ pump' \in [Pumps -> PumpType] /\ \A q \in Pumps \ {p} : pump'[q] = pump[q]
        /\ pump'[p].at = "next"
    BY <1>1, <2>1, Typed DEF Skip, PumpType
  <2>3. HoldsAttempt(p)' /\ \A q \in Pumps \ {p} : Apart(p, q)'
    BY <2>2 DEF HoldsAttempt, Apart, Holding
  <2>4. CalledIsClaimed' /\ DroppedIsScreened' /\ LogTellsTheTruth'
    BY <1>1, <2>1 DEF PumpInv, CalledIsClaimed, DroppedIsScreened, LogTellsTheTruth
  <2>5. \A m \in Messages : outbox[m].attempts <= outbox'[m].attempts
    BY <2>1, Typed
  <2> QED BY <1>1, <2>1, <2>2, <2>3, <2>4, <2>5, Typed, PumpStep
<1> QED BY <1>3, <1>4

\* A claim that throws may have counted the attempt: then nobody uses it.
LEMMA ThrowKeeps ==
  ASSUME PumpInv, NEW p \in Pumps, NEW r \in pump[p].rows, ClaimThrows(p, r)
  PROVE  PumpInv'
<1>1. /\ r \in Rows /\ pump[p] \in PumpType /\ pump[p].at = "next" /\ Skip(p, r) /\ faults' \in Nat
      /\ UNCHANGED <<created, log, enabled, called, accepted, deploys>>
  BY Typed DEF PumpType, ClaimThrows, Fault
<1>2. r.msg \in Messages /\ r.attempts \in Nat /\ r.attempts < MaxAttempts
  BY <1>1, RowsTyped
<1>3. /\ outbox' \in [Messages -> [state : States, attempts : 0..MaxAttempts]]
      /\ \A m \in Messages : /\ outbox'[m].state = outbox[m].state
                             /\ outbox[m].attempts <= outbox'[m].attempts
                             /\ outbox[m].attempts \in Nat /\ outbox'[m].attempts \in Nat
  <2>1. CASE UNCHANGED outbox
    BY <2>1, Typed
  <2>2. CASE Unchanged(r) /\ outbox' = [outbox EXCEPT ![r.msg].attempts = @ + 1]
    BY <1>2, <2>2, Typed DEF Unchanged
  <2> QED BY <2>1, <2>2 DEF ClaimThrows
<1>4. /\ pump' \in [Pumps -> PumpType] /\ \A q \in Pumps \ {p} : pump'[q] = pump[q]
      /\ pump'[p].at = "next"
  BY <1>1, Typed DEF Skip, PumpType
<1>5. HoldsAttempt(p)' /\ \A q \in Pumps \ {p} : Apart(p, q)'
  BY <1>4 DEF HoldsAttempt, Apart, Holding
<1>6. CalledIsClaimed'
  BY <1>1, <1>3 DEF PumpInv, CalledIsClaimed
<1>7. DroppedIsScreened' /\ LogTellsTheTruth'
  BY <1>1, <1>3 DEF PumpInv, DroppedIsScreened, LogTellsTheTruth
<1> QED BY <1>1, <1>3, <1>4, <1>5, <1>6, <1>7, Typed, PumpStep

\* The transport is called with the attempt the pump holds, and a pump that was
\* told "ok" knows the provider took it.
LEMMA SendKeeps ==
  ASSUME PumpInv, NEW p \in Pumps,
         (\E result \in {"ok", "retry", "final"} : Send(p, result)) \/ SendTimesOut(p)
  PROVE  PumpInv'
<1> DEFINE r == pump[p].row
<1>1. /\ pump[p] \in PumpType /\ pump[p].at = "claimed"
      /\ UNCHANGED <<outbox, created, log, enabled, deploys>> /\ faults' \in Nat
      /\ called' = [called EXCEPT ![r.msg] = @ \cup {r.attempts + 1}]
  <2>1. /\ pump[p] \in PumpType /\ faults \in Nat
    BY Typed
  <2>2. CASE \E result \in {"ok", "retry", "final"} : Send(p, result)
    BY <2>1, <2>2 DEF Send
  <2>3. CASE SendTimesOut(p)
    BY <2>1, <2>3 DEF SendTimesOut, Fault
  <2> QED BY <2>2, <2>3
<1>2. r \in Rows /\ r.attempts < outbox[r.msg].attempts /\ Holding = {"claimed", "answered"}
  BY <1>1 DEF PumpInv, HoldsAttempt, Holding
<1>3. /\ r.msg \in Messages /\ r.attempts \in Nat /\ r.attempts + 1 \in 1..MaxAttempts
      /\ \A m \in Messages : outbox[m].attempts \in Nat
  BY <1>2, RowsTyped, Typed
<1>4. PICK result \in {"ok", "retry", "final"} :
        /\ pump' = [pump EXCEPT ![p].at = "answered", ![p].result = result]
        /\ \/ accepted' = [accepted EXCEPT ![r.msg] = @ \cup {r.attempts + 1}]
           \/ result # "ok" /\ accepted' = accepted
  BY DEF Send, SendTimesOut
<1>5. /\ pump' \in [Pumps -> PumpType] /\ \A q \in Pumps \ {p} : pump'[q] = pump[q]
      /\ pump'[p].at = "answered" /\ pump'[p].row = r /\ pump'[p].result = result
  BY <1>1, <1>4, Typed DEF PumpType, Holding
<1>6. /\ accepted' \in [Messages -> SUBSET (1..MaxAttempts)]
      /\ \A m \in Messages : accepted[m] \subseteq accepted'[m]
      /\ result = "ok" => accepted'[r.msg] # {}
  <2>1. CASE accepted' = [accepted EXCEPT ![r.msg] = @ \cup {r.attempts + 1}]
    <3>1. /\ accepted'[r.msg] = accepted[r.msg] \cup {r.attempts + 1}
          /\ \A m \in Messages \ {r.msg} : accepted'[m] = accepted[m]
      BY <1>3, <2>1, Typed
    <3>2. accepted' \in [Messages -> SUBSET (1..MaxAttempts)]
      BY <1>3, <2>1, Typed
    <3> QED BY <3>1, <3>2
  <2>2. CASE result # "ok" /\ accepted' = accepted
    BY <2>2, Typed
  <2> QED BY <1>4, <2>1, <2>2
<1>7. /\ called' \in [Messages -> SUBSET (1..MaxAttempts)]
      /\ called'[r.msg] = called[r.msg] \cup {r.attempts + 1}
      /\ \A m \in Messages \ {r.msg} : called'[m] = called[m]
  BY <1>1, <1>3, Typed
<1>8. ASSUME NEW q \in Pumps \ {p}, pump[q].at = "claimed",
             pump[q].row.attempts + 1 \in called'[pump[q].row.msg]
      PROVE  pump[q].row.attempts + 1 \in called[pump[q].row.msg]
  <2>1. pump[q].row # r /\ pump[q].row \in Rows
    BY <1>1, <1>2, <1>8 DEF PumpInv, Apart, HoldsAttempt
  <2>2. pump[q].row.msg = r.msg => pump[q].row.attempts # r.attempts
    BY <1>2, <2>1 DEF Rows
  <2>3. pump[q].row.msg \in Messages /\ pump[q].row.attempts \in Nat
    BY <2>1, RowsTyped
  <2> QED BY <1>3, <1>7, <1>8, <2>2, <2>3
<1>9. HoldsAttempt(p)'
  BY <1>1, <1>2, <1>5, <1>6 DEF HoldsAttempt
<1>10. \A q \in Pumps \ {p} : Apart(p, q)'
  BY <1>1, <1>2, <1>5 DEF PumpInv, Apart
<1>11. CalledIsClaimed'
  BY <1>1, <1>2, <1>3, <1>7 DEF PumpInv, CalledIsClaimed
<1>12. DroppedIsScreened' /\ LogTellsTheTruth'
  <2>1. \A m \in Messages : accepted[m] # {} => accepted'[m] # {}
    BY <1>6
  <2> QED BY <1>1, <2>1 DEF PumpInv, DroppedIsScreened, LogTellsTheTruth
<1>13. \A m \in Messages : outbox[m].attempts <= outbox'[m].attempts /\ called[m] \subseteq called'[m]
  BY <1>1, <1>3, <1>7
<1> QED BY <1>1, <1>5, <1>6, <1>7, <1>8, <1>9, <1>10, <1>11, <1>12, <1>13, Typed, PumpStep

\* Writing an outcome, however late, keeps the two tables in step.
LEMMA WriteKeeps ==
  ASSUME PumpInv, NEW p \in Pumps, pump[p].at \in Holding,
         NEW state \in {"sent", "failed", "dead", "skipped"}, NEW status \in Statuses \ {"none"},
         Write(p, state, status), UNCHANGED <<created, enabled, called, accepted, faults, deploys>>,
         state = "sent" => accepted[pump[p].row.msg] # {} /\ status = "sent",
         state = "failed" => status = "failed",
         state = "dead" => status \in {"dead", "dropped"},
         status = "dropped" => pump[p].row.msg \in Screened,
         state = "skipped" => status = "dropped"
  PROVE  PumpInv'
<1> DEFINE m == pump[p].row.msg
<1>1. pump[p] \in PumpType /\ pump[p].row \in Rows /\ m \in Messages
  BY RowsTyped, Typed DEF PumpInv, HoldsAttempt
<1>2. /\ outbox' \in [Messages -> [state : States, attempts : 0..MaxAttempts]]
      /\ outbox'[m].state = state
      /\ \A k \in Messages : /\ outbox'[k].attempts = outbox[k].attempts
                             /\ k # m => outbox'[k].state = outbox[k].state
  BY <1>1, Typed DEF Write, States, Open
<1>3. /\ log' \in [Messages -> Statuses] /\ log'[m] = status
      /\ \A k \in Messages \ {m} : log'[k] = log[k]
  BY <1>1, Typed DEF Write
<1>4. /\ pump' \in [Pumps -> PumpType] /\ pump'[p].at = "next"
      /\ \A q \in Pumps \ {p} : pump'[q] = pump[q]
  BY <1>1, Typed DEF Write, PumpType
<1>5. HoldsAttempt(p)' /\ \A q \in Pumps \ {p} : Apart(p, q)'
  BY <1>4 DEF HoldsAttempt, Apart, Holding
<1>6. CalledIsClaimed'
  BY <1>2 DEF PumpInv, CalledIsClaimed
<1>7. DroppedIsScreened' /\ LogTellsTheTruth'
  BY <1>1, <1>2, <1>3 DEF PumpInv, DroppedIsScreened, LogTellsTheTruth
<1>8. \A k \in Messages : outbox[k].attempts <= outbox'[k].attempts
  BY <1>2, Typed
<1> QED BY <1>2, <1>3, <1>4, <1>5, <1>6, <1>7, <1>8, Typed, PumpStep

LEMMA OutcomeKeeps ==
  ASSUME PumpInv, NEW p \in Pumps, Drop(p) \/ Record(p)
  PROVE  PumpInv'
<1>1. CASE Drop(p)
  <2>1. pump[p].at \in Holding /\ pump[p].row.msg \in Screened
    BY <1>1 DEF Drop, Holding
  <2>2. Write(p, "skipped", "dropped") \/ Write(p, "dead", "dead") \/ Write(p, "dead", "dropped")
    BY <1>1 DEF Drop
  <2> QED BY <1>1, <2>1, <2>2, WriteKeeps DEF Drop, Statuses
<1>2. CASE Record(p)
  <2>1. pump[p].at = "answered" /\ pump[p].at \in Holding
    BY <1>2 DEF Record, Holding
  <2>2. pump[p].result = "ok" => accepted[pump[p].row.msg] # {}
    BY <2>1 DEF PumpInv, HoldsAttempt
  <2>3. \/ pump[p].result = "ok" /\ Write(p, "sent", "sent")
        \/ Write(p, "dead", "dead") \/ Write(p, "failed", "failed")
    BY <1>2 DEF Record
  <2> QED BY <1>2, <2>1, <2>2, <2>3, WriteKeeps DEF Record, Statuses
<1> QED BY <1>1, <1>2

\* A run that starts, ends or dies holds nothing afterwards.
LEMMA RunKeeps ==
  ASSUME PumpInv, NEW p \in Pumps, Start(p) \/ Finish(p) \/ Crash(p)
  PROVE  PumpInv'
<1>1. /\ faults' \in Nat
      /\ UNCHANGED <<outbox, created, log, enabled, called, accepted, deploys>>
  BY Typed DEF Start, Finish, Crash, Fault
<1>2. PICK v \in PumpType : v.at \in {"idle", "next"} /\ pump' = [pump EXCEPT ![p] = v]
  <2>1. CASE Finish(p) \/ Crash(p)
    BY <2>1, IdleIsPump DEF Finish, Crash
  <2>2. CASE Start(p)
    <3> DEFINE rows == {[msg |-> m, attempts |-> outbox[m].attempts] : m \in Oldest(Claimable)}
    <3>1. rows \subseteq Rows
      <4>1. ASSUME NEW m \in Oldest(Claimable) PROVE [msg |-> m, attempts |-> outbox[m].attempts] \in Rows
        <5>1. m \in Messages /\ outbox[m].attempts < MaxAttempts
          BY DEF Oldest, Claimable
        <5>2. outbox[m].attempts \in 0..(MaxAttempts - 1)
          BY <5>1, Typed
        <5> QED BY <5>1, <5>2 DEF Rows
      <4> QED BY <4>1
    <3>2. [IdlePump EXCEPT !.at = "next", !.rows = rows] \in PumpType
      BY <3>1, IdleIsPump DEF PumpType
    <3>3. [IdlePump EXCEPT !.at = "next", !.rows = rows].at = "next"
      BY IdleIsPump DEF PumpType
    <3> QED BY <2>2, <3>2, <3>3 DEF Start
  <2> QED BY <2>1, <2>2
<1>3. /\ pump' \in [Pumps -> PumpType] /\ \A q \in Pumps \ {p} : pump'[q] = pump[q]
      /\ pump'[p].at \in {"idle", "next"}
  BY <1>2, Typed
<1>4. HoldsAttempt(p)' /\ \A q \in Pumps \ {p} : Apart(p, q)'
  BY <1>3 DEF HoldsAttempt, Apart, Holding
<1>5. CalledIsClaimed' /\ DroppedIsScreened' /\ LogTellsTheTruth'
  BY <1>1 DEF PumpInv, CalledIsClaimed, DroppedIsScreened, LogTellsTheTruth
<1>6. \A m \in Messages : outbox[m].attempts <= outbox'[m].attempts
  BY <1>1, Typed
<1> QED BY <1>1, <1>3, <1>4, <1>5, <1>6, Typed, PumpStep

\* Nothing that goes on around the pumps takes away what they rely on.
LEMMA AroundKeeps ==
  ASSUME PumpInv,
         \/ \E m \in Messages : Prune(m) \/ \E state \in {"pending", "skipped"} : Enqueue(m, state)
         \/ Deploy
         \/ UNCHANGED vars
  PROVE  PumpInv'
<1>1. UNCHANGED <<pump, called, accepted>> /\ faults' \in Nat
  BY Typed DEF Prune, Enqueue, Deploy, vars
<1>2. /\ outbox' \in [Messages -> [state : States, attempts : 0..MaxAttempts]]
      /\ \A m \in Messages : outbox'[m].attempts = outbox[m].attempts
  <2>1. CASE UNCHANGED outbox
    BY <2>1, Typed
  <2>2. CASE \E m \in Messages, state \in {"pending", "skipped"} : Enqueue(m, state)
    BY <2>2, Typed DEF Enqueue, States, Open
  <2> QED BY <2>1, <2>2 DEF Prune, Deploy, vars
<1>3. created' \in [Messages -> Nat]
  <2>1. IsFiniteSet(Enqueued)
    BY MessagesFinite, FS_Subset DEF Enqueued
  <2>2. Cardinality(Enqueued) + 1 \in Nat
    BY <2>1, FS_CardinalityType
  <2> QED BY <2>2, Typed DEF Prune, Enqueue, Deploy, vars
<1>4. log' \in [Messages -> Statuses] /\ enabled' \in BOOLEAN /\ deploys' \in Nat
  <2>1. log' \in [Messages -> Statuses]
    BY Typed DEF Prune, Enqueue, Deploy, vars, Statuses
  <2>2. enabled' \in BOOLEAN
    BY Typed DEF Prune, Enqueue, Deploy, vars
  <2>3. deploys' \in Nat
    BY Typed DEF Prune, Enqueue, Deploy, vars
  <2> QED BY <2>1, <2>2, <2>3
<1>5. \A p \in Pumps : HoldsAttempt(p)'
  BY <1>1, <1>2, RowsTyped DEF PumpInv, HoldsAttempt
<1>6. (\A p, q \in Pumps : p # q => Apart(p, q))' /\ CalledIsClaimed'
  <2>1. \A p, q \in Pumps : p # q => Apart(p, q)'
    BY <1>1 DEF PumpInv, Apart
  <2>2. CalledIsClaimed'
    BY <1>1, <1>2 DEF PumpInv, CalledIsClaimed
  <2> QED BY <2>1, <2>2
<1>7. TypeOK'
  BY <1>1, <1>2, <1>3, <1>4, <1>5, Typed DEF TypeOK, PumpType, HoldsAttempt
<1>8. DroppedIsScreened' /\ LogTellsTheTruth'
  <2>1. ASSUME NEW m \in Messages, Prune(m) PROVE DroppedIsScreened' /\ LogTellsTheTruth'
    <3>1. /\ log[m] \in {"sent", "dropped"} /\ log'[m] = "none" /\ UNCHANGED <<outbox, accepted>>
          /\ \A k \in Messages \ {m} : log'[k] = log[k]
      BY <2>1, Typed DEF Prune
    <3> QED BY <3>1 DEF PumpInv, DroppedIsScreened, LogTellsTheTruth
  <2>2. CASE \E m \in Messages, state \in {"pending", "skipped"} : Enqueue(m, state)
    <3>1. PICK m \in Messages, state \in {"pending", "skipped"} :
            /\ outbox[m].state = "absent" /\ outbox'[m].state = state /\ UNCHANGED <<log, accepted>>
            /\ \A k \in Messages \ {m} : outbox'[k] = outbox[k]
      BY <2>2, Typed DEF Enqueue
    <3> QED BY <3>1 DEF PumpInv, DroppedIsScreened, LogTellsTheTruth
  <2>3. CASE Deploy \/ UNCHANGED vars
    BY <2>3 DEF PumpInv, DroppedIsScreened, LogTellsTheTruth, Deploy, vars
  <2> QED BY <2>1, <2>2, <2>3
<1> QED BY <1>5, <1>6, <1>7, <1>8 DEF PumpInv

-----------------------------------------------------------------------------

LEMMA PumpKeeps == ASSUME PumpInv, [Next]_vars PROVE PumpInv'
BY ClaimKeeps, ThrowKeeps, SendKeeps, OutcomeKeeps, RunKeeps, AroundKeeps DEF Next, Step

LEMMA PumpStarts == Init => PumpInv
<1> SUFFICES ASSUME Init PROVE PumpInv
  OBVIOUS
<1>1. pump \in [Pumps -> PumpType] /\ \A p \in Pumps : pump[p].at = "idle"
  BY IdleIsPump DEF Init
<1>2. TypeOK
  <2>1. 0 \in 0..MaxAttempts /\ "absent" \in States /\ "none" \in Statuses
    BY NotifyBounds DEF States, Statuses
  <2>2. /\ outbox \in [Messages -> [state : States, attempts : 0..MaxAttempts]]
        /\ created \in [Messages -> Nat] /\ log \in [Messages -> Statuses]
        /\ called \in [Messages -> SUBSET (1..MaxAttempts)]
        /\ accepted \in [Messages -> SUBSET (1..MaxAttempts)]
    BY <2>1 DEF Init
  <2>3. enabled \in BOOLEAN /\ faults \in Nat /\ deploys \in Nat
    BY DEF Init
  <2> QED BY <1>1, <2>2, <2>3 DEF TypeOK, PumpType, Holding
<1>3. \A p \in Pumps : HoldsAttempt(p) /\ \A q \in Pumps : Apart(p, q)
  BY <1>1 DEF HoldsAttempt, Apart, Holding
<1>4. CalledIsClaimed /\ DroppedIsScreened /\ LogTellsTheTruth
  BY DEF Init, CalledIsClaimed, DroppedIsScreened, LogTellsTheTruth
<1> QED BY <1>2, <1>3, <1>4 DEF PumpInv

\* The inductive invariant: typed, every held attempt claimed, unused and held by
\* one pump, every call claimed, and log and outbox in step.
THEOREM PumpInvariant == Spec => []PumpInv
<1>1. PumpInv /\ [Next]_vars => PumpInv'
  BY PumpKeeps
<1> QED BY <1>1, PumpStarts, PTL DEF Spec

\* TypeOK: every reachable state of the outbox is typed; no row is claimed more
\* than MAX_ATTEMPTS times.
THEOREM PumpTyped == Spec => []TypeOK
BY PumpInvariant, PTL DEF PumpInv

\* AttemptUsedOnce: for any number of pumps that overlap, an attempt is held by
\* one of them and the transport is called with it once.
THEOREM AttemptsUsedOnce == Spec => []AttemptUsedOnce
<1>1. PumpInv => AttemptUsedOnce
  BY DEF PumpInv, HoldsAttempt, Apart, AttemptUsedOnce
<1> QED BY <1>1, PumpInvariant, PTL

\* LogTellsTheTruth: the delivery log and the outbox agree however late an
\* outcome is written.
THEOREM LogIsTrue == Spec => []LogTellsTheTruth
BY PumpInvariant, PTL DEF PumpInv
=============================================================================
