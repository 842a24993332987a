------------------------------- MODULE Escrow -------------------------------
(***************************************************************************)
(* Custom orders of the marketplace and the escrow over them: the accept,  *)
(* start, delivered, confirm, dispute and cancel routes, the admin's       *)
(* decision, the auto-confirm sweep and the reconciliation, on top of the  *)
(* customer's wallet.  Money moves in one batch; what comes before it (a   *)
(* read) and after it (the order, the request, the complaint, the counts)  *)
(* are steps of their own, and a handler may die between any two.          *)
(***************************************************************************)
EXTENDS Wallet

CONSTANTS
  Requests,      \* requests on the board
  RequestOf,     \* the request an order accepts an offer of
  Tasks,         \* handlers in flight
  Cron,          \* the task that runs the community sweeps
  AutoComplete,  \* the owner enabled the auto-confirm clock
  MaxFaults,     \* bound: crashes and lost answers
  MaxToggles,    \* bound: suspensions and their ends
  NoOrder        \* a task that has nothing to do

Orders == Purchases

ASSUME OrdersOfRequests == RequestOf \in [Orders -> Requests]
ASSUME CronIsATask == Cron \in Tasks /\ NoOrder \notin Orders
ASSUME EscrowBounds ==
  AutoComplete \in BOOLEAN /\ MaxFaults \in Nat /\ MaxToggles \in Nat

VARIABLES
  escrow,        \* community_escrows.state
  order,         \* community_orders.state
  request,       \* community_requests.state
  earned,        \* merchant_ledger_entries: what an order released, commission included
  decided,       \* community_escrow_events of disputes and admin decisions
  complaint,     \* community_complaints
  outcome,       \* the dispute's mark on the merchant's reputation
  completions,   \* what an order added to completed_orders
  suspended,     \* the merchant or its store
  limbo,         \* acceptances whose batch may still be on its way
  task, faults, toggles

orderVars == <<escrow, order, request, earned, decided>>
recordVars == <<complaint, outcome, completions>>
vars == <<walletVars, orderVars, recordVars, suspended, limbo, task, faults, toggles>>

Active == {"funded", "in_progress", "merchant_marked_delivered", "disputed"}
Finished == {"completed", "cancelled", "refunded"}
OrderStates == {"none", "customer_confirmed"} \cup Active \cup Finished
SettledEscrow == {"released", "refunded", "partially_refunded"}
EscrowStates == {"none", "held", "disputed"} \cup SettledEscrow
Decisions == {"release", "refund", "partial_refund"}

IdleTask == [at |-> "idle", order |-> NoOrder, from |-> "none", decision |-> "none", kept |-> 0]

Stages == {"idle", "commit", "landed", "giveback", "release", "hold", "complete",
           "freeze", "event", "file", "money", "consequences"}

EscrowInit ==
  /\ WalletInit
  /\ escrow = [o \in Orders |-> "none"]
  /\ order = [o \in Orders |-> "none"]
  /\ request = [r \in Requests |-> "open"]
  /\ earned = [o \in Orders |-> 0]
  /\ decided = [o \in Orders |-> {}]
  /\ complaint = [o \in Orders |-> "none"]
  /\ outcome = [o \in Orders |-> "none"]
  /\ completions = [o \in Orders |-> 0]
  /\ suspended = FALSE
  /\ limbo = {}
  /\ task = [t \in Tasks |-> IdleTask]
  /\ faults = 0 /\ toggles = 0

Fault == faults < MaxFaults /\ faults' = faults + 1

Begin(t, o, stage) ==
  /\ task[t].at = "idle"
  /\ task' = [task EXCEPT ![t].at = stage, ![t].order = o]
At(t, o, stage) == task[t].at = stage /\ task[t].order = o
Goto(t, stage) == task' = [task EXCEPT ![t].at = stage]
Leave(t) == task' = [task EXCEPT ![t] = IdleTask]

RequestMoves(o, from, to) ==
  request' = [request EXCEPT ![RequestOf[o]] = IF @ \in from THEN to ELSE @]

-----------------------------------------------------------------------------
(* Acceptance *)

\* reserveEscrowFunds(): the money first.  The order's id is new.
Reserve(t, o) ==
  /\ Begin(t, o, "commit")
  /\ request[RequestOf[o]] = "open"
  /\ PlaceHold(o)
  /\ UNCHANGED <<orderVars, recordVars, suspended, limbo, faults, toggles>>

Acceptable(o) == hold[o] = "active" /\ request[RequestOf[o]] = "open"

\* The batch: the request leaves the board, the order is born funded and its
\* escrow is recorded over the reservation.
AcceptEffect(o) ==
  /\ request' = [request EXCEPT ![RequestOf[o]] = "in_progress"]
  /\ order' = [order EXCEPT ![o] = "funded"]
  /\ escrow' = [escrow EXCEPT ![o] = "held"]
  /\ UNCHANGED <<earned, decided>>

\* Fault: the request's own state is not in the batch.
AcceptAnyway(t, o) ==
  /\ At(t, o, "commit") /\ hold[o] = "active"
  /\ AcceptEffect(o) /\ Leave(t)
  /\ UNCHANGED <<walletVars, recordVars, suspended, limbo, faults, toggles>>

Accept(t, o) ==
  /\ At(t, o, "commit")
  /\ IF Acceptable(o)
     THEN AcceptEffect(o) /\ Leave(t)
     ELSE UNCHANGED orderVars /\ Goto(t, "landed")
  /\ UNCHANGED <<walletVars, recordVars, suspended, limbo, faults, toggles>>

\* An error is what the Worker was told: the batch has committed, never will, or
\* may become visible later.
AcceptUnanswered(t, o) ==
  /\ At(t, o, "commit") /\ Fault
  /\ \/ Acceptable(o) /\ AcceptEffect(o) /\ UNCHANGED limbo
     \/ UNCHANGED <<orderVars, limbo>>
     \/ limbo' = limbo \cup {o} /\ UNCHANGED orderVars
  /\ Goto(t, "landed")
  /\ UNCHANGED <<walletVars, recordVars, suspended, toggles>>

LandLate(o) ==
  /\ o \in limbo
  /\ limbo' = limbo \ {o}
  /\ IF Acceptable(o) THEN AcceptEffect(o) ELSE UNCHANGED orderVars
  /\ UNCHANGED <<walletVars, recordVars, suspended, task, faults, toggles>>

\* "Did it land?"
AskLanded(t, o) ==
  /\ At(t, o, "landed")
  /\ IF escrow[o] = "none" THEN Goto(t, "giveback") ELSE Leave(t)
  /\ UNCHANGED <<walletVars, orderVars, recordVars, suspended, limbo, faults, toggles>>

\* Fault: releaseHold() instead: whether an escrow claimed the hold is not asked
\* again inside the UPDATE.
GiveBackBlindly(o) ==
  IF hold[o] = "active" THEN ReleaseHold(o) ELSE UNCHANGED walletVars

\* releaseEscrowReservation(): only a hold no escrow is recorded over.
GiveBack(o) ==
  IF hold[o] = "active" /\ escrow[o] = "none" THEN ReleaseHold(o) ELSE UNCHANGED walletVars

ReleaseReservation(t, o) ==
  /\ At(t, o, "giveback")
  /\ GiveBack(o) /\ Leave(t)
  /\ UNCHANGED <<orderVars, recordVars, suspended, limbo, faults, toggles>>

\* Fault: only the holds of requests that left the board are looked at.
ReconcileClosed(o) ==
  /\ hold[o] = "active" /\ escrow[o] = "none" /\ request[RequestOf[o]] # "open"
  /\ GiveBack(o)
  /\ UNCHANGED <<orderVars, recordVars, suspended, limbo, task, faults, toggles>>

\* The reconciliation finds a reservation no escrow was ever recorded over.
ReconcileHold(o) ==
  /\ hold[o] = "active" /\ escrow[o] = "none"
  /\ GiveBack(o)
  /\ UNCHANGED <<orderVars, recordVars, suspended, limbo, task, faults, toggles>>

-----------------------------------------------------------------------------
(* Settlement: releaseEscrow() and refundEscrow() *)

\* Fault: settlement accepts a disputed escrow from any actor.
SettleableFromAny(admin) == {"held", "disputed"}

SettleableFrom(admin) == IF admin THEN {"held", "disputed"} ELSE {"held"}

\* Fault: the order's word is written into the escrow.
StateAfterOrder(o, kept) == IF kept = 0 THEN "cancelled" ELSE "completed"

StateAfter(o, kept) ==
  IF kept = Amount[o] THEN "released" ELSE IF kept = 0 THEN "refunded" ELSE "partially_refunded"

\* Fault: a partial refund commits the hold and forgets the credit.
MoveMoneyOneWay(o, kept) ==
  IF kept = 0 THEN ReleaseHold(o) ELSE CommitHold(o, 0)

\* The wallet's side: a full refund releases the hold, anything else commits it
\* and credits back what is not kept.
MoveMoney(o, kept) ==
  IF kept = 0 THEN ReleaseHold(o) ELSE CommitHold(o, Amount[o] - kept)

\* One batch: the flip and its fence, the customer's money, the merchant's.
Settles(o, kept, admin) ==
  /\ escrow[o] \in SettleableFrom(admin)
  /\ escrow' = [escrow EXCEPT ![o] = StateAfter(o, kept)]
  /\ earned' = [earned EXCEPT ![o] = kept]
  /\ MoveMoney(o, kept)

-----------------------------------------------------------------------------
(* The work *)

\* Work starts only on money that is still held.
StartWork(o) ==
  /\ order[o] = "funded" /\ escrow[o] = "held"
  /\ order' = [order EXCEPT ![o] = "in_progress"]
  /\ UNCHANGED <<walletVars, escrow, request, earned, decided, recordVars, suspended, limbo, task, faults, toggles>>

MarkDelivered(o) ==
  /\ order[o] = "in_progress"
  /\ order' = [order EXCEPT ![o] = "merchant_marked_delivered"]
  /\ UNCHANGED <<walletVars, escrow, request, earned, decided, recordVars, suspended, limbo, task, faults, toggles>>

\* The refund and the cancellation are one batch; a refund that is already there
\* leaves the order's half to be finished.
Cancel(o) ==
  /\ order[o] = "funded"
  /\ \/ Settles(o, 0, FALSE)
     \/ escrow[o] = "refunded" /\ UNCHANGED <<walletVars, escrow, earned>>
  /\ order' = [order EXCEPT ![o] = "cancelled"]
  /\ RequestMoves(o, {"in_progress"}, "cancelled")
  /\ UNCHANGED <<decided, recordVars, suspended, limbo, task, faults, toggles>>

-----------------------------------------------------------------------------
(* Confirmation, by the customer or by the clock *)

Confirm(t, o) ==
  /\ order[o] = "merchant_marked_delivered" /\ escrow[o] # "none"
  /\ task[t].at = "idle"
  /\ task' = [task EXCEPT ![t] = [IdleTask EXCEPT !.order = o, !.from = order[o],
                                   !.at = IF suspended THEN "hold" ELSE "release"]]
  /\ UNCHANGED <<walletVars, orderVars, recordVars, suspended, limbo, faults, toggles>>

\* Fault: only orders whose money is still held are read again.
DueHeld(o) ==
  /\ \/ order[o] = "merchant_marked_delivered" /\ AutoComplete
     \/ order[o] = "customer_confirmed"
  /\ escrow[o] = "held" /\ ~suspended

\* The clock ran out, or the customer confirmed while the merchant was suspended.
Due(o) ==
  /\ \/ order[o] = "merchant_marked_delivered" /\ AutoComplete
     \/ order[o] = "customer_confirmed"
  /\ escrow[o] \in {"held", "released"} /\ ~suspended

Sweep(o) ==
  /\ Due(o)
  /\ task[Cron].at = "idle"
  /\ task' = [task EXCEPT ![Cron] = [IdleTask EXCEPT !.order = o, !.from = order[o], !.at = "release"]]
  /\ UNCHANGED <<walletVars, orderVars, recordVars, suspended, limbo, faults, toggles>>

\* The money moves if the escrow is held, the order still reads what was read
\* and the merchant is not suspended; released money is a replay.  A suspension
\* turns the customer's confirmation into one that waits.
Release(t, o) ==
  /\ At(t, o, "release")
  /\ \/ /\ order[o] = task[t].from /\ ~suspended
        /\ Settles(o, Amount[o], FALSE)
        /\ Goto(t, "complete")
     \/ /\ escrow[o] = "released"
        /\ Goto(t, "complete") /\ UNCHANGED <<walletVars, escrow, earned>>
     \/ /\ escrow[o] = "held" /\ order[o] = task[t].from /\ suspended
        /\ IF t = Cron THEN Leave(t) ELSE Goto(t, "hold")
        /\ UNCHANGED <<walletVars, escrow, earned>>
     \/ /\ escrow[o] \notin {"held", "released"} \/ (escrow[o] = "held" /\ order[o] # task[t].from)
        /\ Leave(t) /\ UNCHANGED <<walletVars, escrow, earned>>
  /\ UNCHANGED <<order, request, decided, recordVars, suspended, limbo, faults, toggles>>

\* holdForSuspension(): the order is asked, the escrow is not.
HoldConfirmation(t, o) ==
  /\ At(t, o, "hold") /\ Leave(t)
  /\ order' = [order EXCEPT ![o] = IF @ = "merchant_marked_delivered" THEN "customer_confirmed" ELSE @]
  /\ UNCHANGED <<walletVars, escrow, request, earned, decided, recordVars, suspended, limbo, faults, toggles>>

\* Fault: the counter is not tied to the batch that completed the order.
CompleteAgain(t, o) ==
  /\ At(t, o, "complete") /\ Leave(t)
  /\ order' = [order EXCEPT ![o] =
       IF @ \in {"merchant_marked_delivered", "customer_confirmed"} THEN "completed" ELSE @]
  /\ completions' = [completions EXCEPT ![o] = @ + 1]
  /\ RequestMoves(o, {"in_progress"}, "completed")
  /\ UNCHANGED <<walletVars, escrow, earned, decided, complaint, outcome, suspended, limbo, faults, toggles>>

\* completionStatements(): counted by the batch that completes the order.
Complete(t, o) ==
  /\ At(t, o, "complete") /\ Leave(t)
  /\ IF order[o] \in {"merchant_marked_delivered", "customer_confirmed"}
     THEN /\ order' = [order EXCEPT ![o] = "completed"]
          /\ completions' = [completions EXCEPT ![o] = @ + 1]
     ELSE UNCHANGED <<order, completions>>
  /\ RequestMoves(o, {"in_progress"}, "completed")
  /\ UNCHANGED <<walletVars, escrow, earned, decided, complaint, outcome, suspended, limbo, faults, toggles>>

-----------------------------------------------------------------------------
(* Disputes *)

Dispute(t, o) ==
  /\ order[o] \in Active
  /\ Begin(t, o, "freeze")
  /\ UNCHANGED <<walletVars, orderVars, recordVars, suspended, limbo, faults, toggles>>

\* Fault: the route ignores what disputeEscrow() says.
FreezeIgnored(t, o) ==
  /\ At(t, o, "freeze") /\ Goto(t, "file")
  /\ escrow' = [escrow EXCEPT ![o] = IF @ = "held" THEN "disputed" ELSE @]
  /\ UNCHANGED <<walletVars, order, request, earned, decided, recordVars, suspended, limbo, faults, toggles>>

\* disputeEscrow(): a dispute on record, or a frozen escrow, is a replay.
Freeze(t, o) ==
  /\ At(t, o, "freeze")
  /\ IF "dispute" \in decided[o] \/ escrow[o] = "disputed"
     THEN Goto(t, "file") /\ UNCHANGED escrow
     ELSE IF escrow[o] = "held"
     THEN Goto(t, "event") /\ escrow' = [escrow EXCEPT ![o] = "disputed"]
     ELSE Leave(t) /\ UNCHANGED escrow
  /\ UNCHANGED <<walletVars, order, request, earned, decided, recordVars, suspended, limbo, faults, toggles>>

RecordDispute(t, o) ==
  /\ At(t, o, "event") /\ Goto(t, "file")
  /\ decided' = [decided EXCEPT ![o] = @ \cup {"dispute"}]
  /\ UNCHANGED <<walletVars, escrow, order, request, earned, recordVars, suspended, limbo, faults, toggles>>

\* The complaint is only filed against an order the same batch holds in disputed.
FileComplaint(t, o) ==
  /\ At(t, o, "file") /\ Leave(t)
  /\ IF order[o] \in Active
     THEN /\ order' = [order EXCEPT ![o] = "disputed"]
          /\ RequestMoves(o, {"in_progress", "disputed"}, "disputed")
          /\ complaint' = [complaint EXCEPT ![o] = "open"]
     ELSE UNCHANGED <<order, request, complaint>>
  /\ UNCHANGED <<walletVars, escrow, earned, decided, outcome, completions, suspended, limbo, faults, toggles>>

-----------------------------------------------------------------------------
(* The admin's decision *)

\* What the merchant keeps.  A partial refund may name the whole price.
Kept(o, decision) ==
  IF decision = "release" THEN {Amount[o]}
  ELSE IF decision = "refund" THEN {0} ELSE 0..(Amount[o] - 1)

\* Only a dispute is decided, unless this decision is on record already.
Resolve(t, o, decision, kept) ==
  /\ task[t].at = "idle"
  /\ decision \in decided[o] \/ escrow[o] = "disputed" \/ (escrow[o] = "held" /\ order[o] = "disputed")
  /\ task' = [task EXCEPT ![t] = [IdleTask EXCEPT !.at = "money", !.order = o,
                                   !.decision = decision, !.kept = kept]]
  /\ UNCHANGED <<walletVars, orderVars, recordVars, suspended, limbo, faults, toggles>>

\* An event under this decision's key, or an escrow that is already where a
\* release or any refund begins by looking, is a replay.
Replayed(o, decision) ==
  \/ decision \in decided[o]
  \/ escrow[o] = IF decision = "release" THEN "released" ELSE "refunded"

Decide(t, o) ==
  /\ At(t, o, "money")
  /\ \/ /\ ~Replayed(o, task[t].decision)
        /\ Settles(o, task[t].kept, TRUE)
        /\ decided' = [decided EXCEPT ![o] = @ \cup {task[t].decision}]
        /\ Goto(t, "consequences")
     \/ /\ Replayed(o, task[t].decision)
        /\ Goto(t, "consequences") /\ UNCHANGED <<walletVars, escrow, earned, decided>>
     \/ /\ ~Replayed(o, task[t].decision) /\ escrow[o] \in SettledEscrow
        /\ Leave(t) /\ UNCHANGED <<walletVars, escrow, earned, decided>>
  /\ UNCHANGED <<order, request, recordVars, suspended, limbo, faults, toggles>>

Consequences(t, o) ==
  /\ At(t, o, "consequences") /\ Leave(t)
  /\ LET refund == task[t].decision = "refund" IN
     /\ order' = [order EXCEPT ![o] =
          IF @ \in Active THEN IF refund THEN "refunded" ELSE "completed" ELSE @]
     /\ RequestMoves(o, {"in_progress", "disputed"}, IF refund THEN "cancelled" ELSE "completed")
     /\ outcome' = [outcome EXCEPT ![o] =
          IF @ # "none" THEN @ ELSE IF task[t].decision = "release" THEN "won" ELSE "lost"]
  /\ complaint' = [complaint EXCEPT ![o] = IF @ = "open" THEN "resolved" ELSE @]
  /\ UNCHANGED <<walletVars, escrow, earned, decided, completions, suspended, limbo, faults, toggles>>

-----------------------------------------------------------------------------
(* The rest of the world *)

Suspend ==
  /\ toggles < MaxToggles /\ toggles' = toggles + 1
  /\ suspended' = ~suspended
  /\ UNCHANGED <<walletVars, orderVars, recordVars, limbo, task, faults>>

Crash(t) ==
  /\ task[t].at # "idle" /\ Fault /\ Leave(t)
  /\ UNCHANGED <<walletVars, orderVars, recordVars, suspended, limbo, toggles>>

\* What else the customer does with the wallet.
UseWallet ==
  /\ WalletStep
  /\ UNCHANGED <<orderVars, recordVars, suspended, limbo, task, faults, toggles>>

Open(t, o) ==
  \/ Reserve(t, o) \/ Confirm(t, o) \/ Dispute(t, o)
  \/ \E decision \in Decisions : \E kept \in Kept(o, decision) : Resolve(t, o, decision, kept)

Continue(t, o) ==
  \/ Accept(t, o) \/ AskLanded(t, o) \/ ReleaseReservation(t, o)
  \/ Release(t, o) \/ HoldConfirmation(t, o) \/ Complete(t, o)
  \/ Freeze(t, o) \/ RecordDispute(t, o) \/ FileComplaint(t, o)
  \/ Decide(t, o) \/ Consequences(t, o)

EscrowNext ==
  \/ \E o \in Orders :
       \/ \E t \in Tasks : Continue(t, o) \/ AcceptUnanswered(t, o)
       \/ \E t \in Tasks \ {Cron} : Open(t, o)
       \/ LandLate(o) \/ ReconcileHold(o) \/ Sweep(o)
       \/ StartWork(o) \/ MarkDelivered(o) \/ Cancel(o)
  \/ \E t \in Tasks : Crash(t)
  \/ Suspend
  \/ UseWallet

EscrowSpec == EscrowInit /\ [][EscrowNext]_vars

\* The cron runs the sweeps for ever; each run goes through all the orders it
\* finds due, and through all the reservations that were left behind.  People
\* are promised to do nothing.
EscrowFairSpec ==
  /\ EscrowSpec
  /\ \A o \in Orders : /\ WF_vars(ReconcileHold(o))
                       /\ SF_vars(Sweep(o)) /\ WF_vars(Continue(Cron, o))

-----------------------------------------------------------------------------
(* Properties *)

EscrowTypeOK ==
  /\ WalletTypeOK
  /\ escrow \in [Orders -> EscrowStates]
  /\ order \in [Orders -> OrderStates]
  /\ request \in [Requests -> {"open", "in_progress", "disputed", "completed", "cancelled"}]
  /\ earned \in [Orders -> Nat]
  /\ decided \in [Orders -> SUBSET (Decisions \cup {"dispute"})]
  /\ complaint \in [Orders -> {"none", "open", "resolved"}]
  /\ outcome \in [Orders -> {"none", "won", "lost"}]
  /\ completions \in [Orders -> Nat]
  /\ suspended \in BOOLEAN /\ limbo \subseteq Orders
  /\ task \in [Tasks -> [at : Stages, order : Orders \cup {NoOrder}, from : OrderStates,
                         decision : Decisions \cup {"none"}, kept : Nat]]
  /\ faults \in Nat /\ toggles \in Nat

\* Behind every escrow is the customer's money, in the state the escrow says:
\* reserved while it is held or disputed, debited when the merchant was paid in
\* full or in part, given back after a full refund.  A lost answer, a late
\* acceptance or a give-back that races it leaves no escrow without its hold.
EscrowBacked ==
  \A o \in Orders :
    /\ escrow[o] \in {"held", "disputed"} => hold[o] = "active"
    /\ escrow[o] \in {"released", "partially_refunded"} => hold[o] = "committed" /\ tx[o] = "approved"
    /\ escrow[o] = "refunded" => hold[o] = "released"
    /\ escrow[o] = "none" => hold[o] # "committed" /\ order[o] = "none"

\* Of the acceptances that race for a request only one becomes a deal.
OneDeal ==
  \A o, p \in Orders :
    o # p /\ RequestOf[o] = RequestOf[p] => escrow[o] = "none" \/ escrow[p] = "none"

\* "A live job over money that was already back in the customer's wallet" never
\* happens: under work that is not finished the escrow is open or was settled by
\* an admin, or paid in full and waits for the handler that completes the order.
WorkIsFunded ==
  \A o \in Orders : order[o] \in {"in_progress", "merchant_marked_delivered", "customer_confirmed"} =>
    \/ escrow[o] \in {"held", "disputed"}
    \/ decided[o] \cap Decisions # {}
    \/ escrow[o] = "released" /\ order[o] # "in_progress"

\* A dispute on an order is never over money that anybody but an admin moved or
\* could still move.
DisputedIsFrozen ==
  \A o \in Orders :
    order[o] = "disputed" => escrow[o] = "disputed" \/ decided[o] \cap Decisions # {}

\* Finished orders rest on settled money, and a cancelled or refunded one on money
\* that went back.
FinishedIsSettled ==
  \A o \in Orders :
    /\ order[o] \in Finished => escrow[o] \in SettledEscrow
    /\ order[o] \in {"cancelled", "refunded"} => escrow[o] = "refunded"

\* What the order says follows what happened to the money.
OrderFollowsMoney == WorkIsFunded /\ DisputedIsFrozen /\ FinishedIsSettled

\* "The completion counts once": however many confirmations and sweeps end up in
\* the completing batch, and only over an order that is complete and was settled.
CountedOnce ==
  \A o \in Orders :
    completions[o] <= 1 /\ (completions[o] = 1 => order[o] = "completed" /\ escrow[o] = "released")

\* Settlement: agreed over reserved money, settled once, the customer's net
\* payment and the merchant's gross earnings the same figure, only an admin
\* divides it, and only when frozen.
Deal == INSTANCE Settlement WITH
  Deals <- Orders,
  Price <- Amount,
  status <- [o \in Orders |-> IF escrow[o] = "none" THEN "none" ELSE IF escrow[o] = "held" THEN "agreed"
                              ELSE IF escrow[o] = "disputed" THEN "frozen" ELSE "settled"],
  charged <- [o \in Orders |-> IF tx[o] = "approved" THEN Amount[o] - returned[o] ELSE 0],
  earned <- earned

ImplementsSettlement == Deal!SettlementSpec

\* A frozen escrow is moved by an admin's decision and by nothing else.
DisputeFreezes ==
  [][\A o \in Orders : escrow[o] = "disputed" /\ escrow'[o] # escrow[o] =>
       (decided'[o] \ decided[o]) \cap Decisions # {}]_vars

\* A reservation left behind by an acceptance that died is given back by the
\* cron, or an escrow is recorded over it.
OrphansReleased ==
  \A o \in Orders : hold[o] = "active" /\ escrow[o] = "none" ~> hold[o] # "active" \/ escrow[o] # "none"

\* Money that is due does not wait for ever: once suspensions are over, an order
\* the customer confirmed, or that the clock confirms, is completed and paid,
\* unless a dispute took it; a crash between the money and the order is made good.
Taken(o) == order[o] = "disputed" \/ escrow[o] \notin {"held", "released"}

EventuallyPaid ==
  <>[]~suspended => \A o \in Orders : Due(o) ~> order[o] = "completed" \/ Taken(o)

\* "completed when the merchant was paid (in full or in part), cancelled on a full
\* refund" (adminCommunity.ts): a completed order paid its merchant something.
CompletedIsPaid == \A o \in Orders : order[o] = "completed" => earned[o] > 0

\* "The order reads customer_confirmed and cannot be disputed ... any more. The
\* auto-confirm sweep releases it the first run after the suspension lifts"
\* (marketplace.ts): a confirmed order's money is not frozen.
ConfirmedNotDisputed == \A o \in Orders : order[o] = "customer_confirmed" => escrow[o] # "disputed"
=============================================================================
