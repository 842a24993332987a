---------------------------- MODULE Escrow_proofs ----------------------------
(***************************************************************************)
(* The escrow's safety for any number of orders, requests, handlers in     *)
(* flight, crashes and lost answers, and any prices: an inductive          *)
(* invariant, the invariants it implies, and that the escrow implements    *)
(* both the settlement it promises and the wallet it is built on.          *)
(***************************************************************************)
EXTENDS Escrow, Wallet_proofs

Working == {"in_progress", "merchant_marked_delivered", "customer_confirmed"}
Confirmable == {"merchant_marked_delivered", "customer_confirmed"}

\* What a dispute on record means for as long as the order exists.
Frozen(o) == escrow[o] = "disputed" \/ decided[o] \cap Decisions # {}

\* What the tables say of one order fits together.
Consistent(o) ==
  /\ escrow[o] \in {"held", "disputed"} => hold[o] = "active"
  /\ escrow[o] \in {"released", "partially_refunded"} => hold[o] = "committed" /\ tx[o] = "approved"
  /\ escrow[o] = "refunded" => hold[o] = "released"
  /\ escrow[o] = "none" => hold[o] # "committed" /\ order[o] = "none"
  /\ order[o] \in Working =>
       \/ escrow[o] \in {"held", "disputed"}
       \/ decided[o] \cap Decisions # {}
       \/ escrow[o] = "released" /\ order[o] # "in_progress"
  /\ order[o] = "disputed" => Frozen(o)
  /\ order[o] \in Finished => escrow[o] \in SettledEscrow
  /\ order[o] \in {"cancelled", "refunded"} => escrow[o] = "refunded"
  /\ "dispute" \in decided[o] => Frozen(o)
  /\ decided[o] \cap Decisions # {} => escrow[o] \in SettledEscrow
  /\ "refund" \in decided[o] => escrow[o] = "refunded"
  /\ completions[o] = 0 \/ (completions[o] = 1 /\ order[o] = "completed" /\ escrow[o] = "released")

\* What a handler learned at an earlier step still holds at its next.
Knows(t) ==
  LET o == task[t].order IN
  /\ task[t].at # "idle" => o \in Orders
  /\ task[t].at = "release" => task[t].from \in Confirmable
  /\ task[t].at = "complete" => escrow[o] = "released"
  /\ task[t].at \in {"event", "file", "money"} => Frozen(o)
  /\ task[t].at = "money" => task[t].decision \in Decisions /\ task[t].kept \in Kept(o, task[t].decision)
  /\ task[t].at = "consequences" =>
       escrow[o] \in SettledEscrow /\ (task[t].decision = "refund" => escrow[o] = "refunded")

OffTheBoard == \A o \in Orders : escrow[o] # "none" => request[RequestOf[o]] # "open"

EscrowInv ==
  /\ EscrowTypeOK
  /\ RowsAgree
  /\ \A o \in Orders : Consistent(o)
  /\ OffTheBoard
  /\ OneDeal
  /\ \A t \in Tasks : Knows(t)

-----------------------------------------------------------------------------
(* What a step does to an order                                             *)

Charged(o) == IF tx[o] = "approved" THEN Amount[o] - returned[o] ELSE 0

SameMoney(o) == earned'[o] = earned[o] /\ tx'[o] = tx[o] /\ returned'[o] = returned[o]

Same(o) ==
  /\ escrow'[o] = escrow[o] /\ order'[o] = order[o] /\ hold'[o] = hold[o]
  /\ decided'[o] = decided[o] /\ completions'[o] = completions[o]
  /\ SameMoney(o)

\* The escrow goes one step of the settlement, a frozen one by a decision that
\* is recorded with it.
OrderStep(o) ==
  /\ decided[o] \subseteq decided'[o]
  /\ \/ escrow'[o] = escrow[o] /\ SameMoney(o)
     \/ escrow[o] = "none" /\ escrow'[o] = "held" /\ SameMoney(o)
     \/ escrow[o] = "held" /\ escrow'[o] = "disputed" /\ SameMoney(o)
     \/ \E kept \in 0..Amount[o] :
          /\ \/ escrow[o] = "disputed" /\ (decided'[o] \ decided[o]) \cap Decisions # {}
             \/ escrow[o] = "held" /\ kept \in {0, Amount[o]}
          /\ escrow'[o] \in SettledEscrow
          /\ earned'[o] = kept /\ Charged(o)' = kept

BoardStep(o) ==
  /\ \A r \in Requests : request[r] # "open" => request'[r] # "open"
  /\ escrow[o] = "none" /\ escrow'[o] # "none" =>
       request[RequestOf[o]] = "open" /\ request'[RequestOf[o]] # "open"

Moves(o) ==
  /\ \A p \in Orders \ {o} : Same(p)
  /\ Consistent(o)' /\ OrderStep(o) /\ BoardStep(o)

\* An order whose row no statement touched is as consistent as it was.
LEMMA SameKeeps ==
  ASSUME NEW o \in Orders, Consistent(o), Same(o)
  PROVE  Consistent(o)' /\ OrderStep(o)
BY DEF Consistent, Same, SameMoney, OrderStep, Frozen

\* Whatever one order does, all orders stay consistent and each request has
\* one deal.
LEMMA MovesKeep ==
  ASSUME EscrowInv, NEW o \in Orders, Moves(o)
  PROVE  /\ \A p \in Orders : Consistent(p)' /\ OrderStep(p)
         /\ OffTheBoard' /\ OneDeal'
<1>1. ASSUME NEW p \in Orders PROVE Consistent(p)' /\ OrderStep(p)
  <2>1. CASE p = o
    BY <2>1 DEF Moves
  <2>2. CASE p # o
    BY <2>2, SameKeeps DEF Moves, EscrowInv
  <2> QED BY <2>1, <2>2
<1>2. \A p \in Orders : RequestOf[p] \in Requests
  BY OrdersOfRequests
<1>3. \A p \in Orders \ {o} : escrow'[p] = escrow[p]
  BY DEF Moves, Same
<1>4. BoardStep(o)
  BY DEF Moves
<1>5. OffTheBoard'
  BY <1>2, <1>3, <1>4 DEF BoardStep, OffTheBoard, EscrowInv
<1>6. OneDeal'
  <2>1. SUFFICES ASSUME NEW p \in Orders, p # o, RequestOf[o] = RequestOf[p],
                        escrow'[o] # "none", escrow'[p] # "none", escrow[o] = "none"
                 PROVE  FALSE
    BY <1>3 DEF OneDeal, EscrowInv
  <2> QED BY <1>3, <1>4, <2>1 DEF BoardStep, OffTheBoard, EscrowInv
<1> QED BY <1>1, <1>5, <1>6

\* A step that touches no order's row keeps them all.
LEMMA NothingMoves ==
  ASSUME EscrowInv, \A p \in Orders : Same(p), request' = request
  PROVE  /\ \A p \in Orders : Consistent(p)' /\ OrderStep(p)
         /\ OffTheBoard' /\ OneDeal'
<1>1. \A p \in Orders : Consistent(p)' /\ OrderStep(p)
  BY SameKeeps DEF EscrowInv
<1>2. \A p \in Orders : escrow'[p] = escrow[p]
  BY DEF Same
<1> QED BY <1>1, <1>2 DEF EscrowInv, OffTheBoard, OneDeal

-----------------------------------------------------------------------------
(* What a handler knows                                                     *)

TaskType == [at : Stages, order : Orders \cup {NoOrder}, from : OrderStates,
             decision : Decisions \cup {"none"}, kept : Nat]

\* A handler that did not run keeps what it knows: settled is final and frozen
\* stays frozen, or was decided.
LEMMA WaitingKnows ==
  ASSUME EscrowInv, NEW t \in Tasks, task'[t] = task[t], \A p \in Orders : OrderStep(p)
  PROVE  Knows(t)'
<1>1. Knows(t)
  BY DEF EscrowInv
<1>2. ASSUME NEW p \in Orders
      PROVE  /\ escrow[p] \in SettledEscrow => escrow'[p] = escrow[p]
             /\ Frozen(p) => Frozen(p)'
  BY <1>2 DEF OrderStep, Frozen, SettledEscrow
<1>3. CASE task[t].at = "idle"
  BY <1>3 DEF Knows
<1>4. CASE task[t].at # "idle"
  <2>1. task[t].order \in Orders
    BY <1>1, <1>4 DEF Knows
  <2> QED BY <1>1, <1>2, <2>1 DEF Knows, SettledEscrow, Kept
<1> QED BY <1>3, <1>4

\* What the three ways of moving a handler do to it.
LEMMA GotoTask ==
  ASSUME EscrowTypeOK, NEW t \in Tasks, NEW stage \in Stages, Goto(t, stage)
  PROVE  /\ task' \in [Tasks -> TaskType]
         /\ task'[t].at = stage /\ task'[t].order = task[t].order /\ task'[t].from = task[t].from
         /\ task'[t].decision = task[t].decision /\ task'[t].kept = task[t].kept
         /\ \A u \in Tasks \ {t} : task'[u] = task[u]
BY DEF EscrowTypeOK, TaskType, Goto

LEMMA SetTask ==
  ASSUME EscrowTypeOK, NEW t \in Tasks, NEW v \in TaskType, task' = [task EXCEPT ![t] = v]
  PROVE  /\ task' \in [Tasks -> TaskType] /\ task'[t] = v
         /\ \A u \in Tasks \ {t} : task'[u] = task[u]
BY DEF EscrowTypeOK, TaskType

LEMMA IdleTasks == IdleTask \in TaskType /\ IdleTask.at = "idle"
BY DEF IdleTask, TaskType, Stages, OrderStates

LEMMA LeaveTask ==
  ASSUME EscrowTypeOK, NEW t \in Tasks, Leave(t)
  PROVE  /\ task' \in [Tasks -> TaskType] /\ task'[t].at = "idle"
         /\ \A u \in Tasks \ {t} : task'[u] = task[u]
BY SetTask, IdleTasks DEF Leave

LEMMA BeginTask ==
  ASSUME EscrowTypeOK, NEW t \in Tasks, NEW o \in Orders, NEW stage \in Stages, Begin(t, o, stage)
  PROVE  /\ task' \in [Tasks -> TaskType] /\ task'[t].at = stage /\ task'[t].order = o
         /\ \A u \in Tasks \ {t} : task'[u] = task[u]
<1>1. task \in [Tasks -> TaskType]
  BY DEF EscrowTypeOK, TaskType
<1>2. task' = [task EXCEPT ![t] = [task[t] EXCEPT !.at = stage, !.order = o]]
  BY DEF Begin
<1>3. [task[t] EXCEPT !.at = stage, !.order = o] \in TaskType
  BY <1>1 DEF TaskType
<1> QED BY <1>1, <1>2, <1>3 DEF TaskType

-----------------------------------------------------------------------------
(* The money                                                                *)

LEMMA OrdersAreHolders ==
  \A o \in Orders : o \in Holders /\ o \in Entries /\ Amount[o] \in Nat \ {0}
BY KindsApart, AmountsPositive DEF Orders

\* What else the customer does with the wallet touches no order's hold or debit.
LEMMA WalletStepApart ==
  ASSUME EscrowInv, WalletStep
  PROVE  /\ WalletTypeOK' /\ RowsAgree'
         /\ \A o \in Orders : hold'[o] = hold[o] /\ tx'[o] = tx[o] /\ returned'[o] = returned[o]
<1>1. WalletInv
  BY DEF EscrowInv, EscrowTypeOK, WalletInv
<1>2. WalletInv'
  BY <1>1, RowOperations, WithdrawalOperations DEF WalletStep
<1>3. \A o \in Orders : o \notin Deposits /\ o \notin Spends \cup Legacy /\ o \notin Withdrawals
  BY EntriesDisjoint DEF Orders
<1>4. returned' = returned
  BY DEF WalletStep, RequestDeposit, DecideDeposit, Spend, DecideLegacy, RequestWithdrawal,
         MarkWithdrawalPaid, FlagWithdrawal, ClearWithdrawal, AdvanceWithdrawal, CloseWithdrawal
<1>5. ASSUME NEW o \in Orders PROVE hold'[o] = hold[o] /\ tx'[o] = tx[o]
  BY <1>1, <1>3, OrdersAreHolders
  DEF WalletInv, WalletTypeOK, WalletStep, RequestDeposit, DecideDeposit, Spend, DecideLegacy, RequestWithdrawal,
      MarkWithdrawalPaid, FlagWithdrawal, ClearWithdrawal, AdvanceWithdrawal, CloseWithdrawal
<1> QED BY <1>2, <1>4, <1>5 DEF WalletInv

\* Reserving and giving back move one hold and no money.
LEMMA HoldMoves ==
  ASSUME EscrowInv, NEW o \in Orders, PlaceHold(o) \/ ReleaseHold(o)
  PROVE  /\ WalletTypeOK' /\ RowsAgree'
         /\ \A p \in Orders : /\ tx'[p] = tx[p] /\ returned'[p] = returned[p]
                              /\ p # o => hold'[p] = hold[p]
         /\ PlaceHold(o) => hold[o] = "none" /\ hold'[o] = "active"
         /\ ReleaseHold(o) => hold[o] = "active" /\ hold'[o] = "released"
<1>1. WalletInv /\ o \in Purchases
  BY DEF EscrowInv, EscrowTypeOK, WalletInv, Orders
<1>2. WalletInv'
  BY <1>1, PurchaseOperations
<1> QED BY <1>1, <1>2, OrdersAreHolders DEF WalletInv, WalletTypeOK, PlaceHold, ReleaseHold

\* Where a settlement leaves the escrow.
LEMMA SettledWhere ==
  ASSUME NEW o \in Orders, NEW kept \in 0..Amount[o]
  PROVE  /\ StateAfter(o, kept) \in SettledEscrow
         /\ kept = 0 => StateAfter(o, kept) = "refunded"
         /\ kept = Amount[o] => StateAfter(o, kept) = "released"
         /\ kept \notin {0, Amount[o]} => StateAfter(o, kept) = "partially_refunded"
BY OrdersAreHolders DEF StateAfter, SettledEscrow

\* A settlement moves the escrow and the money of one order, and the customer
\* pays what is kept.
LEMMA Settlements ==
  ASSUME EscrowInv, NEW o \in Orders, NEW kept \in 0..Amount[o], escrow[o] \in {"held", "disputed"},
         escrow' = [escrow EXCEPT ![o] = StateAfter(o, kept)],
         earned' = [earned EXCEPT ![o] = kept], MoveMoney(o, kept)
  PROVE  /\ WalletTypeOK' /\ RowsAgree'
         /\ escrow' \in [Orders -> EscrowStates] /\ earned' \in [Orders -> Nat]
         /\ escrow'[o] \in SettledEscrow /\ earned'[o] = kept /\ Charged(o)' = kept
         /\ escrow'[o] = StateAfter(o, kept)
         /\ IF kept = 0 THEN hold'[o] = "released"
                        ELSE hold'[o] = "committed" /\ tx'[o] = "approved"
         /\ \A p \in Orders \ {o} : /\ escrow'[p] = escrow[p] /\ hold'[p] = hold[p] /\ SameMoney(p)
<1>1. WalletInv /\ o \in Purchases /\ Amount[o] \in Nat \ {0}
  BY OrdersAreHolders DEF EscrowInv, EscrowTypeOK, WalletInv, Orders
<1>2. /\ escrow \in [Orders -> EscrowStates] /\ earned \in [Orders -> Nat]
      /\ tx \in [Entries -> {"none", "pending", "approved", "rejected"}]
      /\ hold \in [Holders -> {"none", "active", "committed", "released"}]
      /\ returned \in [Orders -> Nat]
      /\ o \in Holders /\ o \in Entries
  BY OrdersAreHolders DEF EscrowInv, EscrowTypeOK, WalletTypeOK, Orders
<1>3. /\ escrow' \in [Orders -> EscrowStates] /\ escrow'[o] = StateAfter(o, kept)
      /\ escrow'[o] \in SettledEscrow
      /\ earned' \in [Orders -> Nat] /\ earned'[o] = kept
      /\ \A p \in Orders \ {o} : escrow'[p] = escrow[p] /\ earned'[p] = earned[p]
  BY <1>1, <1>2, SettledWhere DEF EscrowStates
<1>4. CASE kept = 0
  <2>1. ReleaseHold(o)
    BY <1>4 DEF MoveMoney
  <2>2. WalletInv'
    BY <1>1, <2>1, PurchaseOperations
  <2>3. tx'[o] # "approved"
    BY <1>1, <1>2, <2>1 DEF ReleaseHold, WalletInv, RowsAgree, CommittedIsDebited
  <2> QED BY <1>2, <1>3, <1>4, <2>1, <2>2, <2>3, OrdersAreHolders
      DEF WalletInv, ReleaseHold, SameMoney, Charged
<1>5. CASE kept # 0
  <2>1. CommitHold(o, Amount[o] - kept) /\ Amount[o] - kept \in 0..(Amount[o] - 1)
    BY <1>1, <1>5 DEF MoveMoney
  <2>2. WalletInv'
    BY <1>1, <2>1, PurchaseOperations
  <2>3. returned'[o] = Amount[o] - kept /\ tx'[o] = "approved" /\ hold'[o] = "committed"
    BY <1>2, <2>1 DEF CommitHold
  <2>4. Charged(o)' = kept
    BY <1>1, <2>3 DEF Charged
  <2> QED BY <1>2, <1>3, <1>5, <2>1, <2>2, <2>3, <2>4, OrdersAreHolders
      DEF WalletInv, CommitHold, SameMoney
<1> QED BY <1>4, <1>5

-----------------------------------------------------------------------------
(* One lemma per group of operations                                        *)

\* What every step has to establish: the invariant again, and that at most one
\* order moved, as orders may.
Good ==
  /\ EscrowInv'
  /\ \A o \in Orders : OrderStep(o)
  /\ \A o, p \in Orders : o # p => Same(o) \/ Same(p)

\* A handler moved one order and itself.
LEMMA HandlerStep ==
  ASSUME EscrowInv, EscrowTypeOK', RowsAgree', NEW o \in Orders, Moves(o), NEW t \in Tasks,
         \A u \in Tasks \ {t} : task'[u] = task[u], Knows(t)'
  PROVE  Good
<1>1. \A u \in Tasks : Knows(u)'
  BY MovesKeep, WaitingKnows
<1> QED BY <1>1, MovesKeep DEF Good, EscrowInv, Moves

\* A statement outside the handlers moved one order.
LEMMA TableStep ==
  ASSUME EscrowInv, EscrowTypeOK', RowsAgree', NEW o \in Orders, Moves(o), task' = task
  PROVE  Good
<1>1. \A u \in Tasks : Knows(u)'
  BY MovesKeep, WaitingKnows
<1> QED BY <1>1, MovesKeep DEF Good, EscrowInv, Moves

\* A handler went on without touching an order's row.
LEMMA QuietStep ==
  ASSUME EscrowInv, EscrowTypeOK', RowsAgree', \A p \in Orders : Same(p), request' = request,
         NEW t \in Tasks, \A u \in Tasks \ {t} : task'[u] = task[u], Knows(t)'
  PROVE  Good
<1>1. \A u \in Tasks : Knows(u)'
  BY NothingMoves, WaitingKnows
<1> QED BY <1>1, NothingMoves DEF Good, EscrowInv

\* Nobody went on.
LEMMA IdleStep ==
  ASSUME EscrowInv, EscrowTypeOK', RowsAgree', \A p \in Orders : Same(p), request' = request,
         task' = task
  PROVE  Good
<1>1. \A u \in Tasks : Knows(u)'
  BY NothingMoves, WaitingKnows
<1> QED BY <1>1, NothingMoves DEF Good, EscrowInv

\* No variable of the wallet or of the orders changed.
LEMMA UntouchedOrders ==
  ASSUME EscrowInv, UNCHANGED <<walletVars, orderVars, completions>>
  PROVE  /\ WalletTypeOK' /\ RowsAgree'
         /\ request' = request /\ \A p \in Orders : Same(p)
BY DEF EscrowInv, EscrowTypeOK, walletVars, orderVars, WalletTypeOK, RowsAgree, CommittedIsDebited,
       Same, SameMoney

LEMMA FaultCounts == ASSUME EscrowTypeOK, Fault PROVE faults' \in Nat
BY DEF EscrowTypeOK, Fault

-----------------------------------------------------------------------------
(* Acceptance                                                               *)

\* The batch of an acceptance makes an order out of a reservation, if the request
\* is still on the board.
LEMMA AcceptMoves ==
  ASSUME EscrowInv, NEW o \in Orders, Acceptable(o), AcceptEffect(o), UNCHANGED <<walletVars, completions>>
  PROVE  /\ Moves(o)
         /\ WalletTypeOK' /\ RowsAgree'
         /\ escrow' \in [Orders -> EscrowStates] /\ order' \in [Orders -> OrderStates]
         /\ request' \in [Requests -> {"open", "in_progress", "disputed", "completed", "cancelled"}]
<1>1. /\ escrow \in [Orders -> EscrowStates] /\ order \in [Orders -> OrderStates]
      /\ request \in [Requests -> {"open", "in_progress", "disputed", "completed", "cancelled"}]
      /\ RequestOf[o] \in Requests
  BY OrdersOfRequests DEF EscrowInv, EscrowTypeOK
<1>2. escrow[o] = "none" /\ order[o] = "none" /\ hold[o] = "active"
  BY DEF EscrowInv, OffTheBoard, Acceptable, Consistent
<1>3. WalletTypeOK' /\ RowsAgree'
  BY DEF EscrowInv, EscrowTypeOK, walletVars, WalletTypeOK, RowsAgree, CommittedIsDebited
<1>4. /\ escrow' = [escrow EXCEPT ![o] = "held"] /\ order' = [order EXCEPT ![o] = "funded"]
      /\ request' = [request EXCEPT ![RequestOf[o]] = "in_progress"]
      /\ UNCHANGED <<tx, hold, wd, returned, completions, earned, decided>>
  BY DEF AcceptEffect, walletVars
<1>5. \A p \in Orders \ {o} : Same(p)
  BY <1>1, <1>4 DEF Same, SameMoney
<1>6. escrow'[o] = "held" /\ order'[o] = "funded"
  BY <1>1, <1>4
<1>7. Consistent(o)'
  BY <1>2, <1>4, <1>6 DEF EscrowInv, Consistent, Frozen, Working, Finished, SettledEscrow
<1>8. OrderStep(o)
  BY <1>2, <1>4, <1>6 DEF OrderStep, SameMoney
<1>9. BoardStep(o)
  BY <1>1, <1>4 DEF BoardStep, Acceptable
<1>10. /\ escrow' \in [Orders -> EscrowStates] /\ order' \in [Orders -> OrderStates]
       /\ request' \in [Requests -> {"open", "in_progress", "disputed", "completed", "cancelled"}]
  BY <1>1, <1>4 DEF EscrowStates, OrderStates, Active
<1> QED BY <1>3, <1>5, <1>7, <1>8, <1>9, <1>10 DEF Moves

\* Reserving takes a hold for an order that does not exist yet, giving back takes
\* it from one that never came to exist.
LEMMA ReservationMoves ==
  ASSUME EscrowInv, NEW o \in Orders, PlaceHold(o) \/ (ReleaseHold(o) /\ escrow[o] = "none"),
         UNCHANGED <<orderVars, completions>>
  PROVE  Moves(o) /\ WalletTypeOK' /\ RowsAgree'
<1>1. /\ WalletTypeOK' /\ RowsAgree'
      /\ \A p \in Orders : /\ tx'[p] = tx[p] /\ returned'[p] = returned[p]
                           /\ p # o => hold'[p] = hold[p]
      /\ hold'[o] \in {"active", "released"}
      /\ hold[o] = "none" \/ escrow[o] = "none"
  BY HoldMoves
<1>2. Consistent(o)
  BY DEF EscrowInv
<1>3. escrow[o] = "none"
  BY <1>1, <1>2 DEF EscrowInv, EscrowTypeOK, EscrowStates, SettledEscrow, Consistent
<1>4. Consistent(o)' /\ \A p \in Orders \ {o} : Same(p)
  BY <1>1, <1>2, <1>3 DEF orderVars, Consistent, Same, SameMoney, Frozen
<1>5. OrderStep(o) /\ BoardStep(o)
  BY <1>1, <1>3 DEF orderVars, OrderStep, SameMoney, BoardStep
<1> QED BY <1>1, <1>4, <1>5 DEF Moves

LEMMA AcceptanceSteps ==
  ASSUME EscrowInv, NEW t \in Tasks, NEW o \in Orders,
         \/ Reserve(t, o) \/ Accept(t, o) \/ AcceptUnanswered(t, o) \/ AskLanded(t, o)
         \/ ReleaseReservation(t, o)
  PROVE  Good
<1>1. EscrowTypeOK /\ faults \in Nat
  BY DEF EscrowInv, EscrowTypeOK
<1>2. CASE Reserve(t, o)
  <2>1. PlaceHold(o) /\ Begin(t, o, "commit") /\ UNCHANGED <<orderVars, recordVars, suspended, limbo, faults, toggles>>
    BY <1>2 DEF Reserve
  <2>2. Moves(o) /\ WalletTypeOK' /\ RowsAgree'
    BY <2>1, ReservationMoves DEF recordVars
  <2>3. /\ task' \in [Tasks -> TaskType] /\ task'[t].at = "commit" /\ task'[t].order = o
        /\ \A u \in Tasks \ {t} : task'[u] = task[u]
    BY <1>1, <2>1, BeginTask DEF Stages
  <2>4. EscrowTypeOK'
    BY <1>1, <2>1, <2>2, <2>3 DEF EscrowTypeOK, TaskType, orderVars, recordVars
  <2>5. Knows(t)'
    BY <2>3 DEF Knows
  <2> QED BY <2>2, <2>3, <2>4, <2>5, HandlerStep
<1>3. ASSUME NEW stage \in {"idle", "landed"}, Acceptable(o), AcceptEffect(o),
             task[t].order = o, task' \in [Tasks -> TaskType], task'[t].at = stage,
             stage = "landed" => task'[t].order = o,
             \A u \in Tasks \ {t} : task'[u] = task[u],
             UNCHANGED <<walletVars, recordVars, suspended, limbo, toggles>>, faults' \in Nat
      PROVE  Good
  <2>1. /\ Moves(o) /\ WalletTypeOK' /\ RowsAgree'
        /\ escrow' \in [Orders -> EscrowStates] /\ order' \in [Orders -> OrderStates]
        /\ request' \in [Requests -> {"open", "in_progress", "disputed", "completed", "cancelled"}]
    BY <1>3, AcceptMoves DEF recordVars
  <2>2. EscrowTypeOK'
    BY <1>1, <1>3, <2>1 DEF EscrowTypeOK, TaskType, recordVars, AcceptEffect
  <2>3. Knows(t)'
    BY <1>3 DEF Knows
  <2> QED BY <1>3, <2>1, <2>2, <2>3, HandlerStep
<1>4. ASSUME NEW stage \in {"idle", "landed", "giveback"}, task[t].order = o,
             task' \in [Tasks -> TaskType], task'[t].at = stage, stage # "idle" => task'[t].order = o,
             \A u \in Tasks \ {t} : task'[u] = task[u],
             limbo' \subseteq Orders, faults' \in Nat,
             UNCHANGED <<walletVars, orderVars, recordVars, suspended, toggles>>
      PROVE  Good
  <2>1. WalletTypeOK' /\ RowsAgree' /\ request' = request /\ \A p \in Orders : Same(p)
    BY <1>4, UntouchedOrders DEF recordVars
  <2>2. EscrowTypeOK'
    BY <1>1, <1>4, <2>1 DEF EscrowTypeOK, TaskType, orderVars, recordVars
  <2>3. Knows(t)'
    BY <1>4 DEF Knows
  <2> QED BY <1>4, <2>1, <2>2, <2>3, QuietStep
<1>5. limbo \subseteq Orders /\ limbo \cup {o} \subseteq Orders
  BY <1>1 DEF EscrowTypeOK
<1>6. CASE Accept(t, o)
  <2>1. CASE Acceptable(o)
    BY <1>1, <1>3, <1>6, <2>1, LeaveTask DEF Accept, At
  <2>2. CASE ~Acceptable(o)
    <3>1. Goto(t, "landed") /\ task[t].order = o
      BY <1>6, <2>2 DEF Accept, At
    <3>2. /\ task' \in [Tasks -> TaskType] /\ task'[t].at = "landed" /\ task'[t].order = o
          /\ \A u \in Tasks \ {t} : task'[u] = task[u]
      BY <1>1, <3>1, GotoTask DEF Stages
    <3> QED BY <1>1, <1>4, <1>5, <1>6, <2>2, <3>1, <3>2 DEF Accept
  <2> QED BY <2>1, <2>2
<1>7. CASE AcceptUnanswered(t, o)
  <2>1. Goto(t, "landed") /\ task[t].order = o /\ faults' \in Nat
    BY <1>1, <1>7, FaultCounts DEF AcceptUnanswered, At
  <2>2. /\ task' \in [Tasks -> TaskType] /\ task'[t].at = "landed" /\ task'[t].order = o
        /\ \A u \in Tasks \ {t} : task'[u] = task[u]
    BY <1>1, <2>1, GotoTask DEF Stages
  <2>3. CASE Acceptable(o) /\ AcceptEffect(o) /\ UNCHANGED limbo
    BY <1>3, <1>7, <2>1, <2>2, <2>3 DEF AcceptUnanswered
  <2>4. CASE UNCHANGED orderVars /\ limbo' \subseteq Orders
    BY <1>4, <1>7, <2>1, <2>2, <2>4 DEF AcceptUnanswered
  <2> QED BY <1>5, <1>7, <2>3, <2>4 DEF AcceptUnanswered
<1>8. CASE AskLanded(t, o)
  <2>1. /\ task[t].order = o
        /\ UNCHANGED <<walletVars, orderVars, recordVars, suspended, limbo, faults, toggles>>
    BY <1>8 DEF AskLanded, At
  <2>2. CASE Goto(t, "giveback")
    <3>1. /\ task' \in [Tasks -> TaskType] /\ task'[t].at = "giveback" /\ task'[t].order = o
          /\ \A u \in Tasks \ {t} : task'[u] = task[u]
      BY <1>1, <2>1, <2>2, GotoTask DEF Stages
    <3> QED BY <1>1, <1>4, <1>5, <2>1, <3>1
  <2>3. CASE Leave(t)
    BY <1>1, <1>4, <1>5, <2>1, <2>3, LeaveTask
  <2> QED BY <1>8, <2>2, <2>3 DEF AskLanded
<1>9. CASE ReleaseReservation(t, o)
  <2>1. /\ task[t].order = o /\ Leave(t) /\ GiveBack(o)
        /\ UNCHANGED <<orderVars, recordVars, suspended, limbo, faults, toggles>>
    BY <1>9 DEF ReleaseReservation, At
  <2>2. /\ task' \in [Tasks -> TaskType] /\ task'[t].at = "idle"
        /\ \A u \in Tasks \ {t} : task'[u] = task[u]
    BY <1>1, <2>1, LeaveTask
  <2>3. CASE ReleaseHold(o) /\ escrow[o] = "none"
    <3>1. Moves(o) /\ WalletTypeOK' /\ RowsAgree'
      BY <2>1, <2>3, ReservationMoves DEF recordVars
    <3>2. EscrowTypeOK'
      BY <1>1, <2>1, <2>2, <3>1 DEF EscrowTypeOK, TaskType, orderVars, recordVars
    <3>3. Knows(t)'
      BY <2>2 DEF Knows
    <3> QED BY <2>2, <3>1, <3>2, <3>3, HandlerStep
  <2>4. CASE UNCHANGED walletVars
    BY <1>1, <1>4, <1>5, <2>1, <2>2, <2>4
  <2> QED BY <2>1, <2>3, <2>4 DEF GiveBack
<1> QED BY <1>2, <1>6, <1>7, <1>8, <1>9

\* A batch that lands late finds the reservation, the request and the task list
\* as they are by then; the reconciliation gives back what nobody claimed.
LEMMA LateSteps ==
  ASSUME EscrowInv, NEW o \in Orders, LandLate(o) \/ ReconcileHold(o)
  PROVE  Good
<1>1. EscrowTypeOK
  BY DEF EscrowInv
<1>2. ASSUME Moves(o), WalletTypeOK', RowsAgree',
             escrow' \in [Orders -> EscrowStates], order' \in [Orders -> OrderStates],
             request' \in [Requests -> {"open", "in_progress", "disputed", "completed", "cancelled"}],
             limbo' \subseteq Orders,
             UNCHANGED <<earned, decided, recordVars, suspended, task, faults, toggles>>
      PROVE  Good
  <2>1. EscrowTypeOK'
    BY <1>1, <1>2 DEF EscrowTypeOK, recordVars
  <2> QED BY <1>2, <2>1, TableStep
<1>3. CASE LandLate(o)
  <2>1. /\ limbo' \subseteq Orders
        /\ UNCHANGED <<walletVars, recordVars, suspended, task, faults, toggles>>
    BY <1>1, <1>3 DEF LandLate, EscrowTypeOK
  <2>2. CASE Acceptable(o) /\ AcceptEffect(o)
    <3>1. UNCHANGED <<earned, decided>>
      BY <2>2 DEF AcceptEffect
    <3> QED BY <1>2, <2>1, <2>2, <3>1, AcceptMoves DEF recordVars
  <2>3. CASE UNCHANGED orderVars
    <3>1. WalletTypeOK' /\ RowsAgree' /\ request' = request /\ \A p \in Orders : Same(p)
      BY <2>1, <2>3, UntouchedOrders DEF recordVars
    <3>2. EscrowTypeOK'
      BY <1>1, <2>1, <2>3, <3>1 DEF EscrowTypeOK, orderVars, recordVars
    <3> QED BY <2>1, <3>1, <3>2, IdleStep
  <2> QED BY <1>3, <2>2, <2>3 DEF LandLate
<1>4. CASE ReconcileHold(o)
  <2>1. /\ ReleaseHold(o) /\ escrow[o] = "none"
        /\ UNCHANGED <<orderVars, recordVars, suspended, limbo, task, faults, toggles>>
    BY <1>4 DEF ReconcileHold, GiveBack
  <2>2. Moves(o) /\ WalletTypeOK' /\ RowsAgree'
    BY <2>1, ReservationMoves DEF recordVars
  <2> QED BY <1>1, <1>2, <2>1, <2>2 DEF EscrowTypeOK, orderVars
<1> QED BY <1>3, <1>4

-----------------------------------------------------------------------------
(* The work and its cancellation                                            *)

RequestStates == {"open", "in_progress", "disputed", "completed", "cancelled"}

\* A request that left the board never returns to it.
LEMMA RequestsMoveOn ==
  ASSUME EscrowInv, NEW o \in Orders, NEW from, "open" \notin from,
         NEW to \in RequestStates \ {"open"}, RequestMoves(o, from, to)
  PROVE  request' \in [Requests -> RequestStates] /\ \A r \in Requests : request[r] # "open" => request'[r] # "open"
<1>1. request \in [Requests -> RequestStates] /\ RequestOf[o] \in Requests
  BY OrdersOfRequests DEF EscrowInv, EscrowTypeOK, RequestStates
<1> QED BY <1>1 DEF RequestMoves, RequestStates

LEMMA WorkSteps ==
  ASSUME EscrowInv, NEW o \in Orders, StartWork(o) \/ MarkDelivered(o) \/ Cancel(o)
  PROVE  Good
<1>1. /\ EscrowTypeOK /\ Consistent(o)
      /\ escrow \in [Orders -> EscrowStates] /\ order \in [Orders -> OrderStates]
      /\ earned \in [Orders -> Nat]
  BY DEF EscrowInv, EscrowTypeOK
<1>2. CASE StartWork(o) \/ MarkDelivered(o)
  <2>1. /\ order' \in [Orders -> OrderStates] /\ \A p \in Orders \ {o} : order'[p] = order[p]
        /\ \/ order[o] = "funded" /\ escrow[o] = "held" /\ order'[o] = "in_progress"
           \/ order[o] = "in_progress" /\ order'[o] = "merchant_marked_delivered"
        /\ UNCHANGED <<walletVars, escrow, request, earned, decided, recordVars, suspended, limbo, task, faults, toggles>>
    BY <1>1, <1>2 DEF StartWork, MarkDelivered, OrderStates, Active
  <2>2. WalletTypeOK' /\ RowsAgree'
    BY <2>1 DEF EscrowInv, EscrowTypeOK, walletVars, WalletTypeOK, RowsAgree, CommittedIsDebited
  <2>3. EscrowTypeOK'
    BY <1>1, <2>1, <2>2 DEF EscrowTypeOK, recordVars
  <2>4. Consistent(o)'
    BY <1>1, <2>1 DEF Consistent, Frozen, Working, Finished, walletVars, recordVars
  <2>5. Moves(o)
    BY <2>1, <2>4 DEF Moves, Same, SameMoney, OrderStep, BoardStep, walletVars, recordVars
  <2> QED BY <2>1, <2>2, <2>3, <2>5, TableStep
<1>3. CASE Cancel(o)
  <2>1. /\ order[o] = "funded" /\ order' = [order EXCEPT ![o] = "cancelled"]
        /\ RequestMoves(o, {"in_progress"}, "cancelled")
        /\ UNCHANGED <<decided, recordVars, suspended, limbo, task, faults, toggles>>
    BY <1>3 DEF Cancel
  <2>2. /\ request' \in [Requests -> RequestStates]
        /\ \A r \in Requests : request[r] # "open" => request'[r] # "open"
    BY <2>1, RequestsMoveOn DEF RequestStates
  <2>3. /\ order' \in [Orders -> OrderStates] /\ order'[o] = "cancelled"
        /\ \A p \in Orders \ {o} : order'[p] = order[p]
    BY <1>1, <2>1 DEF OrderStates, Finished
  <2>4. /\ WalletTypeOK' /\ RowsAgree' /\ OrderStep(o)
        /\ escrow[o] \in {"held", "refunded"} /\ escrow'[o] = "refunded" /\ hold'[o] = "released"
        /\ escrow' \in [Orders -> EscrowStates] /\ earned' \in [Orders -> Nat]
        /\ \A p \in Orders \ {o} : escrow'[p] = escrow[p] /\ hold'[p] = hold[p] /\ SameMoney(p)
    <3>1. CASE Settles(o, 0, FALSE)
      <4>1. 0 \in 0..Amount[o]
        BY OrdersAreHolders
      <4>2. /\ escrow[o] = "held" /\ MoveMoney(o, 0)
            /\ escrow' = [escrow EXCEPT ![o] = StateAfter(o, 0)] /\ earned' = [earned EXCEPT ![o] = 0]
        BY <3>1 DEF Settles, SettleableFrom
      <4>3. StateAfter(o, 0) = "refunded"
        BY <4>1, SettledWhere
      <4>4. OrderStep(o)
        BY <2>1, <4>1, <4>2, Settlements DEF OrderStep
      <4> QED BY <4>1, <4>2, <4>3, <4>4, Settlements
    <3>2. CASE escrow[o] = "refunded" /\ UNCHANGED <<walletVars, escrow, earned>>
      BY <1>1, <2>1, <3>2
      DEF EscrowInv, EscrowTypeOK, walletVars, WalletTypeOK, RowsAgree, CommittedIsDebited,
          OrderStep, SameMoney, Consistent
    <3> QED BY <1>3, <3>1, <3>2 DEF Cancel
  <2>5. EscrowTypeOK'
    BY <1>1, <2>1, <2>2, <2>3, <2>4 DEF EscrowTypeOK, recordVars, RequestStates
  <2>6. Consistent(o)'
    BY <1>1, <2>1, <2>3, <2>4 DEF Consistent, Frozen, Working, Finished, SettledEscrow, recordVars
  <2>7. Moves(o)
    BY <2>1, <2>2, <2>3, <2>4, <2>6 DEF Moves, Same, BoardStep, recordVars
  <2> QED BY <2>1, <2>4, <2>5, <2>7, TableStep
<1> QED BY <1>2, <1>3

-----------------------------------------------------------------------------
(* Confirmation                                                             *)

LEMMA ConfirmationBegins ==
  ASSUME EscrowInv, NEW t \in Tasks, NEW o \in Orders, Confirm(t, o) \/ (t = Cron /\ Sweep(o))
  PROVE  Good
<1>1. EscrowTypeOK
  BY DEF EscrowInv
<1>2. /\ order[o] \in Confirmable
      /\ UNCHANGED <<walletVars, orderVars, recordVars, suspended, limbo, faults, toggles>>
  BY DEF Confirm, Sweep, Due, Confirmable
<1>3. PICK stage \in {"hold", "release"} :
        task' = [task EXCEPT ![t] = [IdleTask EXCEPT !.order = o, !.from = order[o], !.at = stage]]
  BY DEF Confirm, Sweep
<1> DEFINE v == [IdleTask EXCEPT !.order = o, !.from = order[o], !.at = stage]
<1>4. order[o] \in OrderStates /\ stage \in Stages
  BY <1>1 DEF EscrowTypeOK, Stages
<1>5. v \in TaskType /\ v.at = stage /\ v.order = o /\ v.from = order[o]
  BY <1>4, IdleTasks DEF TaskType
<1>6. /\ task' \in [Tasks -> TaskType] /\ task'[t] = v
      /\ \A u \in Tasks \ {t} : task'[u] = task[u]
  BY <1>1, <1>3, <1>5, SetTask
<1>7. WalletTypeOK' /\ RowsAgree' /\ request' = request /\ \A p \in Orders : Same(p)
  BY <1>2, UntouchedOrders DEF recordVars
<1>8. EscrowTypeOK'
  BY <1>1, <1>2, <1>6, <1>7 DEF EscrowTypeOK, TaskType, orderVars, recordVars
<1>9. Knows(t)'
  BY <1>2, <1>5, <1>6 DEF Knows
<1> QED BY <1>6, <1>7, <1>8, <1>9, QuietStep

\* The release moves the money of an order that still reads what was read, or
\* finds it released; the completing batch comes later.
LEMMA ReleaseSteps ==
  ASSUME EscrowInv, NEW t \in Tasks, NEW o \in Orders, Release(t, o)
  PROVE  Good
<1>1. /\ EscrowTypeOK /\ Consistent(o) /\ Knows(t)
      /\ escrow \in [Orders -> EscrowStates] /\ earned \in [Orders -> Nat]
      /\ task[t].order = o /\ task[t].at = "release" /\ task[t].from \in Confirmable
  BY DEF EscrowInv, EscrowTypeOK, Release, At, Knows
<1>2. UNCHANGED <<order, request, decided, recordVars, suspended, limbo, faults, toggles>>
  BY DEF Release
<1>3. CASE order[o] = task[t].from /\ Settles(o, Amount[o], FALSE) /\ Goto(t, "complete")
  <2>1. Amount[o] \in 0..Amount[o] /\ Amount[o] # 0
    BY OrdersAreHolders
  <2>2. /\ task' \in [Tasks -> TaskType] /\ task'[t].at = "complete" /\ task'[t].order = o
        /\ \A u \in Tasks \ {t} : task'[u] = task[u]
    BY <1>1, <1>3, GotoTask DEF Stages
  <2>3. /\ escrow[o] = "held" /\ MoveMoney(o, Amount[o])
        /\ escrow' = [escrow EXCEPT ![o] = StateAfter(o, Amount[o])]
        /\ earned' = [earned EXCEPT ![o] = Amount[o]]
    BY <1>3 DEF Settles, SettleableFrom
  <2>4. /\ WalletTypeOK' /\ RowsAgree'
        /\ escrow[o] = "held" /\ escrow'[o] = "released" /\ hold'[o] = "committed" /\ tx'[o] = "approved"
        /\ escrow' \in [Orders -> EscrowStates] /\ earned' \in [Orders -> Nat]
        /\ earned'[o] = Amount[o] /\ Charged(o)' = Amount[o]
        /\ \A p \in Orders \ {o} : escrow'[p] = escrow[p] /\ hold'[p] = hold[p] /\ SameMoney(p)
    BY <2>1, <2>3, Settlements, SettledWhere
  <2>5. EscrowTypeOK'
    BY <1>1, <1>2, <2>2, <2>4 DEF EscrowTypeOK, TaskType, recordVars
  <2>6. Consistent(o)'
    BY <1>1, <1>2, <1>3, <2>4
    DEF Consistent, Frozen, Working, Confirmable, Finished, SettledEscrow, recordVars
  <2>7. OrderStep(o)
    BY <1>2, <2>1, <2>4 DEF OrderStep, SettledEscrow
  <2>8. Moves(o)
    BY <1>2, <2>4, <2>6, <2>7 DEF Moves, Same, BoardStep, recordVars
  <2>9. Knows(t)'
    BY <2>2, <2>4 DEF Knows
  <2> QED BY <2>2, <2>4, <2>5, <2>8, <2>9, HandlerStep
<1>4. CASE /\ UNCHANGED <<walletVars, escrow, earned>>
           /\ Leave(t) \/ Goto(t, "hold") \/ (Goto(t, "complete") /\ escrow[o] = "released")
  <2>1. PICK stage \in {"idle", "hold", "complete"} :
          /\ task' \in [Tasks -> TaskType] /\ task'[t].at = stage
          /\ stage # "idle" => task'[t].order = o
          /\ stage = "complete" => escrow[o] = "released"
          /\ \A u \in Tasks \ {t} : task'[u] = task[u]
    BY <1>1, <1>4, GotoTask, LeaveTask DEF Stages
  <2>2. WalletTypeOK' /\ RowsAgree' /\ request' = request /\ \A p \in Orders : Same(p)
    BY <1>2, <1>4, UntouchedOrders DEF orderVars, recordVars
  <2>3. EscrowTypeOK'
    BY <1>1, <1>2, <1>4, <2>1, <2>2 DEF EscrowTypeOK, TaskType, recordVars
  <2>4. Knows(t)'
    BY <1>4, <2>1 DEF Knows
  <2> QED BY <2>1, <2>2, <2>3, <2>4, QuietStep
<1> QED BY <1>3, <1>4 DEF Release

\* A confirmation that waits, and the completing batch, change the order's word
\* and the request's.
LEMMA ConfirmationEnds ==
  ASSUME EscrowInv, NEW t \in Tasks, NEW o \in Orders, HoldConfirmation(t, o) \/ Complete(t, o)
  PROVE  Good
<1>1. /\ EscrowTypeOK /\ Consistent(o) /\ Knows(t)
      /\ order \in [Orders -> OrderStates] /\ completions \in [Orders -> Nat]
      /\ request \in [Requests -> RequestStates]
      /\ task[t].order = o /\ Leave(t)
  BY DEF EscrowInv, EscrowTypeOK, HoldConfirmation, Complete, At, RequestStates
<1>2. /\ task' \in [Tasks -> TaskType] /\ task'[t].at = "idle"
      /\ \A u \in Tasks \ {t} : task'[u] = task[u]
  BY <1>1, LeaveTask
<1>3. /\ UNCHANGED <<walletVars, escrow, earned, decided, complaint, outcome, suspended, limbo, faults, toggles>>
      /\ request' \in [Requests -> RequestStates]
      /\ \A r \in Requests : request[r] # "open" => request'[r] # "open"
  <2>1. CASE HoldConfirmation(t, o)
    BY <1>1, <2>1 DEF HoldConfirmation, recordVars
  <2>2. CASE Complete(t, o)
    BY <2>2, RequestsMoveOn DEF Complete, RequestStates
  <2> QED BY <2>1, <2>2
<1>4. /\ order' \in [Orders -> OrderStates] /\ completions' \in [Orders -> Nat]
      /\ \A p \in Orders \ {o} : order'[p] = order[p] /\ completions'[p] = completions[p]
      /\ \/ order'[o] = order[o] /\ completions'[o] = completions[o]
         \/ /\ order[o] = "merchant_marked_delivered" /\ order'[o] = "customer_confirmed"
            /\ completions'[o] = completions[o]
         \/ /\ order[o] \in Confirmable /\ order'[o] = "completed" /\ escrow[o] = "released"
            /\ completions'[o] = completions[o] + 1
  <2>1. CASE HoldConfirmation(t, o)
    BY <1>1, <2>1 DEF HoldConfirmation, recordVars, OrderStates
  <2>2. CASE Complete(t, o)
    <3>1. escrow[o] = "released"
      BY <1>1, <2>2 DEF Complete, At, Knows
    <3> QED BY <1>1, <2>2, <3>1 DEF Complete, OrderStates, Finished, Confirmable
  <2> QED BY <2>1, <2>2
<1>5. WalletTypeOK' /\ RowsAgree'
  BY <1>3 DEF EscrowInv, EscrowTypeOK, walletVars, WalletTypeOK, RowsAgree, CommittedIsDebited
<1>6. EscrowTypeOK'
  BY <1>1, <1>2, <1>3, <1>4, <1>5 DEF EscrowTypeOK, TaskType, RequestStates
<1>7. Consistent(o)'
  BY <1>1, <1>3, <1>4
  DEF Consistent, Frozen, Working, Confirmable, Finished, SettledEscrow, walletVars
<1>8. Moves(o)
  BY <1>3, <1>4, <1>7 DEF Moves, Same, SameMoney, OrderStep, BoardStep, walletVars
<1>9. Knows(t)'
  BY <1>2 DEF Knows
<1> QED BY <1>2, <1>5, <1>6, <1>8, <1>9, HandlerStep

-----------------------------------------------------------------------------
(* Disputes                                                                 *)

LEMMA DisputeSteps ==
  ASSUME EscrowInv, NEW t \in Tasks, NEW o \in Orders,
         Dispute(t, o) \/ Freeze(t, o) \/ RecordDispute(t, o)
  PROVE  Good
<1>1. /\ EscrowTypeOK /\ Consistent(o) /\ Knows(t)
      /\ escrow \in [Orders -> EscrowStates]
      /\ decided \in [Orders -> SUBSET (Decisions \cup {"dispute"})]
  BY DEF EscrowInv, EscrowTypeOK
<1>2. /\ UNCHANGED <<walletVars, order, request, earned, recordVars, suspended, limbo, faults, toggles>>
  BY DEF Dispute, Freeze, RecordDispute, orderVars
<1>3. /\ escrow' \in [Orders -> EscrowStates]
      /\ decided' \in [Orders -> SUBSET (Decisions \cup {"dispute"})]
      /\ \A p \in Orders \ {o} : escrow'[p] = escrow[p] /\ decided'[p] = decided[p]
      /\ \/ escrow'[o] = escrow[o] /\ decided'[o] = decided[o]
         \/ escrow[o] = "held" /\ escrow'[o] = "disputed" /\ decided'[o] = decided[o]
         \/ Frozen(o) /\ escrow'[o] = escrow[o] /\ decided'[o] = decided[o] \cup {"dispute"}
  <2>1. CASE Dispute(t, o)
    BY <1>1, <2>1 DEF Dispute, orderVars
  <2>2. CASE Freeze(t, o)
    BY <1>1, <2>2 DEF Freeze, EscrowStates
  <2>3. CASE RecordDispute(t, o)
    <3>1. Frozen(o)
      BY <1>1, <2>3 DEF RecordDispute, At, Knows
    <3> QED BY <1>1, <2>3, <3>1 DEF RecordDispute
  <2> QED BY <2>1, <2>2, <2>3
<1>4. /\ task' \in [Tasks -> TaskType] /\ \A u \in Tasks \ {t} : task'[u] = task[u]
      /\ \/ task'[t].at = "idle"
         \/ task'[t].at = "freeze" /\ task'[t].order = o
         \/ task'[t].at \in {"event", "file"} /\ task'[t].order = o /\ Frozen(o)'
  <2>1. CASE Dispute(t, o)
    BY <1>1, <2>1, BeginTask DEF Dispute, Stages
  <2>2. CASE Freeze(t, o)
    <3>1. task[t].order = o
      BY <2>2 DEF Freeze, At
    <3>2. CASE Goto(t, "file") /\ UNCHANGED escrow /\ ("dispute" \in decided[o] \/ escrow[o] = "disputed")
      <4>1. Frozen(o)'
        BY <1>1, <2>2, <3>2 DEF Freeze, Consistent, Frozen
      <4> QED BY <1>1, <3>1, <3>2, <4>1, GotoTask DEF Stages
    <3>3. CASE Goto(t, "event") /\ escrow' = [escrow EXCEPT ![o] = "disputed"]
      <4>1. Frozen(o)'
        BY <1>1, <3>3 DEF Frozen
      <4> QED BY <1>1, <3>1, <3>3, <4>1, GotoTask DEF Stages
    <3>4. CASE Leave(t)
      BY <1>1, <3>4, LeaveTask
    <3> QED BY <2>2, <3>2, <3>3, <3>4 DEF Freeze
  <2>3. CASE RecordDispute(t, o)
    <3>1. task[t].order = o /\ Goto(t, "file") /\ Frozen(o)
      BY <1>1, <2>3 DEF RecordDispute, At, Knows
    <3>2. Frozen(o)'
      BY <1>1, <2>3, <3>1 DEF RecordDispute, Frozen
    <3> QED BY <1>1, <3>1, <3>2, GotoTask DEF Stages
  <2> QED BY <2>1, <2>2, <2>3
<1>5. WalletTypeOK' /\ RowsAgree'
  BY <1>2 DEF EscrowInv, EscrowTypeOK, walletVars, WalletTypeOK, RowsAgree, CommittedIsDebited
<1>6. EscrowTypeOK'
  BY <1>1, <1>2, <1>3, <1>4, <1>5 DEF EscrowTypeOK, TaskType, recordVars
<1>7. "dispute" \notin Decisions /\ "refund" # "dispute"
  BY DEF Decisions
<1>8. Consistent(o)'
  BY <1>1, <1>2, <1>3, <1>7
  DEF Consistent, Frozen, Working, Finished, SettledEscrow, walletVars, recordVars
<1>9. Moves(o)
  BY <1>2, <1>3, <1>8 DEF Moves, Same, SameMoney, OrderStep, BoardStep, walletVars, recordVars
<1>10. Knows(t)'
  BY <1>4 DEF Knows
<1> QED BY <1>4, <1>5, <1>6, <1>9, <1>10, HandlerStep

LEMMA ComplaintSteps ==
  ASSUME EscrowInv, NEW t \in Tasks, NEW o \in Orders, FileComplaint(t, o)
  PROVE  Good
<1>1. /\ EscrowTypeOK /\ Consistent(o) /\ Knows(t)
      /\ order \in [Orders -> OrderStates] /\ request \in [Requests -> RequestStates]
      /\ complaint \in [Orders -> {"none", "open", "resolved"}]
  BY DEF EscrowInv, EscrowTypeOK, RequestStates
<1>2. /\ Frozen(o) /\ Leave(t)
      /\ UNCHANGED <<walletVars, escrow, earned, decided, outcome, completions, suspended, limbo, faults, toggles>>
  BY <1>1 DEF FileComplaint, At, Knows
<1>3. /\ task' \in [Tasks -> TaskType] /\ task'[t].at = "idle"
      /\ \A u \in Tasks \ {t} : task'[u] = task[u]
  BY <1>1, <1>2, LeaveTask
<1>4. /\ order' \in [Orders -> OrderStates] /\ complaint' \in [Orders -> {"none", "open", "resolved"}]
      /\ \A p \in Orders \ {o} : order'[p] = order[p]
      /\ order'[o] = order[o] \/ (order[o] \in Active /\ order'[o] = "disputed")
  BY <1>1 DEF FileComplaint, OrderStates, Active
<1>5. /\ request' \in [Requests -> RequestStates]
      /\ \A r \in Requests : request[r] # "open" => request'[r] # "open"
  BY <1>1, RequestsMoveOn DEF FileComplaint, RequestStates
<1>6. WalletTypeOK' /\ RowsAgree'
  BY <1>2 DEF EscrowInv, EscrowTypeOK, walletVars, WalletTypeOK, RowsAgree, CommittedIsDebited
<1>7. EscrowTypeOK'
  BY <1>1, <1>2, <1>3, <1>4, <1>5, <1>6 DEF EscrowTypeOK, TaskType, RequestStates
<1>8. Consistent(o)'
  BY <1>1, <1>2, <1>4 DEF Consistent, Frozen, Working, Active, Finished, SettledEscrow, walletVars
<1>9. Moves(o)
  BY <1>2, <1>4, <1>5, <1>8 DEF Moves, Same, SameMoney, OrderStep, BoardStep, walletVars
<1>10. Knows(t)'
  BY <1>3 DEF Knows
<1> QED BY <1>3, <1>6, <1>7, <1>9, <1>10, HandlerStep

-----------------------------------------------------------------------------
(* The admin's decision                                                     *)

LEMMA KeptIsPart ==
  ASSUME NEW o \in Orders, NEW decision \in Decisions, NEW kept \in Kept(o, decision)
  PROVE  kept \in 0..Amount[o] /\ (decision = "refund" => kept = 0)
BY OrdersAreHolders DEF Kept, Decisions

\* A decision is asked for when a dispute is frozen, or was decided already.
LEMMA ResolveSteps ==
  ASSUME EscrowInv, NEW t \in Tasks, NEW o \in Orders, NEW decision \in Decisions,
         NEW kept \in Kept(o, decision), Resolve(t, o, decision, kept)
  PROVE  Good
<1>1. /\ EscrowTypeOK /\ Consistent(o)
      /\ UNCHANGED <<walletVars, orderVars, recordVars, suspended, limbo, faults, toggles>>
  BY DEF EscrowInv, Resolve
<1> DEFINE v == [IdleTask EXCEPT !.at = "money", !.order = o, !.decision = decision, !.kept = kept]
<1>2. v \in TaskType /\ v.at = "money" /\ v.order = o /\ v.decision = decision /\ v.kept = kept
  <2>1. kept \in Nat
    BY KeptIsPart, OrdersAreHolders
  <2> QED BY <2>1, IdleTasks DEF TaskType, Stages
<1>3. /\ task' \in [Tasks -> TaskType] /\ task'[t] = v
      /\ \A u \in Tasks \ {t} : task'[u] = task[u]
  BY <1>1, <1>2, SetTask DEF Resolve
<1>4. Frozen(o)
  BY <1>1 DEF Resolve, Frozen, Consistent
<1>5. WalletTypeOK' /\ RowsAgree' /\ request' = request /\ \A p \in Orders : Same(p)
  BY <1>1, UntouchedOrders DEF recordVars
<1>6. EscrowTypeOK'
  BY <1>1, <1>3, <1>5 DEF EscrowTypeOK, TaskType, orderVars, recordVars
<1>7. Knows(t)'
  BY <1>1, <1>2, <1>3, <1>4 DEF Knows, Frozen, orderVars, Kept
<1> QED BY <1>3, <1>5, <1>6, <1>7, QuietStep

\* The decision's batch settles a frozen escrow and is on record with it, or
\* finds it settled.
LEMMA DecideSteps ==
  ASSUME EscrowInv, NEW t \in Tasks, NEW o \in Orders, Decide(t, o)
  PROVE  Good
<1> DEFINE decision == task[t].decision
           kept == task[t].kept
<1>1. /\ EscrowTypeOK /\ Consistent(o) /\ Frozen(o)
      /\ decided \in [Orders -> SUBSET (Decisions \cup {"dispute"})]
      /\ task[t].order = o /\ decision \in Decisions /\ kept \in Kept(o, decision)
  BY DEF EscrowInv, EscrowTypeOK, Decide, At, Knows
<1>2. UNCHANGED <<order, request, recordVars, suspended, limbo, faults, toggles>>
  BY DEF Decide
<1>3. kept \in 0..Amount[o] /\ (decision = "refund" => kept = 0)
  BY <1>1, KeptIsPart
<1>4. CASE /\ ~Replayed(o, decision) /\ Settles(o, kept, TRUE)
           /\ decided' = [decided EXCEPT ![o] = @ \cup {decision}]
           /\ Goto(t, "consequences")
  <2>1. /\ escrow[o] \in {"held", "disputed"} /\ MoveMoney(o, kept)
        /\ escrow' = [escrow EXCEPT ![o] = StateAfter(o, kept)]
        /\ earned' = [earned EXCEPT ![o] = kept]
    BY <1>4 DEF Settles, SettleableFrom
  <2>2. escrow[o] = "disputed"
    BY <1>1, <2>1 DEF Frozen, Consistent, SettledEscrow
  <2>3. /\ WalletTypeOK' /\ RowsAgree'
        /\ escrow' \in [Orders -> EscrowStates] /\ earned' \in [Orders -> Nat]
        /\ escrow'[o] \in SettledEscrow /\ earned'[o] = kept /\ Charged(o)' = kept
        /\ escrow'[o] = StateAfter(o, kept)
        /\ IF kept = 0 THEN hold'[o] = "released"
                       ELSE hold'[o] = "committed" /\ tx'[o] = "approved"
        /\ \A p \in Orders \ {o} : /\ escrow'[p] = escrow[p] /\ hold'[p] = hold[p] /\ SameMoney(p)
    BY <1>3, <2>1, Settlements
  <2>4. /\ kept = 0 => escrow'[o] = "refunded"
        /\ kept # 0 => escrow'[o] \in {"released", "partially_refunded"}
    BY <1>3, <2>3, SettledWhere
  <2>5. /\ decided' \in [Orders -> SUBSET (Decisions \cup {"dispute"})]
        /\ decided'[o] = decided[o] \cup {decision} /\ decision \notin decided[o]
        /\ \A p \in Orders \ {o} : decided'[p] = decided[p]
    BY <1>1, <1>4 DEF Replayed
  <2>6. /\ task' \in [Tasks -> TaskType] /\ task'[t].at = "consequences" /\ task'[t].order = o
        /\ task'[t].decision = decision
        /\ \A u \in Tasks \ {t} : task'[u] = task[u]
    BY <1>1, <1>4, GotoTask DEF Stages
  <2>7. EscrowTypeOK'
    BY <1>1, <1>2, <2>3, <2>5, <2>6 DEF EscrowTypeOK, TaskType, recordVars
  <2>8. Consistent(o)'
    BY <1>1, <1>2, <1>3, <2>2, <2>3, <2>4, <2>5
    DEF Consistent, Frozen, Working, Finished, SettledEscrow, recordVars
  <2>9. OrderStep(o)
    BY <1>1, <1>3, <2>2, <2>3, <2>5 DEF OrderStep
  <2>10. Moves(o)
    BY <1>2, <2>2, <2>3, <2>5, <2>8, <2>9 DEF Moves, Same, BoardStep, recordVars
  <2>11. Knows(t)'
    BY <1>3, <2>3, <2>4, <2>6 DEF Knows
  <2> QED BY <2>3, <2>6, <2>7, <2>10, <2>11, HandlerStep
<1>5. CASE /\ UNCHANGED <<walletVars, escrow, earned, decided>>
           /\ (Goto(t, "consequences") /\ Replayed(o, decision)) \/ Leave(t)
  <2>1. WalletTypeOK' /\ RowsAgree' /\ request' = request /\ \A p \in Orders : Same(p)
    BY <1>2, <1>5, UntouchedOrders DEF orderVars, recordVars
  <2>2. Replayed(o, decision) =>
          escrow[o] \in SettledEscrow /\ (decision = "refund" => escrow[o] = "refunded")
    BY <1>1 DEF Replayed, Consistent, Decisions, SettledEscrow
  <2>3. /\ task' \in [Tasks -> TaskType] /\ \A u \in Tasks \ {t} : task'[u] = task[u]
        /\ \/ task'[t].at = "idle"
           \/ /\ task'[t].at = "consequences" /\ task'[t].order = o /\ task'[t].decision = decision
              /\ Replayed(o, decision)
    BY <1>1, <1>5, GotoTask, LeaveTask DEF Stages
  <2>4. EscrowTypeOK'
    BY <1>1, <1>2, <1>5, <2>1, <2>3 DEF EscrowTypeOK, TaskType, recordVars
  <2>5. Knows(t)'
    BY <1>5, <2>2, <2>3 DEF Knows
  <2> QED BY <2>1, <2>3, <2>4, <2>5, QuietStep
<1> QED BY <1>4, <1>5 DEF Decide

\* The order and the request follow the decision the money already followed.
LEMMA ConsequenceSteps ==
  ASSUME EscrowInv, NEW t \in Tasks, NEW o \in Orders, Consequences(t, o)
  PROVE  Good
<1>1. /\ EscrowTypeOK /\ Consistent(o) /\ Knows(t)
      /\ order \in [Orders -> OrderStates] /\ request \in [Requests -> RequestStates]
      /\ complaint \in [Orders -> {"none", "open", "resolved"}]
      /\ outcome \in [Orders -> {"none", "won", "lost"}]
      /\ task[t].order = o /\ Leave(t)
      /\ UNCHANGED <<walletVars, escrow, earned, decided, completions, suspended, limbo, faults, toggles>>
  BY DEF EscrowInv, EscrowTypeOK, RequestStates, Consequences, At
<1>2. escrow[o] \in SettledEscrow /\ (task[t].decision = "refund" => escrow[o] = "refunded")
  BY <1>1 DEF Consequences, At, Knows
<1>3. /\ task' \in [Tasks -> TaskType] /\ task'[t].at = "idle"
      /\ \A u \in Tasks \ {t} : task'[u] = task[u]
  BY <1>1, LeaveTask
<1>4. /\ order' \in [Orders -> OrderStates]
      /\ \A p \in Orders \ {o} : order'[p] = order[p]
      /\ \/ order'[o] = order[o]
         \/ order[o] \in Active /\ order'[o] = "completed"
         \/ order[o] \in Active /\ order'[o] = "refunded" /\ escrow[o] = "refunded"
  BY <1>1, <1>2 DEF Consequences, OrderStates, Finished
<1>5. /\ complaint' \in [Orders -> {"none", "open", "resolved"}]
      /\ outcome' \in [Orders -> {"none", "won", "lost"}]
  BY <1>1 DEF Consequences
<1>6. /\ request' \in [Requests -> RequestStates]
      /\ \A r \in Requests : request[r] # "open" => request'[r] # "open"
  <2>1. PICK to \in {"cancelled", "completed"} : RequestMoves(o, {"in_progress", "disputed"}, to)
    BY DEF Consequences
  <2> QED BY <2>1, RequestsMoveOn DEF RequestStates
<1>7. WalletTypeOK' /\ RowsAgree'
  BY <1>1 DEF EscrowInv, EscrowTypeOK, walletVars, WalletTypeOK, RowsAgree, CommittedIsDebited
<1>8. EscrowTypeOK'
  BY <1>1, <1>3, <1>4, <1>5, <1>6, <1>7 DEF EscrowTypeOK, TaskType, RequestStates
<1>9. Consistent(o)'
  BY <1>1, <1>2, <1>4 DEF Consistent, Frozen, Working, Active, Finished, SettledEscrow, walletVars
<1>10. Moves(o)
  BY <1>1, <1>4, <1>6, <1>9 DEF Moves, Same, SameMoney, OrderStep, BoardStep, walletVars
<1>11. Knows(t)'
  BY <1>3 DEF Knows
<1> QED BY <1>3, <1>7, <1>8, <1>10, <1>11, HandlerStep

-----------------------------------------------------------------------------
(* The rest of the world, and the whole                                     *)

LEMMA RestSteps ==
  ASSUME EscrowInv, (\E t \in Tasks : Crash(t)) \/ Suspend \/ UseWallet
  PROVE  Good
<1>1. EscrowTypeOK
  BY DEF EscrowInv
<1>2. ASSUME NEW t \in Tasks, Crash(t) PROVE Good
  <2>1. Leave(t) /\ faults' \in Nat /\ UNCHANGED <<walletVars, orderVars, recordVars, suspended, limbo, toggles>>
    BY <1>1, <1>2, FaultCounts DEF Crash
  <2>2. /\ task' \in [Tasks -> TaskType] /\ task'[t].at = "idle"
        /\ \A u \in Tasks \ {t} : task'[u] = task[u]
    BY <1>1, <2>1, LeaveTask
  <2>3. WalletTypeOK' /\ RowsAgree' /\ request' = request /\ \A p \in Orders : Same(p)
    BY <2>1, UntouchedOrders DEF recordVars
  <2>4. EscrowTypeOK'
    BY <1>1, <2>1, <2>2, <2>3 DEF EscrowTypeOK, TaskType, orderVars, recordVars
  <2>5. Knows(t)'
    BY <2>2 DEF Knows
  <2> QED BY <2>2, <2>3, <2>4, <2>5, QuietStep
<1>3. CASE Suspend
  <2>1. WalletTypeOK' /\ RowsAgree' /\ request' = request /\ \A p \in Orders : Same(p)
    BY <1>3, UntouchedOrders DEF Suspend, recordVars
  <2>2. toggles' \in Nat /\ suspended' \in BOOLEAN
    BY <1>1, <1>3 DEF Suspend, EscrowTypeOK
  <2>3. EscrowTypeOK'
    BY <1>1, <1>3, <2>1, <2>2 DEF Suspend, EscrowTypeOK, orderVars, recordVars
  <2> QED BY <1>3, <2>1, <2>3, IdleStep DEF Suspend
<1>4. CASE UseWallet
  <2>1. /\ WalletStep
        /\ UNCHANGED <<orderVars, recordVars, suspended, limbo, task, faults, toggles>>
    BY <1>4 DEF UseWallet
  <2>2. /\ WalletTypeOK' /\ RowsAgree'
        /\ \A o \in Orders : hold'[o] = hold[o] /\ tx'[o] = tx[o] /\ returned'[o] = returned[o]
    BY <2>1, WalletStepApart
  <2>3. request' = request /\ \A p \in Orders : Same(p)
    BY <2>1, <2>2 DEF orderVars, recordVars, Same, SameMoney
  <2>4. EscrowTypeOK'
    BY <1>1, <2>1, <2>2 DEF EscrowTypeOK, orderVars, recordVars
  <2> QED BY <2>1, <2>2, <2>3, <2>4, IdleStep
<1> QED BY <1>2, <1>3, <1>4

\* Every step of the escrow is covered by a group.
LEMMA EscrowKeeps == ASSUME EscrowInv, EscrowNext PROVE Good
<1>1. ASSUME NEW o \in Orders, NEW t \in Tasks, Continue(t, o) \/ AcceptUnanswered(t, o)
      PROVE  Good
  BY <1>1, AcceptanceSteps, ReleaseSteps, ConfirmationEnds, DisputeSteps, ComplaintSteps,
     DecideSteps, ConsequenceSteps DEF Continue
<1>2. ASSUME NEW o \in Orders, NEW t \in Tasks, Open(t, o) PROVE Good
  BY <1>2, AcceptanceSteps, ConfirmationBegins, DisputeSteps, ResolveSteps DEF Open
<1>3. ASSUME NEW o \in Orders, LandLate(o) \/ ReconcileHold(o) \/ Sweep(o)
                               \/ StartWork(o) \/ MarkDelivered(o) \/ Cancel(o)
      PROVE  Good
  BY <1>3, CronIsATask, LateSteps, ConfirmationBegins, WorkSteps
<1>4. CASE (\E t \in Tasks : Crash(t)) \/ Suspend \/ UseWallet
  BY <1>4, RestSteps
<1> QED BY <1>1, <1>2, <1>3, <1>4 DEF EscrowNext

LEMMA EscrowStutters == ASSUME EscrowInv, UNCHANGED vars PROVE Good
<1>1. /\ UNCHANGED <<walletVars, orderVars, recordVars, suspended, limbo, task, faults, toggles>>
  BY DEF vars
<1>2. WalletTypeOK' /\ RowsAgree' /\ request' = request /\ \A p \in Orders : Same(p)
  BY <1>1, UntouchedOrders DEF recordVars
<1>3. EscrowTypeOK'
  BY <1>1, <1>2 DEF EscrowInv, EscrowTypeOK, orderVars, recordVars
<1> QED BY <1>1, <1>2, <1>3, IdleStep

LEMMA EscrowStarts == EscrowInit => EscrowInv
<1> SUFFICES ASSUME EscrowInit PROVE EscrowInv
  OBVIOUS
<1>1. WalletTypeOK /\ RowsAgree
  BY WalletStarts DEF EscrowInit, WalletInv
<1>2. EscrowTypeOK
  <2>1. escrow \in [Orders -> EscrowStates] /\ order \in [Orders -> OrderStates]
    BY DEF EscrowInit, EscrowStates, OrderStates
  <2>2. task \in [Tasks -> TaskType]
    BY IdleTasks DEF EscrowInit
  <2> QED BY <1>1, <2>1, <2>2 DEF EscrowInit, EscrowTypeOK, TaskType
<1>3. \A o \in Orders : Consistent(o)
  BY OrdersAreHolders
  DEF EscrowInit, WalletInit, Consistent, Frozen, Working, Finished
<1>4. OffTheBoard /\ OneDeal
  BY DEF EscrowInit, OffTheBoard, OneDeal
<1>5. \A t \in Tasks : Knows(t)
  BY IdleTasks DEF EscrowInit, Knows
<1> QED BY <1>1, <1>2, <1>3, <1>4, <1>5 DEF EscrowInv

-----------------------------------------------------------------------------
(* What follows                                                             *)

\* The inductive invariant: typed, the wallet without anomalies, every order's
\* tables consistent, one deal for a request that left the board, and what a
\* handler learned still true.
THEOREM EscrowInvariant == EscrowSpec => []EscrowInv
<1>1. EscrowInv /\ [EscrowNext]_vars => EscrowInv'
  BY EscrowKeeps, EscrowStutters DEF Good
<1> QED BY <1>1, EscrowStarts, PTL DEF EscrowSpec

\* EscrowTypeOK: every reachable state is typed.
THEOREM EscrowTyped == EscrowSpec => []EscrowTypeOK
BY EscrowInvariant, PTL DEF EscrowInv

\* EscrowBacked: behind every escrow is the customer's money, in the state the
\* escrow says.
THEOREM MoneyBehindEscrow == EscrowSpec => []EscrowBacked
<1>1. EscrowInv => EscrowBacked
  BY DEF EscrowInv, Consistent, EscrowBacked
<1> QED BY <1>1, EscrowInvariant, PTL

\* OneDeal: a request becomes one deal however many acceptances race for it.
THEOREM RequestDealtOnce == EscrowSpec => []OneDeal
BY EscrowInvariant, PTL DEF EscrowInv

\* OrderFollowsMoney: unfinished work is funded, disputed orders frozen or
\* decided, finished orders settled.
THEOREM OrdersFollowMoney == EscrowSpec => []OrderFollowsMoney
<1>1. EscrowInv => OrderFollowsMoney
  BY DEF EscrowInv, Consistent, OrderFollowsMoney, WorkIsFunded, DisputedIsFrozen, FinishedIsSettled,
         Working, Frozen
<1> QED BY <1>1, EscrowInvariant, PTL

\* CountedOnce: a completion counts once, over an order that is complete and paid.
THEOREM CompletionCountsOnce == EscrowSpec => []CountedOnce
<1>1. EscrowInv => CountedOnce
  BY DEF EscrowInv, EscrowTypeOK, Consistent, CountedOnce
<1> QED BY <1>1, EscrowInvariant, PTL

\* DisputeFreezes: a frozen escrow is moved by an admin's decision and by nothing
\* else.
THEOREM FrozenIsDecided == EscrowSpec => DisputeFreezes
<1> DEFINE Thaws(o) == escrow[o] = "disputed" /\ escrow'[o] # escrow[o] =>
                         (decided'[o] \ decided[o]) \cap Decisions # {}
<1>1. EscrowInv /\ [EscrowNext]_vars => [\A o \in Orders : Thaws(o)]_vars
  <2>1. ASSUME NEW o \in Orders, OrderStep(o) PROVE Thaws(o)
    BY <2>1 DEF OrderStep
  <2> QED BY <2>1, EscrowKeeps, EscrowStutters DEF Good
<1>2. EscrowSpec => [][\A o \in Orders : Thaws(o)]_vars
  BY <1>1, EscrowInvariant, PTL DEF EscrowSpec
<1> QED BY <1>2 DEF DisputeFreezes

-----------------------------------------------------------------------------
(* The wallet below and the promise above                                   *)

\* What a settlement does to the wallet is an operation of the wallet.
LEMMA MoneyIsWallet ==
  ASSUME NEW o \in Orders, NEW kept \in 0..Amount[o], MoveMoney(o, kept)
  PROVE  WalletNext
<1>1. o \in Purchases /\ Amount[o] \in Nat \ {0}
  BY OrdersAreHolders DEF Orders
<1>2. CASE kept = 0
  BY <1>1, <1>2 DEF MoveMoney, WalletNext
<1>3. CASE kept # 0
  <2>1. CommitHold(o, Amount[o] - kept) /\ Amount[o] - kept \in 0..(Amount[o] - 1)
    BY <1>1, <1>3 DEF MoveMoney
  <2> QED BY <1>1, <2>1 DEF WalletNext
<1> QED BY <1>2, <1>3

\* Each step of the escrow is an operation of the wallet or leaves it alone.
LEMMA StepIsWallet == ASSUME EscrowInv, [EscrowNext]_vars PROVE [WalletNext]_walletVars
<1>1. \A o \in Orders : o \in Purchases /\ 0 \in 0..Amount[o] /\ Amount[o] \in 0..Amount[o]
  BY OrdersAreHolders DEF Orders
<1>2. ASSUME NEW o \in Orders, PlaceHold(o) \/ ReleaseHold(o) PROVE WalletNext
  BY <1>1, <1>2 DEF WalletNext
<1>3. ASSUME NEW t \in Tasks, NEW o \in Orders, Continue(t, o) \/ AcceptUnanswered(t, o)
      PROVE  [WalletNext]_walletVars
  <2>1. CASE Decide(t, o)
    <3>1. task[t].kept \in 0..Amount[o]
      BY <2>1, KeptIsPart DEF EscrowInv, Knows, Decide, At
    <3> QED BY <2>1, <3>1, MoneyIsWallet DEF Decide, Settles
  <2>2. CASE Release(t, o)
    BY <1>1, <2>2, MoneyIsWallet DEF Release, Settles
  <2>3. CASE ReleaseReservation(t, o)
    BY <1>2, <2>3 DEF ReleaseReservation, GiveBack
  <2>4. CASE \/ Accept(t, o) \/ AskLanded(t, o) \/ HoldConfirmation(t, o) \/ Complete(t, o)
             \/ Freeze(t, o) \/ RecordDispute(t, o) \/ FileComplaint(t, o) \/ Consequences(t, o)
             \/ AcceptUnanswered(t, o)
    BY <2>4 DEF Accept, AskLanded, HoldConfirmation, Complete, Freeze, RecordDispute, FileComplaint,
                Consequences, AcceptUnanswered
  <2> QED BY <1>3, <2>1, <2>2, <2>3, <2>4 DEF Continue
<1>4. ASSUME NEW t \in Tasks, NEW o \in Orders, Open(t, o) PROVE [WalletNext]_walletVars
  <2>1. CASE Reserve(t, o)
    BY <1>2, <2>1 DEF Reserve
  <2>2. CASE ~Reserve(t, o)
    BY <1>4, <2>2 DEF Open, Confirm, Dispute, Resolve
  <2> QED BY <2>1, <2>2
<1>5. ASSUME NEW o \in Orders, LandLate(o) \/ ReconcileHold(o) \/ Sweep(o)
                               \/ StartWork(o) \/ MarkDelivered(o) \/ Cancel(o)
      PROVE  [WalletNext]_walletVars
  <2>1. CASE Cancel(o)
    BY <1>1, <2>1, MoneyIsWallet DEF Cancel, Settles
  <2>2. CASE ReconcileHold(o)
    BY <1>2, <2>2 DEF ReconcileHold, GiveBack
  <2>3. CASE LandLate(o) \/ Sweep(o) \/ StartWork(o) \/ MarkDelivered(o)
    BY <2>3 DEF LandLate, Sweep, StartWork, MarkDelivered
  <2> QED BY <1>5, <2>1, <2>2, <2>3
<1>6. CASE (\E t \in Tasks : Crash(t)) \/ Suspend \/ UNCHANGED vars
  BY <1>6 DEF Crash, Suspend, vars
<1>7. CASE UseWallet
  BY <1>7 DEF UseWallet, WalletNext
<1> QED BY <1>3, <1>4, <1>5, <1>6, <1>7 DEF EscrowNext

\* The escrow uses the wallet by its operations only: what is proved of the
\* wallet holds of the escrow's.
THEOREM EscrowUsesWallet == EscrowSpec => WalletSpec
<1>1. EscrowInit => WalletInit
  BY DEF EscrowInit
<1>2. EscrowInv /\ [EscrowNext]_vars => [WalletNext]_walletVars
  BY StepIsWallet
<1> QED BY <1>1, <1>2, EscrowInvariant, PTL DEF EscrowSpec, WalletSpec

\* NeverOverdrawn, for orders: no schedule of acceptances, cancellations, disputes,
\* decisions and crashes drives a customer's available balance below zero.
THEOREM EscrowCovered == EscrowSpec => []NeverOverdrawn
BY EscrowUsesWallet, AlwaysCovered, PTL

\* How far the promise sees an order.
DealStatus(e) ==
  IF e = "none" THEN "none" ELSE IF e = "held" THEN "agreed"
  ELSE IF e = "disputed" THEN "frozen" ELSE "settled"

\* Each step of the escrow is a step of the settlement it promises, or none.
LEMMA StepIsSettlement ==
  ASSUME EscrowInv, [EscrowNext]_vars
  PROVE  [Deal!SettlementNext]_(Deal!settlementVars)
<1> DEFINE status == [o \in Orders |-> DealStatus(escrow[o])]
           charged == [o \in Orders |-> Charged(o)]
<1>1. /\ earned \in [Orders -> Nat] /\ earned' \in [Orders -> Nat]
      /\ \A o \in Orders : OrderStep(o)
      /\ \A o, p \in Orders : o # p => Same(o) \/ Same(p)
  BY EscrowKeeps, EscrowStutters DEF Good, EscrowInv, EscrowTypeOK
<1>2. ASSUME NEW o \in Orders, Same(o) \/ (escrow'[o] = escrow[o] /\ SameMoney(o))
      PROVE  status'[o] = status[o] /\ charged'[o] = charged[o] /\ earned'[o] = earned[o]
  BY <1>2 DEF Same, SameMoney, Charged
<1>3. CASE \A o \in Orders : escrow'[o] = escrow[o] /\ SameMoney(o)
  <2>1. status' = status /\ charged' = charged /\ earned' = earned
    BY <1>1, <1>2, <1>3
  <2> QED BY <2>1 DEF Deal!settlementVars, DealStatus, Charged
<1>4. ASSUME NEW o \in Orders, ~(escrow'[o] = escrow[o] /\ SameMoney(o))
      PROVE  Deal!SettlementNext
  <2>1. \A p \in Orders \ {o} : Same(p)
    BY <1>1, <1>4 DEF Same
  <2>2. /\ status' = [status EXCEPT ![o] = DealStatus(escrow'[o])]
        /\ charged' = [charged EXCEPT ![o] = Charged(o)']
        /\ earned' = [earned EXCEPT ![o] = earned'[o]]
    BY <1>1, <1>2, <2>1
  <2>3. CASE SameMoney(o) /\ escrow[o] = "none" /\ escrow'[o] = "held"
    <3>1. charged' = charged /\ earned' = earned
      BY <1>1, <1>2, <2>1, <2>3 DEF SameMoney, Charged
    <3> QED BY <2>2, <2>3, <3>1 DEF Deal!SettlementNext, Deal!Agree, DealStatus, Charged
  <2>4. CASE SameMoney(o) /\ escrow[o] = "held" /\ escrow'[o] = "disputed"
    <3>1. charged' = charged /\ earned' = earned
      BY <1>1, <1>2, <2>1, <2>4 DEF SameMoney, Charged
    <3> QED BY <2>2, <2>4, <3>1 DEF Deal!SettlementNext, Deal!Freeze, DealStatus, Charged
  <2>5. ASSUME NEW kept \in 0..Amount[o],
               escrow[o] = "disputed" \/ (escrow[o] = "held" /\ kept \in {0, Amount[o]}),
               escrow'[o] \in SettledEscrow, earned'[o] = kept, Charged(o)' = kept
        PROVE  Deal!SettlementNext
    <3>1. DealStatus(escrow'[o]) = "settled"
      BY <2>5 DEF DealStatus, SettledEscrow
    <3>2. status[o] = "frozen" \/ (status[o] = "agreed" /\ kept \in {0, Amount[o]})
      BY <2>5 DEF DealStatus
    <3>3. /\ status' = [status EXCEPT ![o] = "settled"]
          /\ charged' = [charged EXCEPT ![o] = kept]
          /\ earned' = [earned EXCEPT ![o] = kept]
      BY <2>2, <2>5, <3>1
    <3>4. Deal!Settle(o, kept)
      BY <3>2, <3>3 DEF Deal!Settle, DealStatus, Charged
    <3> QED BY <2>5, <3>4 DEF Deal!SettlementNext
  <2> QED BY <1>1, <1>4, <2>3, <2>4, <2>5 DEF OrderStep
<1> QED BY <1>3, <1>4

\* ImplementsSettlement: whoever presses which button and whatever crashes, the
\* customer pays exactly what the merchant's side earns, once.
THEOREM EscrowSettles == EscrowSpec => ImplementsSettlement
<1>1. EscrowInit => Deal!SettlementInit
  BY OrdersAreHolders DEF EscrowInit, WalletInit, Deal!SettlementInit
<1>2. EscrowInv /\ [EscrowNext]_vars => [Deal!SettlementNext]_(Deal!settlementVars)
  BY StepIsSettlement
<1> QED BY <1>1, <1>2, EscrowInvariant, PTL DEF EscrowSpec, ImplementsSettlement, Deal!SettlementSpec
=============================================================================
