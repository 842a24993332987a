------------------------------- MODULE Wallet -------------------------------
(***************************************************************************)
(* One customer's dollar wallet (worker/lib/walletOps.ts).  No balance is  *)
(* stored: what is settled is the sum of the approved ledger rows, what is *)
(* available is that minus the active holds, and both are summed anew      *)
(* inside every statement that spends.  Each operation is one statement or *)
(* one batch whose guards are in its SQL, so each is one step; what runs   *)
(* concurrently are the operations.                                        *)
(***************************************************************************)
EXTENDS Sums

CONSTANTS
  Deposits,      \* deposit requests
  Withdrawals,   \* withdrawal requests, each with its hold and ledger row
  Legacy,        \* withdrawal rows from before requests and holds, still undecided
  Spends,        \* checkout debits and the like
  Purchases,     \* purchase holds, each with the debit row its settlement posts
  Opening,       \* what earlier rows of the ledger add up to
  Amount         \* the cents of each row

Entries == Deposits \cup Withdrawals \cup Legacy \cup Spends \cup Purchases

ASSUME EntriesDisjoint ==
  /\ Deposits \cap (Withdrawals \cup Legacy \cup Spends \cup Purchases) = {}
  /\ Withdrawals \cap (Legacy \cup Spends \cup Purchases) = {}
  /\ Legacy \cap (Spends \cup Purchases) = {}
  /\ Spends \cap Purchases = {}
ASSUME AmountsPositive ==
  Opening \in Nat /\ Amount \in [Entries -> Nat \ {0}]
ASSUME EntriesFinite == IsFiniteSet(Entries)

VARIABLES
  tx,            \* wallet_transactions: the status of each row
  hold,          \* wallet_holds: the state of each hold
  wd,            \* wallet_withdrawals: state and needs_reconciliation
  returned       \* what a partial refund credited back, by purchase

walletVars == <<tx, hold, wd, returned>>

Holders == Withdrawals \cup Purchases
OpenStates == {"requested", "approved", "processing"}
ReleasingStates == {"rejected", "cancelled", "failed"}
WithdrawalStates == {"none", "paid"} \cup OpenStates \cup ReleasingStates

WalletInit ==
  /\ tx = [x \in Entries |-> IF x \in Legacy THEN "pending" ELSE "none"]
  /\ hold = [h \in Holders |-> "none"]
  /\ wd = [w \in Withdrawals |-> [state |-> "none", recon |-> FALSE]]
  /\ returned = [h \in Purchases |-> 0]

Approved(S) == {x \in S : tx[x] = "approved"}

Settled == Opening + SumOf(Amount, Approved(Deposits)) + SumOf(returned, Purchases)
                   - SumOf(Amount, Approved(Entries \ Deposits))

\* A hold whose ledger row is approved has left the settled balance already.
Held == SumOf(Amount, {h \in Holders : hold[h] = "active" /\ tx[h] # "approved"})

Available == Settled - Held

-----------------------------------------------------------------------------
(* Deposits and spends *)

RequestDeposit(d) ==
  /\ tx[d] = "none"
  /\ tx' = [tx EXCEPT ![d] = "pending"]
  /\ UNCHANGED <<hold, wd, returned>>

\* decideDeposit(): an amount finance saw to be different is never approved.
DecideDeposit(d, status) ==
  /\ tx[d] = "pending"
  /\ tx' = [tx EXCEPT ![d] = status]
  /\ UNCHANGED <<hold, wd, returned>>

\* Fault: the balance is read before the statement, not inside it.
SpendUnguarded(s) ==
  /\ tx[s] = "none" /\ Settled >= Amount[s]
  /\ tx' = [tx EXCEPT ![s] = "approved"]
  /\ UNCHANGED <<hold, wd, returned>>

\* usdSpendStatement(): CHECK (amount > 0) aborts what is not covered.
Spend(s) ==
  /\ tx[s] = "none" /\ Available >= Amount[s]
  /\ tx' = [tx EXCEPT ![s] = "approved"]
  /\ UNCHANGED <<hold, wd, returned>>

-----------------------------------------------------------------------------
(* Withdrawals *)

\* requestWithdrawal(): the hold, the pending row and the request in one batch.
RequestWithdrawal(w) ==
  /\ hold[w] = "none" /\ Available >= Amount[w]
  /\ hold' = [hold EXCEPT ![w] = "active"]
  /\ tx' = [tx EXCEPT ![w] = "pending"]
  /\ wd' = [wd EXCEPT ![w].state = "requested"]
  /\ UNCHANGED returned

AdvanceWithdrawal(w, to) ==
  /\ wd[w] = [state |-> IF to = "approved" THEN "requested" ELSE "approved", recon |-> FALSE]
  /\ wd' = [wd EXCEPT ![w].state = to]
  /\ UNCHANGED <<tx, hold, returned>>

\* Fault: the ledger row is left to a later job.
MarkPaidHalf(w) ==
  /\ wd[w].state = "processing"
  /\ wd' = [wd EXCEPT ![w] = [state |-> "paid", recon |-> FALSE]]
  /\ hold' = [hold EXCEPT ![w] = "committed"]
  /\ UNCHANGED <<tx, returned>>

\* markWithdrawalPaid(): the request decides, its hold and its ledger row follow
\* if they are still open.
MarkWithdrawalPaid(w) ==
  /\ wd[w].state = "processing"
  /\ wd' = [wd EXCEPT ![w] = [state |-> "paid", recon |-> FALSE]]
  /\ hold' = [hold EXCEPT ![w] = IF @ = "active" THEN "committed" ELSE @]
  /\ tx' = [tx EXCEPT ![w] = IF @ = "pending" THEN "approved" ELSE @]
  /\ UNCHANGED returned

ClosableFrom(to) == IF to = "failed" THEN {"processing"} ELSE {"requested", "approved"}

\* Fault: the reconciliation flag is not asked.
CloseFlagged(w, to) ==
  /\ wd[w].state \in ClosableFrom(to)
  /\ wd' = [wd EXCEPT ![w].state = to]
  /\ hold' = [hold EXCEPT ![w] = IF @ = "active" THEN "released" ELSE @]
  /\ tx' = [tx EXCEPT ![w] = IF @ = "pending" THEN "rejected" ELSE @]
  /\ UNCHANGED returned

\* closeWithdrawal(): never while a payout's outcome is unknown.
CloseWithdrawal(w, to) ==
  /\ wd[w].state \in ClosableFrom(to) /\ ~wd[w].recon
  /\ wd' = [wd EXCEPT ![w].state = to]
  /\ hold' = [hold EXCEPT ![w] = IF @ = "active" THEN "released" ELSE @]
  /\ tx' = [tx EXCEPT ![w] = IF @ = "pending" THEN "rejected" ELSE @]
  /\ UNCHANGED returned

FlagWithdrawal(w) ==
  /\ wd[w].state = "processing"
  /\ wd' = [wd EXCEPT ![w].recon = TRUE]
  /\ UNCHANGED <<tx, hold, returned>>

ClearWithdrawal(w) ==
  /\ wd[w].recon
  /\ wd' = [wd EXCEPT ![w].recon = FALSE]
  /\ UNCHANGED <<tx, hold, returned>>

\* The admin's old decision: a row that belongs to a request is refused and sent to
\* its own workflow; a row from before them is approved while the balance covers it.
DecideLegacy(x, status) ==
  /\ tx[x] = "pending"
  /\ status = "approved" => Available >= Amount[x]
  /\ tx' = [tx EXCEPT ![x] = status]
  /\ UNCHANGED <<hold, wd, returned>>

-----------------------------------------------------------------------------
(* Purchase holds.  The escrow composes these with its own statements.      *)

PlaceHold(h) ==
  /\ hold[h] = "none" /\ Available >= Amount[h]
  /\ hold' = [hold EXCEPT ![h] = "active"]
  /\ UNCHANGED <<tx, wd, returned>>

\* commitHoldStatements(), with what a partial refund credits back in the same
\* batch: the debit aborts the batch unless the hold is active and still covered.
CommitHold(h, back) ==
  /\ hold[h] = "active" /\ tx[h] = "none" /\ Available >= 0
  /\ tx' = [tx EXCEPT ![h] = "approved"]
  /\ hold' = [hold EXCEPT ![h] = "committed"]
  /\ returned' = [returned EXCEPT ![h] = back]
  /\ UNCHANGED wd

ReleaseHold(h) ==
  /\ hold[h] = "active"
  /\ hold' = [hold EXCEPT ![h] = "released"]
  /\ UNCHANGED <<tx, wd, returned>>

\* Everything but the purchase holds.
WalletStep ==
  \/ \E d \in Deposits :
       RequestDeposit(d) \/ \E status \in {"approved", "rejected"} : DecideDeposit(d, status)
  \/ \E s \in Spends : Spend(s)
  \/ \E x \in Legacy, status \in {"approved", "rejected"} : DecideLegacy(x, status)
  \/ \E w \in Withdrawals :
       \/ RequestWithdrawal(w) \/ MarkWithdrawalPaid(w) \/ FlagWithdrawal(w) \/ ClearWithdrawal(w)
       \/ \E to \in {"approved", "processing"} : AdvanceWithdrawal(w, to)
       \/ \E to \in ReleasingStates : CloseWithdrawal(w, to)

WalletNext ==
  \/ WalletStep
  \/ \E h \in Purchases :
       PlaceHold(h) \/ ReleaseHold(h) \/ \E back \in 0..(Amount[h] - 1) : CommitHold(h, back)

WalletSpec == WalletInit /\ [][WalletNext]_walletVars

-----------------------------------------------------------------------------
(* The reconciliation report.  It writes nothing, so it is an operator.     *)

\* classifyWithdrawalRow(): what is wrong with one request, its hold and its row.
classifyWithdrawalRow(w) ==
  LET open == wd[w].state \in OpenStates
      closed == wd[w].state \in ReleasingStates
      Kind(kind, holds) == IF holds THEN {kind} ELSE {}
  IN CASE wd[w].state = "none" -> {}
       [] wd[w].state # "none" /\ (hold[w] = "none" \/ tx[w] = "none") -> {"open_without_active_hold"}
       [] OTHER -> UNION {
            Kind("paid_without_committed_hold", wd[w].state = "paid" /\ hold[w] # "committed"),
            Kind("paid_without_ledger_debit", wd[w].state = "paid" /\ tx[w] # "approved"),
            Kind("terminal_without_released_hold", closed /\ hold[w] # "released"),
            Kind("terminal_with_posted_debit", closed /\ tx[w] = "approved"),
            Kind("open_without_active_hold", open /\ hold[w] # "active"),
            Kind("open_with_posted_debit", open /\ tx[w] = "approved"),
            Kind("unknown_outcome_pending_reconciliation", open /\ wd[w].recon)}

\* Approved withdrawal rows of the customer that no paid request accounts for.
orphanDebits ==
  {x \in Withdrawals \cup Legacy :
     tx[x] = "approved" /\ ~(x \in Withdrawals /\ wd[x].state = "paid")}

unpaidCommits == {h \in Holders : hold[h] = "committed" /\ tx[h] # "approved"}

\* Every anomaly but "negative_available", which NeverOverdrawn is about.
walletReconciliationReport ==
  (UNION {classifyWithdrawalRow(w) \X {w} : w \in Withdrawals})
    \cup {"ledger_debit_without_paid_withdrawal"} \X orphanDebits
    \cup {"committed_hold_without_debit"} \X unpaidCommits

sums_match ==
  SumOf(Amount, {w \in Withdrawals : hold[w] = "active" /\ tx[w] # "approved"})
    = SumOf(Amount, {w \in Withdrawals : wd[w].state \in OpenStates})

-----------------------------------------------------------------------------
(* Properties *)

WalletTypeOK ==
  /\ tx \in [Entries -> {"none", "pending", "approved", "rejected"}]
  /\ hold \in [Holders -> {"none", "active", "committed", "released"}]
  /\ wd \in [Withdrawals -> [state : WithdrawalStates, recon : BOOLEAN]]
  /\ returned \in [Purchases -> Nat]

\* Deposits, spends, withdrawals and purchases in any order never drive the
\* available balance below zero: the anomaly "negative_available" of the
\* reconciliation report cannot be produced by the operations.
NeverOverdrawn == Available >= 0

\* The reconciliation report says what is so and nothing else, whatever admins, the
\* customer and retries do: every payout in processing whose outcome is unknown, and
\* every old withdrawal approved without a request, are listed, and no request, hold
\* or row is ever listed as disagreeing with another.  What is on hold for withdrawals
\* is what open requests ask for.
ReportExplained ==
  /\ sums_match
  /\ walletReconciliationReport =
       {"unknown_outcome_pending_reconciliation"} \X
           {w \in Withdrawals : wd[w].state = "processing" /\ wd[w].recon}
         \cup {"ledger_debit_without_paid_withdrawal"} \X {x \in Legacy : tx[x] = "approved"}

\* Money moves once: a decided row, a hold that is no longer active and a closed
\* request are never touched again, and a payout whose outcome is unknown is not
\* turned into a release (the flag keeps hold and row as they are).
DecidedIsFinal ==
  [][/\ \A x \in Entries : tx[x] \in {"approved", "rejected"} => tx'[x] = tx[x]
     /\ \A h \in Holders : hold[h] \in {"committed", "released"} => hold'[h] = hold[h]
     /\ \A w \in Withdrawals :
          /\ wd[w].state \in ReleasingStates \cup {"paid"} => wd'[w] = wd[w]
          /\ wd[w].recon => hold'[w] # "released"
     /\ \A h \in Purchases : tx[h] = "approved" => returned'[h] = returned[h]]_walletVars
=============================================================================
