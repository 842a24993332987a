---------------------------- MODULE Wallet_proofs ----------------------------
(***************************************************************************)
(* The wallet's ledger rows, holds and withdrawal requests agree in every  *)
(* reachable state, what is decided stays decided and the available        *)
(* balance stays covered, for any sets of rows and any amounts.            *)
(***************************************************************************)
EXTENDS Wallet, Sums_proofs

\* A hold is committed exactly when its debit is posted, and only then may a part of
\* it have come back.
CommittedIsDebited ==
  /\ \A h \in Holders : hold[h] = "committed" <=> tx[h] = "approved"
  /\ \A h \in Purchases : returned[h] > 0 => tx[h] = "approved" /\ returned[h] < Amount[h]

\* Paid means committed and debited, closed means released and rejected, open
\* means reserved.
RowsAgree ==
  /\ CommittedIsDebited
  /\ \A w \in Withdrawals :
       /\ wd[w].state = "paid" => hold[w] = "committed" /\ tx[w] = "approved"
       /\ wd[w].state \in ReleasingStates => hold[w] = "released" /\ tx[w] = "rejected"
       /\ wd[w].state \in OpenStates => hold[w] = "active" /\ tx[w] = "pending"
       /\ wd[w].state = "none" => hold[w] = "none" /\ tx[w] = "none"
       /\ wd[w].recon => wd[w].state = "processing"

WalletInv == WalletTypeOK /\ RowsAgree

\* One step of DecidedIsFinal.
FinalStep ==
  /\ \A x \in Entries : tx[x] \in {"approved", "rejected"} => tx'[x] = tx[x]
  /\ \A h \in Holders : hold[h] \in {"committed", "released"} => hold'[h] = hold[h]
  /\ \A w \in Withdrawals :
       /\ wd[w].state \in ReleasingStates \cup {"paid"} => wd'[w] = wd[w]
       /\ wd[w].recon => hold'[w] # "released"
  /\ \A h \in Purchases : tx[h] = "approved" => returned'[h] = returned[h]

-----------------------------------------------------------------------------

\* Which kind a row is decides which operations touch it.
LEMMA KindsApart ==
  /\ \A d \in Deposits : d \in Entries /\ d \notin Holders
  /\ \A s \in Spends \cup Legacy : s \in Entries /\ s \notin Holders
  /\ \A w \in Withdrawals : w \in Entries /\ w \in Holders /\ w \notin Purchases
  /\ \A h \in Purchases : h \in Entries /\ h \in Holders /\ h \notin Withdrawals
BY EntriesDisjoint DEF Entries, Holders

LEMMA WalletStarts == WalletInit => WalletInv
BY EntriesDisjoint
DEF WalletInit, WalletInv, WalletTypeOK, RowsAgree, CommittedIsDebited, Holders, Entries,
    WithdrawalStates, OpenStates, ReleasingStates

\* A deposit, a decision on it, a spend and the decision on an old withdrawal touch a
\* row without a hold.
LEMMA RowOperations ==
  ASSUME WalletInv,
         \/ \E d \in Deposits : RequestDeposit(d)
                                \/ \E status \in {"approved", "rejected"} : DecideDeposit(d, status)
         \/ \E s \in Spends : Spend(s)
         \/ \E x \in Legacy, status \in {"approved", "rejected"} : DecideLegacy(x, status)
  PROVE  WalletInv' /\ FinalStep
<1>1. PICK x \in Entries \ Holders, status \in {"pending", "approved", "rejected"} :
        /\ tx[x] \in {"none", "pending"}
        /\ tx' = [tx EXCEPT ![x] = status]
        /\ UNCHANGED <<hold, wd, returned>>
  BY KindsApart DEF RequestDeposit, DecideDeposit, Spend, DecideLegacy
<1>2. \A h \in Holders : tx'[h] = tx[h]
  BY <1>1, KindsApart DEF WalletInv, WalletTypeOK
<1>3. WalletTypeOK'
  BY <1>1 DEF WalletInv, WalletTypeOK
<1>4. RowsAgree'
  BY <1>1, <1>2, KindsApart DEF WalletInv, RowsAgree, CommittedIsDebited
<1>5. \A w \in Withdrawals : wd[w].recon => hold[w] # "released"
  BY KindsApart DEF WalletInv, RowsAgree, OpenStates
<1>6. FinalStep
  BY <1>1, <1>5 DEF WalletInv, WalletTypeOK, FinalStep
<1> QED BY <1>3, <1>4, <1>6 DEF WalletInv

\* A step of a withdrawal moves its request, its hold and its row together.
LEMMA WithdrawalOperations ==
  ASSUME WalletInv, NEW w \in Withdrawals,
         \/ RequestWithdrawal(w) \/ MarkWithdrawalPaid(w) \/ FlagWithdrawal(w) \/ ClearWithdrawal(w)
         \/ \E to \in {"approved", "processing"} : AdvanceWithdrawal(w, to)
         \/ \E to \in ReleasingStates : CloseWithdrawal(w, to)
  PROVE  WalletInv' /\ FinalStep
<1>1. /\ tx \in [Entries -> {"none", "pending", "approved", "rejected"}]
      /\ hold \in [Holders -> {"none", "active", "committed", "released"}]
      /\ wd \in [Withdrawals -> [state : WithdrawalStates, recon : BOOLEAN]]
      /\ returned \in [Purchases -> Nat]
      /\ w \in Entries /\ w \in Holders /\ w \notin Purchases
  BY KindsApart DEF WalletInv, WalletTypeOK
<1>2. /\ hold[w] = "committed" <=> tx[w] = "approved"
      /\ wd[w].state = "paid" => hold[w] = "committed" /\ tx[w] = "approved"
      /\ wd[w].state \in ReleasingStates => hold[w] = "released" /\ tx[w] = "rejected"
      /\ wd[w].state \in OpenStates => hold[w] = "active" /\ tx[w] = "pending"
      /\ wd[w].state = "none" => hold[w] = "none" /\ tx[w] = "none"
      /\ wd[w].recon => wd[w].state = "processing"
  BY <1>1 DEF WalletInv, RowsAgree, CommittedIsDebited
<1> DEFINE Agrees(s, h, t, r) ==
             /\ h = "committed" <=> t = "approved"
             /\ s = "paid" => h = "committed" /\ t = "approved"
             /\ s \in ReleasingStates => h = "released" /\ t = "rejected"
             /\ s \in OpenStates => h = "active" /\ t = "pending"
             /\ s = "none" => h = "none" /\ t = "none"
             /\ r => s = "processing"
<1>3. ASSUME NEW s \in WithdrawalStates, NEW r \in BOOLEAN,
             NEW h \in {"none", "active", "committed", "released"},
             NEW t \in {"none", "pending", "approved", "rejected"},
             wd' = [wd EXCEPT ![w] = [state |-> s, recon |-> r]],
             hold' = [hold EXCEPT ![w] = h], tx' = [tx EXCEPT ![w] = t],
             UNCHANGED returned, Agrees(s, h, t, r),
             tx[w] \in {"approved", "rejected"} => t = tx[w],
             hold[w] \in {"committed", "released"} => h = hold[w],
             wd[w].state \in ReleasingStates \cup {"paid"} => s = wd[w].state /\ r = wd[w].recon,
             wd[w].recon => h # "released"
      PROVE  WalletInv' /\ FinalStep
  <2>1. WalletTypeOK'
    BY <1>1, <1>3 DEF WalletTypeOK
  <2>2. /\ tx'[w] = t /\ \A x \in Entries \ {w} : tx'[x] = tx[x]
        /\ hold'[w] = h /\ \A x \in Holders \ {w} : hold'[x] = hold[x]
        /\ wd'[w] = [state |-> s, recon |-> r] /\ \A x \in Withdrawals \ {w} : wd'[x] = wd[x]
    BY <1>1, <1>3
  <2>3. CommittedIsDebited'
    BY <1>1, <1>3, <2>2, KindsApart DEF WalletInv, RowsAgree, CommittedIsDebited
  <2>4. \A x \in Withdrawals : Agrees(wd[x].state, hold[x], tx[x], wd[x].recon)'
    BY <1>1, <1>3, <2>2, KindsApart DEF WalletInv, RowsAgree, CommittedIsDebited
  <2>5. RowsAgree'
    BY <2>3, <2>4 DEF RowsAgree
  <2>6. \A x \in Withdrawals : wd[x].recon => hold[x] = "active"
    BY <1>1, KindsApart DEF WalletInv, RowsAgree, OpenStates
  <2>7. wd[w] = [state |-> wd[w].state, recon |-> wd[w].recon]
    BY <1>1
  <2>8. FinalStep
    BY <1>1, <1>3, <2>2, <2>6, <2>7, KindsApart DEF FinalStep
  <2> QED BY <2>1, <2>5, <2>8 DEF WalletInv
<1>4. hold[w] = "committed" \/ hold[w] = "released" => wd[w].state \notin OpenStates \cup {"none"}
  BY <1>2 DEF OpenStates
<1>5. /\ wd = [wd EXCEPT ![w] = [state |-> wd[w].state, recon |-> wd[w].recon]]
      /\ hold = [hold EXCEPT ![w] = hold[w]]
      /\ tx = [tx EXCEPT ![w] = tx[w]]
  BY <1>1
<1> DEFINE Moved(s) == [wd EXCEPT ![w] = [state |-> s, recon |-> wd[w].recon]]
<1>6. \A s \in WithdrawalStates : [wd EXCEPT ![w].state = s] = Moved(s)
  <2>1. ASSUME NEW s \in WithdrawalStates PROVE [wd[w] EXCEPT !.state = s] = [state |-> s, recon |-> wd[w].recon]
    BY <1>1
  <2> QED BY <2>1
<1>7. CASE RequestWithdrawal(w)
  <2>1. wd[w].state = "none" /\ ~wd[w].recon /\ tx[w] = "none"
    BY <1>1, <1>2, <1>7 DEF RequestWithdrawal, WithdrawalStates, OpenStates, ReleasingStates
  <2>2. wd' = [wd EXCEPT ![w] = [state |-> "requested", recon |-> wd[w].recon]]
    BY <1>6, <1>7 DEF RequestWithdrawal, WithdrawalStates, OpenStates
  <2> QED BY <1>1, <1>3, <1>7, <2>1, <2>2
      DEF RequestWithdrawal, WithdrawalStates, OpenStates, ReleasingStates
<1>8. CASE MarkWithdrawalPaid(w)
  <2>1. hold[w] = "active" /\ tx[w] = "pending" /\ wd[w].state = "processing"
    BY <1>2, <1>8 DEF MarkWithdrawalPaid, OpenStates
  <2>2. /\ hold' = [hold EXCEPT ![w] = "committed"] /\ tx' = [tx EXCEPT ![w] = "approved"]
        /\ wd' = [wd EXCEPT ![w] = [state |-> "paid", recon |-> FALSE]] /\ UNCHANGED returned
    BY <1>1, <1>8, <2>1 DEF MarkWithdrawalPaid
  <2> QED BY <1>3, <2>1, <2>2 DEF WithdrawalStates, OpenStates, ReleasingStates
<1>9. CASE FlagWithdrawal(w) \/ ClearWithdrawal(w)
  <2>1. wd[w].state = "processing" /\ hold[w] = "active" /\ tx[w] = "pending"
    BY <1>2, <1>9 DEF FlagWithdrawal, ClearWithdrawal, OpenStates
  <2>2. PICK r \in BOOLEAN : wd' = [wd EXCEPT ![w] = [state |-> wd[w].state, recon |-> r]]
    BY <1>1, <1>9 DEF FlagWithdrawal, ClearWithdrawal
  <2>3. hold' = hold /\ tx' = tx /\ UNCHANGED returned
    BY <1>9 DEF FlagWithdrawal, ClearWithdrawal
  <2> QED BY <1>2, <1>3, <1>5, <2>1, <2>2, <2>3 DEF WithdrawalStates, OpenStates, ReleasingStates
<1>10. ASSUME NEW to \in {"approved", "processing"}, AdvanceWithdrawal(w, to)
      PROVE  WalletInv' /\ FinalStep
  <2>1. wd[w].state \in {"requested", "approved"} /\ wd[w].recon = FALSE
    BY <1>10 DEF AdvanceWithdrawal
  <2>2. wd' = [wd EXCEPT ![w] = [state |-> to, recon |-> wd[w].recon]]
    BY <1>6, <1>10 DEF AdvanceWithdrawal, WithdrawalStates, OpenStates
  <2>3. hold[w] = "active" /\ tx[w] = "pending"
    BY <1>2, <2>1 DEF OpenStates
  <2>4. hold' = hold /\ tx' = tx /\ UNCHANGED returned
    BY <1>10 DEF AdvanceWithdrawal
  <2> QED BY <1>1, <1>3, <1>5, <2>1, <2>2, <2>3, <2>4 DEF WithdrawalStates, OpenStates, ReleasingStates
<1>11. ASSUME NEW to \in ReleasingStates, CloseWithdrawal(w, to)
       PROVE  WalletInv' /\ FinalStep
  <2>1. wd[w].state \in OpenStates /\ wd[w].recon = FALSE
    BY <1>1, <1>11 DEF CloseWithdrawal, ClosableFrom, OpenStates
  <2>2. hold[w] = "active" /\ tx[w] = "pending"
    BY <1>2, <2>1
  <2>3. /\ wd' = [wd EXCEPT ![w] = [state |-> to, recon |-> wd[w].recon]] /\ UNCHANGED returned
        /\ hold' = [hold EXCEPT ![w] = "released"] /\ tx' = [tx EXCEPT ![w] = "rejected"]
    BY <1>6, <1>11, <2>2 DEF CloseWithdrawal, WithdrawalStates
  <2> QED BY <1>1, <1>3, <2>1, <2>2, <2>3 DEF WithdrawalStates, OpenStates, ReleasingStates
<1> QED BY <1>7, <1>8, <1>9, <1>10, <1>11

\* A purchase hold and its debit move together; what comes back of it is decided
\* with the debit and is less than the price.
LEMMA PurchaseOperations ==
  ASSUME WalletInv, NEW p \in Purchases,
         PlaceHold(p) \/ ReleaseHold(p) \/ \E back \in 0..(Amount[p] - 1) : CommitHold(p, back)
  PROVE  WalletInv' /\ FinalStep
<1>1. /\ tx \in [Entries -> {"none", "pending", "approved", "rejected"}]
      /\ hold \in [Holders -> {"none", "active", "committed", "released"}]
      /\ returned \in [Purchases -> Nat]
      /\ p \in Entries /\ p \in Holders /\ p \notin Withdrawals
      /\ Amount[p] \in Nat
  BY KindsApart, AmountsPositive DEF WalletInv, WalletTypeOK
<1>2. hold[p] = "committed" <=> tx[p] = "approved"
  BY <1>1 DEF WalletInv, RowsAgree, CommittedIsDebited
<1>3. \A w \in Withdrawals : wd[w].recon => hold[w] # "released"
  BY KindsApart DEF WalletInv, RowsAgree, OpenStates
<1>4. ASSUME NEW v \in {"active", "released"}, hold[p] \in {"none", "active"},
             hold' = [hold EXCEPT ![p] = v], UNCHANGED <<tx, wd, returned>>
      PROVE  WalletInv' /\ FinalStep
  <2>1. \A w \in Withdrawals : hold'[w] = hold[w]
    BY <1>1, <1>4, KindsApart
  <2>2. WalletTypeOK'
    BY <1>1, <1>4 DEF WalletInv, WalletTypeOK
  <2>3. CommittedIsDebited'
    BY <1>1, <1>2, <1>4 DEF WalletInv, RowsAgree, CommittedIsDebited
  <2>4. RowsAgree'
    BY <1>4, <2>1, <2>3 DEF WalletInv, RowsAgree
  <2>5. FinalStep
    BY <1>1, <1>3, <1>4, <2>1 DEF FinalStep
  <2> QED BY <2>2, <2>4, <2>5 DEF WalletInv
<1>5. ASSUME NEW back \in 0..(Amount[p] - 1), CommitHold(p, back)
      PROVE  WalletInv' /\ FinalStep
  <2>1. /\ hold[p] = "active" /\ tx[p] = "none" /\ UNCHANGED wd
        /\ hold' = [hold EXCEPT ![p] = "committed"]
        /\ tx' = [tx EXCEPT ![p] = "approved"]
        /\ returned' = [returned EXCEPT ![p] = back]
        /\ back \in Nat /\ back < Amount[p]
    BY <1>1, <1>5 DEF CommitHold
  <2>2. \A w \in Withdrawals : hold'[w] = hold[w] /\ tx'[w] = tx[w]
    BY <1>1, <2>1, KindsApart
  <2>3. WalletTypeOK'
    BY <1>1, <2>1 DEF WalletInv, WalletTypeOK
  <2>4. CommittedIsDebited'
    BY <1>1, <2>1, KindsApart DEF WalletInv, RowsAgree, CommittedIsDebited
  <2>5. RowsAgree'
    BY <2>1, <2>2, <2>4 DEF WalletInv, RowsAgree
  <2>6. FinalStep
    BY <1>1, <1>3, <2>1, <2>2 DEF FinalStep
  <2> QED BY <2>3, <2>5, <2>6 DEF WalletInv
<1> QED BY <1>4, <1>5 DEF PlaceHold, ReleaseHold

-----------------------------------------------------------------------------

\* Every step of the wallet keeps the invariant and what is decided.
LEMMA WalletKeeps == ASSUME WalletInv, [WalletNext]_walletVars PROVE WalletInv' /\ FinalStep
<1>1. CASE UNCHANGED walletVars
  <2>1. WalletInv'
    BY <1>1 DEF walletVars, WalletInv, WalletTypeOK, RowsAgree, CommittedIsDebited
  <2>2. \A w \in Withdrawals : wd[w].recon => hold[w] # "released"
    BY DEF WalletInv, RowsAgree, OpenStates
  <2> QED BY <1>1, <2>1, <2>2 DEF walletVars, FinalStep
<1>2. CASE WalletStep
  BY <1>2, RowOperations, WithdrawalOperations DEF WalletStep
<1>3. CASE \E h \in Purchases :
             PlaceHold(h) \/ ReleaseHold(h) \/ \E back \in 0..(Amount[h] - 1) : CommitHold(h, back)
  BY <1>3, PurchaseOperations
<1> QED BY <1>1, <1>2, <1>3 DEF WalletNext

\* Every reachable state of the wallet is typed and its rows agree.
THEOREM WalletInvariant == WalletSpec => []WalletInv
<1>1. WalletInv /\ [WalletNext]_walletVars => WalletInv'
  BY WalletKeeps
<1> QED BY <1>1, WalletStarts, PTL DEF WalletSpec

\* Where the rows agree, the report lists the payouts of unknown outcome and the old
\* withdrawals approved without a request, and nothing else.
LEMMA AgreeingRowsAreReported == WalletInv => ReportExplained
<1> SUFFICES ASSUME WalletInv PROVE ReportExplained
  OBVIOUS
<1> DEFINE Unknown == {w \in Withdrawals : wd[w].state = "processing" /\ wd[w].recon}
           unknown == "unknown_outcome_pending_reconciliation"
<1>1. ASSUME NEW w \in Withdrawals
      PROVE  classifyWithdrawalRow(w) = IF w \in Unknown THEN {unknown} ELSE {}
  <2>1. /\ wd[w].state = "paid" => hold[w] = "committed" /\ tx[w] = "approved"
        /\ wd[w].state \in ReleasingStates => hold[w] = "released" /\ tx[w] = "rejected"
        /\ wd[w].state \in OpenStates => hold[w] = "active" /\ tx[w] = "pending"
        /\ wd[w].recon => wd[w].state = "processing"
        /\ wd[w].state \in WithdrawalStates
    BY DEF WalletInv, WalletTypeOK, RowsAgree
  <2>2. CASE wd[w].state = "none"
    BY <2>1, <2>2 DEF classifyWithdrawalRow
  <2>3. CASE wd[w].state # "none" /\ (hold[w] = "none" \/ tx[w] = "none")
    BY <2>1, <2>3 DEF WithdrawalStates, OpenStates, ReleasingStates
  <2>4. CASE wd[w].state # "none" /\ ~(hold[w] = "none" \/ tx[w] = "none")
    BY <2>1, <2>4 DEF classifyWithdrawalRow, WithdrawalStates, OpenStates, ReleasingStates
  <2> QED BY <2>2, <2>3, <2>4
<1>2. orphanDebits = {x \in Legacy : tx[x] = "approved"}
  BY EntriesDisjoint, KindsApart
     DEF orphanDebits, WalletInv, WalletTypeOK, RowsAgree, WithdrawalStates, OpenStates, ReleasingStates
<1>3. unpaidCommits = {}
  BY DEF unpaidCommits, WalletInv, RowsAgree, CommittedIsDebited
<1>4. UNION {classifyWithdrawalRow(w) \X {w} : w \in Withdrawals} = {unknown} \X Unknown
  <2>1. \A w \in Withdrawals : classifyWithdrawalRow(w) \X {w} = IF w \in Unknown THEN {<<unknown, w>>} ELSE {}
    BY <1>1
  <2>2. {unknown} \X Unknown = {<<unknown, w>> : w \in Unknown}
    OBVIOUS
  <2> QED BY <2>1, <2>2
<1>5. {"committed_hold_without_debit"} \X unpaidCommits = {}
  BY <1>3
<1> DEFINE Listed == UNION {classifyWithdrawalRow(w) \X {w} : w \in Withdrawals}
           Leak == {"committed_hold_without_debit"} \X unpaidCommits
           Old == {"ledger_debit_without_paid_withdrawal"} \X orphanDebits
<1>6. walletReconciliationReport = Listed \cup Old \cup Leak
  BY DEF walletReconciliationReport
<1>7. Listed = {unknown} \X Unknown /\ Leak = {}
      /\ Old = {"ledger_debit_without_paid_withdrawal"} \X {x \in Legacy : tx[x] = "approved"}
  BY <1>2, <1>4, <1>5
<1> HIDE DEF Listed, Leak, Old
<1>8. walletReconciliationReport = ({unknown} \X Unknown)
        \cup ({"ledger_debit_without_paid_withdrawal"} \X {x \in Legacy : tx[x] = "approved"})
  BY <1>6, <1>7
<1>9. {w \in Withdrawals : hold[w] = "active" /\ tx[w] # "approved"}
        = {w \in Withdrawals : wd[w].state \in OpenStates}
  BY DEF WalletInv, WalletTypeOK, RowsAgree, WithdrawalStates
<1>10. sums_match
  BY <1>9 DEF sums_match
<1> QED BY <1>8, <1>10 DEF ReportExplained

\* ReportExplained: the reconciliation report of walletOps.ts lists the payouts whose
\* outcome is unknown and the old withdrawals approved without a request, all of
\* them, and never a request, a hold and a row that disagree.
THEOREM ReportIsExplained == WalletSpec => []ReportExplained
BY WalletInvariant, AgreeingRowsAreReported, PTL

\* DecidedIsFinal: a decided row, a settled hold and a closed request are never
\* touched again.
THEOREM MoneyMovesOnce == WalletSpec => DecidedIsFinal
<1>1. WalletInv /\ [WalletNext]_walletVars => [FinalStep]_walletVars
  BY WalletKeeps
<1>2. WalletSpec => [][FinalStep]_walletVars
  BY <1>1, WalletInvariant, PTL DEF WalletSpec
<1> QED BY <1>2 DEF FinalStep, DecidedIsFinal

-----------------------------------------------------------------------------
(* The available balance                                                    *)

\* What a row and its hold contribute to the available balance.
Posted(x) == IF tx[x] = "approved" THEN Amount[x] ELSE 0
OnHold(x) == IF x \in Holders /\ hold[x] = "active" /\ tx[x] # "approved" THEN Amount[x] ELSE 0
Back(x) == IF x \in Purchases THEN returned[x] ELSE 0
Worth(x) == (IF x \in Deposits THEN Posted(x) ELSE -Posted(x)) + Back(x) - OnHold(x)

LEMMA Finiteness ==
  /\ \A S \in SUBSET Entries : IsFiniteSet(S)
  /\ \A x \in Entries : Amount[x] \in Nat \ {0}
  /\ Deposits \in SUBSET Entries /\ Purchases \in SUBSET Entries /\ Holders \in SUBSET Entries
BY EntriesFinite, FS_Subset, AmountsPositive DEF Entries, Holders

\* A set of rows that gains, loses or keeps one of them.
LEMMA SetSum ==
  ASSUME NEW A \in SUBSET Entries, NEW B \in SUBSET Entries, NEW x \in Entries, A \ {x} = B \ {x}
  PROVE  /\ SumOf(Amount, A) \in Int /\ SumOf(Amount, B) \in Int
         /\ SumOf(Amount, B) = SumOf(Amount, A) + (IF x \in B THEN Amount[x] ELSE 0)
                                                - (IF x \in A THEN Amount[x] ELSE 0)
<1>1. ASSUME NEW S \in SUBSET Entries
      PROVE  /\ SumOf(Amount, S \ {x}) \in Int /\ Amount[x] \in Int
             /\ SumOf(Amount, S) = SumOf(Amount, S \ {x}) + (IF x \in S THEN Amount[x] ELSE 0)
  <2>1. IsFiniteSet(S) /\ IsFiniteSet(S \ {x}) /\ \A y \in Entries : Amount[y] \in Int
    BY Finiteness
  <2>2. SumOf(Amount, S \ {x}) \in Int
    BY <2>1, SumType
  <2>3. CASE x \in S
    <3>1. SumOf(Amount, S) = Amount[x] + SumOf(Amount, S \ {x})
      BY <2>1, <2>3, SumRemove
    <3> QED BY <2>1, <2>2, <2>3, <3>1
  <2>4. CASE x \notin S
    <3>1. S \ {x} = S
      BY <2>4
    <3>2. SumOf(Amount, S) = SumOf(Amount, S \ {x})
      BY <3>1
    <3> QED BY <2>1, <2>2, <2>4, <3>2
  <2> QED BY <2>3, <2>4
<1>2. SumOf(Amount, A \ {x}) = SumOf(Amount, B \ {x})
  OBVIOUS
<1> QED BY <1>1, <1>2

\* A step that touches one row, its hold and what came back of it changes the
\* available balance by what it does to that row.
LEMMA OneRow ==
  ASSUME WalletTypeOK, WalletTypeOK', NEW x \in Entries,
         \A y \in Entries \ {x} : tx'[y] = tx[y],
         \A y \in Holders \ {x} : hold'[y] = hold[y],
         \A y \in Purchases \ {x} : returned'[y] = returned[y]
  PROVE  /\ Available \in Int /\ Worth(x) \in Int
         /\ Available' = Available + Worth(x)' - Worth(x)
<1> DEFINE D == Approved(Deposits)
           O == Approved(Entries \ Deposits)
           H == {h \in Holders : hold[h] = "active" /\ tx[h] # "approved"}
<1>1. /\ D \in SUBSET Entries /\ D' \in SUBSET Entries /\ D \ {x} = D' \ {x}
      /\ O \in SUBSET Entries /\ O' \in SUBSET Entries /\ O \ {x} = O' \ {x}
      /\ H \in SUBSET Entries /\ H' \in SUBSET Entries /\ H \ {x} = H' \ {x}
  BY Finiteness DEF Approved
<1> DEFINE In(S) == IF x \in S THEN Amount[x] ELSE 0
<1>2. /\ SumOf(Amount, D) \in Int /\ SumOf(Amount, D') = SumOf(Amount, D) + In(D') - In(D)
      /\ SumOf(Amount, O) \in Int /\ SumOf(Amount, O') = SumOf(Amount, O) + In(O') - In(O)
      /\ SumOf(Amount, H) \in Int /\ SumOf(Amount, H') = SumOf(Amount, H) + In(H') - In(H)
  <2> HIDE DEF D, O, H
  <2> QED BY <1>1, SetSum
<1>3. /\ SumOf(returned, Purchases) \in Int
      /\ SumOf(returned', Purchases) = SumOf(returned, Purchases) + Back(x)' - Back(x)
      /\ Back(x) \in Int /\ Back(x)' \in Int
  <2>1. \A y \in Purchases : returned[y] \in Int /\ returned'[y] \in Int
    BY DEF WalletTypeOK
  <2>2. SumOf(returned, Purchases) \in Int
    BY <2>1, Finiteness, SumType
  <2>3. CASE x \in Purchases
    <3>1. SumOf(returned', Purchases) = SumOf(returned, Purchases) + returned'[x] - returned[x]
      BY <2>1, <2>3, Finiteness, SumChange
    <3> QED BY <2>1, <2>2, <2>3, <3>1 DEF Back
  <2>4. CASE x \notin Purchases
    <3>1. SumOf(returned', Purchases) = SumOf(returned, Purchases)
      BY <2>4, Finiteness, SumSame
    <3> QED BY <2>2, <2>4, <3>1 DEF Back
  <2> QED BY <2>3, <2>4
<1>4. /\ In(D) \in Int /\ In(D') \in Int /\ In(O) \in Int /\ In(O') \in Int
      /\ In(H) \in Int /\ In(H') \in Int
  BY Finiteness
<1>5. /\ Worth(x) = In(D) - In(O) + Back(x) - In(H)
      /\ Worth(x)' = In(D') - In(O') + Back(x)' - In(H')
  BY <1>3, Finiteness DEF Worth, Posted, OnHold, Approved
<1>6. /\ Available = (Opening + SumOf(Amount, D) + SumOf(returned, Purchases) - SumOf(Amount, O)) - SumOf(Amount, H)
      /\ Available' = (Opening + SumOf(Amount, D') + SumOf(returned', Purchases) - SumOf(Amount, O')) - SumOf(Amount, H')
  <2>1. Available = (Opening + SumOf(Amount, D) + SumOf(returned, Purchases) - SumOf(Amount, O)) - SumOf(Amount, H)
    BY DEF Available, Settled, Held
  <2>2. Available' = (Opening + SumOf(Amount, D') + SumOf(returned', Purchases) - SumOf(Amount, O')) - SumOf(Amount, H')
    BY DEF Available, Settled, Held
  <2> QED BY <2>1, <2>2
<1>7. Opening \in Int
  BY AmountsPositive
<1> HIDE DEF D, O, H, In
<1> QED BY <1>2, <1>3, <1>4, <1>5, <1>6, <1>7

LEMMA OpeningCovers == WalletInit => NeverOverdrawn
<1> SUFFICES ASSUME WalletInit PROVE NeverOverdrawn
  OBVIOUS
<1>1. /\ Approved(Deposits) = {} /\ Approved(Entries \ Deposits) = {}
      /\ {h \in Holders : hold[h] = "active" /\ tx[h] # "approved"} = {}
  BY Finiteness DEF WalletInit, Approved
<1>2. SumOf(Amount, {}) = 0
  BY SumEmpty
<1>3. SumOf(returned, Purchases) = 0
  BY Finiteness, SumZero DEF WalletInit
<1>4. Available = (Opening + 0 + 0 - 0) - 0
  BY <1>1, <1>2, <1>3 DEF Available, Settled, Held
<1> QED BY <1>4, AmountsPositive DEF NeverOverdrawn

\* Whatever is taken was covered when it was taken, and whatever else moves only
\* turns what was on hold into a debit or gives it back.
LEMMA StaysCovered ==
  ASSUME WalletInv, WalletInv', NeverOverdrawn, [WalletNext]_walletVars
  PROVE  NeverOverdrawn'
<1>1. /\ WalletTypeOK /\ WalletTypeOK' /\ Available >= 0
      /\ \A x \in Entries : Amount[x] \in Nat
      /\ \A h \in Holders : hold[h] = "committed" <=> tx[h] = "approved"
      /\ \A h \in Purchases : returned[h] > 0 => tx[h] = "approved"
  BY Finiteness DEF WalletInv, RowsAgree, CommittedIsDebited, NeverOverdrawn
<1>2. CASE UNCHANGED walletVars
  BY <1>1, <1>2 DEF walletVars, NeverOverdrawn, Available, Settled, Held, Approved
<1>3. ASSUME NEW x \in Entries,
             \A y \in Entries \ {x} : tx'[y] = tx[y],
             \A y \in Holders \ {x} : hold'[y] = hold[y],
             \A y \in Purchases \ {x} : returned'[y] = returned[y],
             Worth(x)' \in Int,
             Worth(x)' >= Worth(x) \/ (Available >= Amount[x] /\ Worth(x)' = Worth(x) - Amount[x])
      PROVE  NeverOverdrawn'
  <2>1. Available \in Int /\ Worth(x) \in Int /\ Available' = Available + Worth(x)' - Worth(x)
    BY <1>1, <1>3, OneRow
  <2> QED BY <1>1, <1>3, <2>1 DEF NeverOverdrawn
<1>4. ASSUME NEW d \in Deposits,
             RequestDeposit(d) \/ \E status \in {"approved", "rejected"} : DecideDeposit(d, status)
      PROVE  NeverOverdrawn'
  <2>1. d \in Entries /\ d \notin Holders /\ d \notin Purchases
    BY KindsApart DEF Holders
  <2>2. /\ tx[d] # "approved" /\ \A y \in Entries \ {d} : tx'[y] = tx[y]
        /\ hold' = hold /\ returned' = returned
    BY <1>1, <1>4 DEF RequestDeposit, DecideDeposit, WalletTypeOK
  <2>3. Worth(d) = 0 /\ Worth(d)' \in Int /\ Worth(d)' >= 0
    BY <1>1, <2>1, <2>2 DEF Worth, Posted, OnHold, Back
  <2> QED BY <1>3, <2>1, <2>2, <2>3
<1>5. ASSUME NEW s \in Spends \cup Legacy,
             Spend(s) \/ (s \in Legacy /\ \E status \in {"approved", "rejected"} : DecideLegacy(s, status))
      PROVE  NeverOverdrawn'
  <2>1. s \in Entries /\ s \notin Holders /\ s \notin Purchases /\ s \notin Deposits
    BY KindsApart, EntriesDisjoint DEF Holders
  <2>2. /\ tx[s] \in {"none", "pending"} /\ \A y \in Entries \ {s} : tx'[y] = tx[y]
        /\ hold' = hold /\ returned' = returned
        /\ tx'[s] = "rejected" \/ (tx'[s] = "approved" /\ Available >= Amount[s])
    BY <1>1, <1>5, <2>1 DEF Spend, DecideLegacy, WalletTypeOK
  <2>3. /\ Worth(s) = 0 /\ Amount[s] \in Nat
        /\ Worth(s)' = IF tx'[s] = "approved" THEN 0 - Amount[s] ELSE 0
    BY <1>1, <2>1, <2>2 DEF Worth, Posted, OnHold, Back
  <2> QED BY <1>3, <2>1, <2>2, <2>3
<1>6. ASSUME NEW w \in Withdrawals,
             \/ RequestWithdrawal(w) \/ MarkWithdrawalPaid(w) \/ FlagWithdrawal(w) \/ ClearWithdrawal(w)
             \/ \E to \in {"approved", "processing"} : AdvanceWithdrawal(w, to)
             \/ \E to \in ReleasingStates : CloseWithdrawal(w, to)
      PROVE  NeverOverdrawn'
  <2>1. w \in Entries /\ w \in Holders /\ w \notin Purchases /\ w \notin Deposits
    BY KindsApart, EntriesDisjoint
  <2>2. /\ \A y \in Entries \ {w} : tx'[y] = tx[y]
        /\ \A y \in Holders \ {w} : hold'[y] = hold[y]
        /\ returned' = returned
    BY <1>1, <1>6 DEF RequestWithdrawal, MarkWithdrawalPaid, FlagWithdrawal, ClearWithdrawal,
       AdvanceWithdrawal, CloseWithdrawal, WalletTypeOK
  <2>3. /\ hold[w] = "committed" <=> tx[w] = "approved"
        /\ hold'[w] = "committed" <=> tx'[w] = "approved"
    BY <2>1 DEF WalletInv, RowsAgree, CommittedIsDebited
  <2>4. /\ Worth(w) = IF hold[w] \in {"active", "committed"} THEN 0 - Amount[w] ELSE 0
        /\ Worth(w)' = IF hold'[w] \in {"active", "committed"} THEN 0 - Amount[w] ELSE 0
        /\ Amount[w] \in Nat
    BY <1>1, <2>1, <2>3 DEF Worth, Posted, OnHold, Back
  <2>5. \/ hold'[w] = hold[w] \/ hold'[w] = "released"
        \/ hold[w] = "active" /\ hold'[w] = "committed"
        \/ hold[w] = "none" /\ hold'[w] = "active" /\ Available >= Amount[w]
    BY <1>1, <1>6, <2>1 DEF RequestWithdrawal, MarkWithdrawalPaid, FlagWithdrawal, ClearWithdrawal,
       AdvanceWithdrawal, CloseWithdrawal, WalletTypeOK
  <2>6. \/ Worth(w)' >= Worth(w)
        \/ Available >= Amount[w] /\ Worth(w)' = Worth(w) - Amount[w]
    BY <2>4, <2>5
  <2>7. Worth(w)' \in Int
    BY <2>4
  <2> QED BY <1>3, <2>1, <2>2, <2>6, <2>7
<1>7. ASSUME NEW p \in Purchases,
             PlaceHold(p) \/ ReleaseHold(p) \/ \E back \in 0..(Amount[p] - 1) : CommitHold(p, back)
      PROVE  NeverOverdrawn'
  <2>1. p \in Entries /\ p \in Holders /\ p \notin Deposits /\ Amount[p] \in Nat
    BY <1>1, KindsApart, EntriesDisjoint
  <2>2. /\ \A y \in Entries \ {p} : tx'[y] = tx[y]
        /\ \A y \in Holders \ {p} : hold'[y] = hold[y]
        /\ \A y \in Purchases \ {p} : returned'[y] = returned[y]
    BY <1>1, <1>7 DEF PlaceHold, ReleaseHold, CommitHold, WalletTypeOK
  <2>3. CASE PlaceHold(p) \/ ReleaseHold(p)
    <3>1. /\ tx' = tx /\ returned' = returned /\ tx[p] # "approved"
          /\ \/ hold'[p] = "released"
             \/ hold[p] = "none" /\ Available >= Amount[p]
      BY <1>1, <2>1, <2>3 DEF PlaceHold, ReleaseHold, WalletTypeOK
    <3>2. /\ Worth(p) = returned[p] - (IF hold[p] = "active" THEN Amount[p] ELSE 0)
          /\ Worth(p)' = returned[p] - (IF hold'[p] = "active" THEN Amount[p] ELSE 0)
          /\ returned[p] \in Nat
      BY <1>1, <2>1, <3>1 DEF Worth, Posted, OnHold, Back, WalletTypeOK
    <3>3. /\ Worth(p)' \in Int
          /\ \/ Worth(p)' >= Worth(p)
             \/ Available >= Amount[p] /\ Worth(p)' = Worth(p) - Amount[p]
      BY <2>1, <3>1, <3>2
    <3> QED BY <1>3, <2>1, <2>2, <3>3
  <2>4. ASSUME NEW back \in 0..(Amount[p] - 1), CommitHold(p, back) PROVE NeverOverdrawn'
    <3>1. /\ hold[p] = "active" /\ tx[p] = "none" /\ returned[p] = 0
          /\ tx'[p] = "approved" /\ returned'[p] = back /\ back \in Nat
      BY <1>1, <2>1, <2>4 DEF CommitHold, WalletTypeOK
    <3>2. Worth(p) = 0 - Amount[p] /\ Worth(p)' = back - Amount[p]
      BY <1>1, <2>1, <3>1 DEF Worth, Posted, OnHold, Back
    <3> QED BY <1>3, <2>1, <2>2, <3>1, <3>2
  <2> QED BY <1>7, <2>3, <2>4
<1> QED BY <1>2, <1>4, <1>5, <1>6, <1>7 DEF WalletNext, WalletStep

\* NeverOverdrawn: the anomaly "negative_available" of the reconciliation report
\* cannot be produced, whatever the rows and their amounts are.
THEOREM AlwaysCovered == WalletSpec => []NeverOverdrawn
<1>1. WalletInv /\ WalletInv' /\ NeverOverdrawn /\ [WalletNext]_walletVars => NeverOverdrawn'
  BY StaysCovered
<1> QED BY <1>1, OpeningCovers, WalletInvariant, PTL DEF WalletSpec
=============================================================================
