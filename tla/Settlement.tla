----------------------------- MODULE Settlement -----------------------------
(***************************************************************************)
(* What the escrow promises about a custom order's money, whoever presses  *)
(* which button and whatever crashes: a deal is agreed over money that is  *)
(* set aside, it is settled at most once, and the settlement takes from    *)
(* the customer exactly what it gives to the merchant's side, all of the   *)
(* price, a part of it or nothing.  Nobody decides a frozen deal but an    *)
(* admin.                                                                  *)
(***************************************************************************)
EXTENDS Integers

CONSTANTS Deals, Price

VARIABLES
  status,        \* none, agreed, frozen, settled
  charged,       \* what the customer paid in the end
  earned         \* what the merchant's ledger was credited, commission included

settlementVars == <<status, charged, earned>>

SettlementInit ==
  /\ status = [d \in Deals |-> "none"]
  /\ charged = [d \in Deals |-> 0]
  /\ earned = [d \in Deals |-> 0]

Agree(d) ==
  /\ status[d] = "none"
  /\ status' = [status EXCEPT ![d] = "agreed"]
  /\ UNCHANGED <<charged, earned>>

Freeze(d) ==
  /\ status[d] = "agreed"
  /\ status' = [status EXCEPT ![d] = "frozen"]
  /\ UNCHANGED <<charged, earned>>

\* The parties settle for all or nothing; only a frozen deal is divided.
Settle(d, kept) ==
  /\ status[d] = "frozen" \/ (status[d] = "agreed" /\ kept \in {0, Price[d]})
  /\ status' = [status EXCEPT ![d] = "settled"]
  /\ charged' = [charged EXCEPT ![d] = kept]
  /\ earned' = [earned EXCEPT ![d] = kept]

SettlementNext ==
  \E d \in Deals : Agree(d) \/ Freeze(d) \/ \E kept \in 0..Price[d] : Settle(d, kept)

SettlementSpec == SettlementInit /\ [][SettlementNext]_settlementVars
=============================================================================
