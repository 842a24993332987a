------------------------------ MODULE MCEscrow ------------------------------
(* Small instances of the escrow over a wallet.                             *)
EXTENDS Escrow, TLC

CONSTANTS o1, o2, s1, r1, h1, h2, cron

MCAmount == o1 :> 2 @@ o2 :> 1 @@ s1 :> 3
MCRequestOf == o1 :> r1 @@ o2 :> r1
=============================================================================
