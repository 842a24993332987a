------------------------------ MODULE MCWallet ------------------------------
(* A wallet that cannot pay for everything that is asked of it.             *)
EXTENDS Wallet, TLC

CONSTANTS d1, d2, w1, w2, l1, s1, h1

MCAmount == d1 :> 2 @@ d2 :> 1 @@ w1 :> 2 @@ w2 :> 1 @@ l1 :> 2 @@ s1 :> 1 @@ h1 :> 2
=============================================================================
