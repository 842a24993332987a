-------------------------------- MODULE Sums --------------------------------
(***************************************************************************)
(* SUM over the rows of a table: the wallet's balances and the stock       *)
(* counters' reference are sums over the rows of a ledger.                 *)
(***************************************************************************)
EXTENDS Integers, FiniteSetsExt

SumOf(f, S) == MapThenSumSet(LAMBDA x : f[x], S)
=============================================================================
