----------------------------- MODULE MCConsumer -----------------------------
(* Small instances of a consumer; the calls are interchangeable.            *)
EXTENDS Consumer, TLC

CONSTANTS e1, e2, e3, e4, c1, c2

MCCalls == {c1, c2}
Symmetry == Permutations(MCCalls)
=============================================================================
