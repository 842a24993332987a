---------------------------- MODULE MCAuditChain ----------------------------
(* A small Audit service for TLC: events and background sealers are        *)
(* interchangeable.                                                        *)
EXTENDS AuditChain, TLC

CONSTANTS e1, e2, e3, w1, w2

Symmetry == Permutations(Events) \cup Permutations(Background)
=============================================================================
