--------------------------- MODULE MCAuditVerify ----------------------------
(* The verification walk over a small chain; events are interchangeable.    *)
EXTENDS AuditVerify, TLC

CONSTANTS e1, e2, e3, w1

MCEvents == {e1, e2, e3}

Symmetry == Permutations(MCEvents)
=============================================================================
