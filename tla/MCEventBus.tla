----------------------------- MODULE MCEventBus -----------------------------
(* Small instances of the event bus for TLC.                                *)
EXTENDS EventBus, TLC

CONSTANTS e1, e2, audit, ads, gone, s1, s2, q1, a1, i1

\* e1 goes to both reachable consumers, e2 to audit; e1 also had a subscriber
\* that is no longer bound; audit refuses e2 in the instances with poison.
MCSubscriptions == {<<e1, audit>>, <<e2, audit>>, <<e1, ads>>, <<e1, gone>>} \cap Deliveries
MCLeftover == {<<e1, gone>>} \cap Deliveries
MCPoison == {<<e2, audit>>} \cap Deliveries

\* Every run in an isolate of its own.
OwnIsolate == [r \in Runs |-> r]

\* All runs in one isolate, with the one bus object it has.
SharedIsolate == [r \in Runs |-> i1]

Symmetry == Permutations(Sweeps)
=============================================================================
