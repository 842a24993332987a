------------------------------ MODULE AuditLog ------------------------------
(***************************************************************************)
(* What the Audit service promises, whatever the tables look like: events  *)
(* are recorded at most once, and a log that only ever grows at its end    *)
(* lists recorded events, none of them twice.  AuditChain (rows, head,     *)
(* concurrent sealers) is shown to implement it.                           *)
(***************************************************************************)
EXTENDS Naturals, Sequences

CONSTANT Events           \* the event ids that may be recorded

VARIABLES
  recorded,               \* the set of events the service has taken in
  log                     \* the evidence: the events that are chained, in order

logVars == <<recorded, log>>

Listed(l) == {l[i] : i \in 1..Len(l)}

NoRepeats(l) == \A i, j \in 1..Len(l) : l[i] = l[j] => i = j

\* m is l with something added behind it.
Extends(m, l) ==
  /\ Len(m) > Len(l)
  /\ \A i \in 1..Len(l) : m[i] = l[i]

LogInit ==
  /\ recorded = {}
  /\ log = << >>

Take ==
  /\ \E e \in Events \ recorded : recorded' = recorded \cup {e}
  /\ UNCHANGED log

Chain ==
  /\ Extends(log', log)
  /\ Listed(log') \subseteq recorded
  /\ NoRepeats(log')
  /\ UNCHANGED recorded

LogNext == Take \/ Chain

LogSafety == LogInit /\ [][LogNext]_logVars

\* Every event that is recorded is chained in the end.
LogLiveness == \A e \in Events : (e \in recorded) ~> (e \in Listed(log))

LogSpec == LogSafety /\ LogLiveness
=============================================================================
