\* Two events whose rows appear in either order of seq, the cron racing one delivery's sealer, an eviction and a key change, under the cron's fairness.
CONSTANTS
  e1 = e1
  e2 = e2
  e3 = e3
  w1 = w1
  w2 = w2
  Events = {e1, e2}
  SeqNumbers = {1, 2}
  Bodies = {"body"}
  Cron = cron
  Background = {w1}
  SealLimit = 1
  InitialKeys = {FALSE}
  MaxKills = 1
  MaxKeyChanges = 1
SPECIFICATION FairSpec
INVARIANTS TypeOK RecordedOnce ChainUnbroken ChainLinked
PROPERTIES AppendOnly ImplementsLog EveryEventChained
