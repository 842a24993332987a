\* Two deliver() calls at once, batches of two of four events, two faults.
CONSTANTS
  e1 = e1
  e2 = e2
  e3 = e3
  e4 = e4
  c1 = c1
  c2 = c2
  Events = {e1, e2, e3, e4}
  Refused = {e3}
  Unknown = {e4}
  Clashing = {}
  Calls <- MCCalls
  BatchSize = 2
  MaxFaults = 2
SPECIFICATION Spec
SYMMETRY Symmetry
INVARIANTS TypeOK AppliedOnce SettledIsApplied
