\* Three events whose rows appear in any order of seq, the cron sealer, pages of one row, a ceiling of two, one damaged row.
CONSTANTS
  e1 = e1
  e2 = e2
  e3 = e3
  w1 = w1
  Events <- MCEvents
  SeqNumbers = {1, 2, 3}
  Bodies = {}
  Cron = cron
  Background = {}
  SealLimit = 2
  InitialKeys = {TRUE, FALSE}
  MaxKills = 0
  MaxKeyChanges = 1
  PageSize = 1
  MaxRows = 2
  MaxCorruptions = 1
SPECIFICATION VSpec
SYMMETRY Symmetry
INVARIANTS VTypeOK OkMeansIntact AlarmExplained
