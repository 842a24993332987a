\* A cron pump and a leftover one, lists of one of three messages: one that can be
\* sent, one the staging guard holds back, one that does not parse.
CONSTANTS
  m1 = m1
  m2 = m2
  m3 = m3
  cron = cron
  p1 = p1
  None = None
  Messages = {m1, m2, m3}
  Blocked = {m2}
  Garbled = {m3}
  Unrouted = {}
  Pumps = {cron, p1}
  Cron = cron
  Limit = 1
  MaxAttempts = 2
  MaxFaults = 1
  MaxDeploys = 1
SPECIFICATION FairSpec
INVARIANTS TypeOK AttemptUsedOnce LogTellsTheTruth
PROPERTIES EventuallySettled
CHECK_DEADLOCK FALSE
