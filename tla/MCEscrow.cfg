\* Two offers for one request, two handlers and the cron's sweep, a wallet that
\* pays for both or for a purchase elsewhere, one crash or lost answer, and a
\* suspension that comes and ends.
CONSTANTS
  o1 = o1
  o2 = o2
  s1 = s1
  r1 = r1
  h1 = h1
  h2 = h2
  cron = cron
  NoOrder = NoOrder
  Deposits = {}
  Withdrawals = {}
  Legacy = {}
  Spends = {s1}
  Purchases = {o1, o2}
  Opening = 3
  Amount <- MCAmount
  Requests = {r1}
  RequestOf <- MCRequestOf
  Tasks = {h1, h2, cron}
  Cron = cron
  AutoComplete = TRUE
  MaxFaults = 1
  MaxToggles = 2
SPECIFICATION EscrowFairSpec
INVARIANTS EscrowTypeOK EscrowBacked OneDeal OrderFollowsMoney CountedOnce
PROPERTIES DisputeFreezes ImplementsSettlement OrphansReleased EventuallyPaid
CHECK_DEADLOCK FALSE
