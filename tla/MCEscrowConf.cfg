\* Two offers for one request, two handlers and the sweep, a suspension, and no crash.
CONSTANTS
  o1 = o1
  o2 = o2
  s1 = s1
  r1 = r1
  h1 = h1
  h2 = h2
  cron = cron
  NoOrder = NoOrder
  Deposits = {}
  Withdrawals = {}
  Legacy = {}
  Spends = {s1}
  Purchases = {o1, o2}
  Opening = 3
  Amount <- MCAmount
  Requests = {r1}
  RequestOf <- MCRequestOf
  Tasks = {h1, h2, cron}
  Cron = cron
  AutoComplete = TRUE
  MaxFaults = 0
  MaxToggles = 2
SPECIFICATION EscrowSpec
INVARIANTS ConfirmedNotDisputed
CHECK_DEADLOCK FALSE
