\* Two deposits, two withdrawals, one withdrawal from before
\* requests and holds, a spend and a purchase over an opening balance
\* of three cents, which pays for some of them but never for all.
CONSTANTS
  d1 = d1
  d2 = d2
  w1 = w1
  w2 = w2
  l1 = l1
  s1 = s1
  h1 = h1
  Deposits = {d1, d2}
  Withdrawals = {w1, w2}
  Legacy = {l1}
  Spends = {s1}
  Purchases = {h1}
  Opening = 3
  Amount <- MCAmount
SPECIFICATION WalletSpec
INVARIANTS NeverOverdrawn ReportExplained
PROPERTIES DecidedIsFinal
CHECK_DEADLOCK FALSE
