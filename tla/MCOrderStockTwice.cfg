\* The same two orders, both prepaid: neither is ever reopened.
CONSTANTS
  oa = oa
  ob = ob
  a1 = a1
  a2 = a2
  b1 = b1
  b2 = b2
  r1 = r1
  r2 = r2
  up = up
  down = down
  t1 = t1
  t2 = t2
  Orders = {oa, ob}
  Lines <- MCLines
  Rows = {r1, r2}
  RowOf <- MCRowOf
  Qty <- MCQty
  Opening <- MCOpening
  Prepaid = {oa, ob}
  Incoming = {up}
  Outgoing = {down}
  Figures <- MCFigures
  MaxSaves = 0
  Tasks = {t1, t2}
SPECIFICATION Spec
INVARIANTS HoldSpentOnce
CHECK_DEADLOCK FALSE
