\* Two orders of two lines and two corrections over two rows, the first row too
\* short for both orders; two tasks that interleave and die anywhere.
CONSTANTS
  oa = oa
  ob = ob
  a1 = a1
  a2 = a2
  b1 = b1
  b2 = b2
  r1 = r1
  r2 = r2
  up = up
  down = down
  t1 = t1
  t2 = t2
  Orders = {oa, ob}
  Lines <- MCLines
  Rows = {r1, r2}
  RowOf <- MCRowOf
  Qty <- MCQty
  Opening <- MCOpening
  Prepaid = {ob}
  Incoming = {up}
  Outgoing = {down}
  Figures <- MCFigures
  MaxSaves = 1
  Tasks = {t1, t2}
SPECIFICATION Spec
SYMMETRY Symmetry
INVARIANTS TypeOK NeverOversold CountersMatchLedger OrderIsHeld ReturnsFollowTaking
CHECK_DEADLOCK FALSE
