SPECIFICATION Spec
CONSTANTS
  Procs = {p1, p2}
  Accounts = {a1}
  Types = {asset}
  Categories = {c1, c2}
  Budgets = {b1, b2}
  Labels = {home, work}
  Months = {may}
  Amounts = {0, 1, 2}
  Column <- MCColumn
  Thresholds = {0, 50}
  MaxUpdates = 3
  NULL = NULL
SYMMETRY Symmetry
INVARIANTS LostOnlyToOverlap CirclesAreMoved
CHECK_DEADLOCK FALSE
