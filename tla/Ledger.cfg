SPECIFICATION Spec
CONSTANTS
  Procs = {p1, p2}
  Ids = {j1, j2, j3}
  Users = {alice, bob}
  cash = cash
  food = food
  Accounts = {cash, food}
  Scale = 2
  MaxAmount = 2
  NULL = NULL
  EntryLists <- MCEntryLists
SYMMETRY Symmetry
INVARIANTS Balanced ReversalMirrors AnswersAreTrue AuditSound
PROPERTIES ImplementsBook
