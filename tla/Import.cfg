SPECIFICATION Spec
CONSTANTS
  Procs = {p1, p2, p3}
  coffee = coffee
  rent = rent
  BadRow = BadRow
  Hashes = {coffee, rent}
  Files <- MCFiles
  MaxFaults = 1
SYMMETRY Symmetry
INVARIANTS EveryRowPosted OwnRowsOnce DuplicatesBounded
