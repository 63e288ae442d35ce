SPECIFICATION Spec
CONSTANTS
  Procs = {p1, p2}
  coffee = coffee
  rent = rent
  BadRow = BadRow
  Hashes = {coffee, rent}
  Files <- MCFiles
  MaxFaults = 0
SYMMETRY Symmetry
INVARIANTS ImportedOnce
