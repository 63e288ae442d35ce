SPECIFICATION ListingSpec
CONSTANTS
  Ids = {j1, j2, j3}
  Accounts <- MCAccounts
  Users = {"user", "other"}
  User = "user"
  Owner <- MCOwner
  EntryLists <- MCEntryLists
  MaxDay = 2
  Sizes = {2}
  MaxFaults = 1
  Scale = 1
  MaxAmount = 10
  NULL = NULL
SYMMETRY Symmetry
INVARIANTS WalkShowsAll RepeatsExplained BalancesOfAMoment
