SPECIFICATION Spec
CONSTANTS
  Accounts <- MCAccounts
  Type <- MCType
  Users = {"user", "other"}
  User = "user"
  Owner <- MCOwner
  EntryLists <- MCEntryLists
  Month <- MCMonth
  Categories = {groceries}
  NULL = NULL
  Scale = 1
  MaxAmount = 10
  MaxDay = 3
  MaxJournals = 3
  Filters <- MCFilters
  Sizes = {0, 1, 2}
CHECK_DEADLOCK FALSE
INVARIANTS BalancesNetVoids ReportsAddUp ProfitIsGain BreakdownMatchesBudget PagesAreListing
