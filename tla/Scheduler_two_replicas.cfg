SPECIFICATION Spec
CONSTANTS
  Replicas = {r1, r2}
  Schedules = {s1}
  Unpostable = {}
  Frequencies = {"daily", "weekly", "monthly"}
  LastMonth = 17
  MonthStart <- MCMonthStart
  MonthOf <- MCMonthOf
  Shortest = 28
  Longest = 31
  FirstTime = 0
  MaxTime = 2
  MaxEdits = 0
  MaxFaults = 0
  NULL = NULL
INVARIANTS PostedOnce
