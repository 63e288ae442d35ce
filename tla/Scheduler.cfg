SPECIFICATION FairSpec
CONSTANTS
  Replicas = {r1, r2}
  Schedules = {s1, s2}
  Unpostable = {s2}
  Frequencies = {"daily", "monthly"}
  LastMonth = 17
  MonthStart <- MCMonthStart
  MonthOf <- MCMonthOf
  Shortest = 28
  Longest = 31
  FirstTime = 29
  MaxTime = 30
  MaxEdits = 1
  MaxFaults = 1
  NULL = NULL
INVARIANTS NeverEarly KeepsPace
PROPERTIES NothingSkipped DeletedStaysQuiet DuePosted Settles
