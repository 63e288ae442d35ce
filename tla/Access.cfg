SPECIFICATION Spec
CONSTANTS
  Tabs = {t1, t2}
  Replicas = {r1}
  Origins = {o1, o2}
  Emails = {e1}
  Passwords = {p1, p2}
  Keys <- MCKeys
  Limit <- MCLimit
  Duration <- MCDuration
  MaxTime = 2
  AccessTTL = 1
  RefreshTTL = 2
  MaxFaults = 1
  MaxSent = 4
  NULL = NULL
SYMMETRY Symmetry
INVARIANTS AtMostTwice CanSignIn TokensNameUsers RefusedOnlyExpired LogoutHolds
PROPERTIES RefusedOnlyWhenFull
CHECK_DEADLOCK FALSE
