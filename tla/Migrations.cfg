SPECIFICATION FairSpec
CONSTANTS
  Replicas = {r1, r2, r3}
  N = 3
  MaxFaults = 2
INVARIANTS RecordedIsApplied ServesOnFullSchema
PROPERTIES AllServe
CHECK_DEADLOCK FALSE
