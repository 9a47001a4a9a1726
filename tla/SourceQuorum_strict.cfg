SPECIFICATION Spec
CONSTANTS
  N = 3
  Quorum = 2
  EvictAt = 1
  MaxHeight = 2
  MaxFaults = 1
CHECK_DEADLOCK FALSE
INVARIANT StrictGateHolds
