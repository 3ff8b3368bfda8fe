SPECIFICATION Spec
CONSTANTS
  Rows = {i1, i2}
  Reapers = {p1, p2}
  MaxAttempts = 2
  MaxFaults = 1
INVARIANTS
  ClaimIsExclusive
  GivenUpOnlyAfterMaxAttempts
PROPERTIES
  EveryRowSettles
CHECK_DEADLOCK FALSE
