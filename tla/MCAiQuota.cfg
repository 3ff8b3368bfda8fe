SPECIFICATION Spec
CONSTANTS
  Requests = {q1, q2, q3}
  Cost = 2
  Capacity = 2
  MaxTime = 5
INVARIANTS
  BurstIsBounded
PROPERTIES
  RefusalsAreDeserved
CHECK_DEADLOCK FALSE
