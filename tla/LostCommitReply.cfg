SPECIFICATION Spec
CONSTANTS
  Requests = {q1, q2}
  Hashes = {h1}
  NoResponse = NoResponse
  MaxFaults = 1
INVARIANTS
  NotChargedTwice
CHECK_DEADLOCK FALSE
