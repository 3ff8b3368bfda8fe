SPECIFICATION Spec
CONSTANTS
  Requests = {q1, q2, q3}
  Hashes = {h1, h2}
  NoResponse = NoResponse
  MaxFaults = 2
INVARIANTS
  AnsweredOnce
PROPERTIES
  RefinesKey
  ReplaysTheAnswer
  ClaimsAreFreed
CHECK_DEADLOCK FALSE
