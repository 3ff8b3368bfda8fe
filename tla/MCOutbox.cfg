SPECIFICATION Spec
CONSTANTS
  Streams = {k1}
  Publishers = {p1, p2}
  BatchSize = 2
  MaxAttempts = 2
  Stamps = {1, 2}
  MaxRows = 2
  MaxFaults = 2
INVARIANTS
  RedeliveredOnlyAfterRetry
  OrderedUntilFault
PROPERTIES
  RefinesLog
  EveryRowIsAccountedFor
CHECK_DEADLOCK FALSE
