SPECIFICATION Spec
CONSTANTS
  Sagas = {s1}
  Cost = 2
  Amounts = {1}
  MaxCredits = 4
  Replicas = {p1, p2}
  MaxAttempts = 2
  SweepBatch = 1
  MaxFaults = 3
INVARIANTS
  RepliesAreHonest
  OpenHoldIsOnRecord
  DoneMeansSettled
PROPERTIES
  EveryHoldSettles
CHECK_DEADLOCK FALSE
