SPECIFICATION ProvisionSpec
CONSTANTS
  Attempts = {g1, g2}
  Rows <- MCRows
  Reapers = {p1, p2}
  MaxAttempts = 2
  MaxFaults = 2
SYMMETRY Symmetry
INVARIANTS
  OwnerlessOrgHasACause
  StrayAccountHasACause
  DoneMeansUndone
CHECK_DEADLOCK FALSE
