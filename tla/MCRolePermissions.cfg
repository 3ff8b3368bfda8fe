SPECIFICATION Spec
CONSTANTS
  Permissions = {read, write}
  Defaults = {read}
  Editors = {e1, e2}
  Readers = {r1, r2}
  MaxEdits = 3
  MaxFaults = 1
INVARIANTS
  LastEditIsInForce
  StaleEntryHasACause
PROPERTIES
  CacheCatchesUp
CHECK_DEADLOCK FALSE
