SPECIFICATION EngagementSpec
CONSTANTS
  Users = {u1, u2}
  Items = {i1, i2}
  Space = s1
  Connections = {c1, c2}
  Limits = {0, 3}
  DefaultTake = 1
  MaxTake = 1
  MaxCommands = 3
SYMMETRY Symmetry
INVARIANTS
  SummaryErrsByOverlap
  
  EventsMatchFollows
CHECK_DEADLOCK FALSE
