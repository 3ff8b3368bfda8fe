SPECIFICATION MembershipSpec
CONSTANTS
  Users = {u1, u2, u3}
  Founder = u1
  Tokens = {t1, t2}
  Connections = {c1, c2}
  MaxRequests = 3
SYMMETRY Symmetry
INVARIANTS
  AcceptedOnce
  AdmittedOnAuthority
PROPERTIES
  LockOutIsFinal
CHECK_DEADLOCK FALSE
