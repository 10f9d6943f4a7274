SPECIFICATION Spec
CONSTANTS
  Browsers = {b1, b2}
  Users = {u1}
  Processes = {p1, p2}
  NoOne = NoOne
  Scopes = {s1, s2}
  Absolute = 3
  Idle = 2
  LoginTtl = 1
  MaxTime = 3
  MaxLogins = 1
  MaxSessions = 2
  MaxChanges = 2
SYMMETRY Symmetry
INVARIANTS
  RestsOnMembership
  OverForGood
  IdleEnds
  OwnLogin
CHECK_DEADLOCK FALSE
