SPECIFICATION Spec
CONSTANTS
  Tenants = {t1, t2}
  Conns = {k1, k2}
  Names = {n1}
  Items = {i1}
  Clients = {c1, c2, c3}
  None = None
  Ops = {"register", "revoke", "status", "health", "tool", "resource"}
  SlotLimit = 2
  SlotsPerKey = 2
  MaxCalls = 3
SYMMETRY Symmetry
INVARIANTS
  UsesApproved
  SlotsMatchCalls
  AuditTruthful
PROPERTIES
  GateKept
  RevokedForGood
CHECK_DEADLOCK FALSE
