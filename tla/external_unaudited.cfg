SPECIFICATION Spec
CONSTANTS
  Tenants = {t1}
  Conns = {k1}
  Names = {n1}
  Items = {i1}
  Clients = {c1}
  None = None
  Ops = {"register", "tool"}
  SlotLimit = 1
  SlotsPerKey = 1
  MaxCalls = 2
INVARIANT EveryUseAudited
CHECK_DEADLOCK FALSE
