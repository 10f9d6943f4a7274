SPECIFICATION Spec
CONSTANTS
  Tenants = {t1}
  Actors = {x1}
  Artifacts = {a1}
  Contents = {d1}
  EdgeTypes = {e1}
  EdgeNotes = {n1}
  Clients = {c1, c2}
  None = None
  Torn = Torn
  Ops = {"create", "write", "read"}
  Enforced = TRUE
  Hosted = FALSE
  PowerMayFail = TRUE
  MaxVersions = 2
  MaxShares = 0
  MaxSuspended = 0
INVARIANTS
  DurablyAssociated
