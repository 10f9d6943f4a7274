SPECIFICATION Spec
CONSTANTS
  Tenants = {t1}
  Actors = {x1, x2}
  Artifacts = {a1}
  Contents = {d1}
  EdgeTypes = {e1}
  EdgeNotes = {n1}
  Clients = {c1, c2}
  None = None
  Torn = Torn
  Ops = {"create", "write", "share", "revoke"}
  Enforced = TRUE
  Hosted = FALSE
  PowerMayFail = FALSE
  MaxVersions = 2
  MaxShares = 1
  MaxSuspended = 0
INVARIANTS
  FailedCallLeavesNoTrace
