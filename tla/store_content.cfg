SPECIFICATION Spec
CONSTANTS
  Tenants = {t1, t2}
  Actors = {x1}
  Artifacts = {a1, a2}
  Contents = {d1, d2}
  EdgeTypes = {e1}
  EdgeNotes = {n1, n2}
  Clients = {c1, c2}
  None = None
  Torn = Torn
  Ops = {"create", "write", "read", "link"}
  Enforced = TRUE
  Hosted = FALSE
  PowerMayFail = FALSE
  MaxVersions = 3
  MaxShares = 0
  MaxSuspended = 1
SYMMETRY Symmetry
INVARIANTS
  LinearHistory
  CommittedBlobPresent
  ReadCoherent
  RowsInTenant
  LinkAnsweredTruly

PROPERTIES
  RegisterKept
