\* Overlapping creations, deletions and resumptions over HTTP, with a failing call.
CONSTANTS
  a = a
  b = b
  c = c
  Tenants = {a, b}
  TofuTenants = {}
  Platform = a
  Handlers = {h1, h2}
  Threads = {j1, j2}
  Shells = {}
  Workers = {h1, h2, j1, j2}
  Faults = {"kubectl", "tofu", "aws", "db"}
  MaxFaults = 1
  RecoveryWindow = FALSE
  Targets = {b}
  Ops = {"create", "delete", "resume"}
  Origins = {"absent", "suspended"}
SPECIFICATION CPSpec
SYMMETRY ActorSymmetry
INVARIANTS JobsSerialised ActiveIsReady OwnedInv ReadyInv
PROPERTIES OwnedReleased
CHECK_DEADLOCK FALSE
