\* A deletion dies after the namespace has gone, and the reconciler finds it.
CONSTANTS
  a = a
  b = b
  c = c
  Tenants = {a, b}
  TofuTenants = {}
  Platform = a
  Handlers = {}
  Threads = {}
  Shells = {s1}
  Workers = {s1}
  Faults = {"crash"}
  MaxFaults = 1
  RecoveryWindow = FALSE
  Targets = {b}
  Ops = {"delete", "reconcile"}
  Origins = {"active"}
SPECIFICATION CPSpec
PROPERTIES OwnedReleased
CHECK_DEADLOCK FALSE
