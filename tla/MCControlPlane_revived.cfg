\* A reconciliation beside a deletion of the same tenant.
CONSTANTS
  a = a
  b = b
  c = c
  Tenants = {a, b}
  TofuTenants = {}
  Platform = a
  Handlers = {}
  Threads = {}
  Shells = {s1, s2}
  Workers = {s1, s2}
  Faults = {}
  MaxFaults = 0
  RecoveryWindow = FALSE
  Targets = {b}
  Ops = {"delete", "reconcile_all"}
  Origins = {"active"}
SPECIFICATION CPSpec
PROPERTIES DesiredByCommand
CHECK_DEADLOCK FALSE
