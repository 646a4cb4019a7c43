\* One tenant is deleted while another is provisioned.
CONSTANTS
  a = a
  b = b
  c = c
  Tenants = {a, b, c}
  TofuTenants = {}
  Platform = a
  Handlers = {h1}
  Threads = {j1, j2}
  Shells = {}
  Workers = {h1, j1, j2}
  Faults = {}
  MaxFaults = 0
  RecoveryWindow = FALSE
  Targets = {b, c}
  Ops = {"create", "delete"}
  Origins = {"absent", "active"}
SPECIFICATION CPSpec
INVARIANTS NoOrphanedAccess
CHECK_DEADLOCK FALSE
