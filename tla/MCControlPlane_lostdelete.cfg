\* A DELETE arrives while the tenant is being provisioned.
CONSTANTS
  a = a
  b = b
  c = c
  Tenants = {a, b}
  TofuTenants = {}
  Platform = a
  Handlers = {h1}
  Threads = {j1}
  Shells = {}
  Workers = {h1, j1}
  Faults = {}
  MaxFaults = 0
  RecoveryWindow = FALSE
  Targets = {b}
  Ops = {"create", "delete"}
  Origins = {"absent"}
SPECIFICATION CPSpec
PROPERTIES GoneStays
CHECK_DEADLOCK FALSE
