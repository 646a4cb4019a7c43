\* Every kind of job ends, with a failing call.
CONSTANTS
  a = a
  b = b
  c = c
  Tenants = {a, b}
  TofuTenants = {}
  Platform = a
  Handlers = {h1}
  Threads = {j1}
  Shells = {}
  Workers = {h1, j1}
  Faults = {"kubectl", "lost_job", "tofu", "aws", "db"}
  MaxFaults = 1
  RecoveryWindow = FALSE
  Targets = {b}
  Ops = {"create", "delete", "suspend", "resume"}
  Origins = {"absent", "suspended"}
SPECIFICATION CPFairSpec
PROPERTIES InflightDrains
CHECK_DEADLOCK FALSE
