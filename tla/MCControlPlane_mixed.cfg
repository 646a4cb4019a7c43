\* The command line and the API work on one tenant at once: deletions and suspensions.
CONSTANTS
  a = a
  b = b
  c = c
  Tenants = {a, b}
  TofuTenants = {}
  Platform = a
  Handlers = {h1}
  Threads = {j1}
  Shells = {s1}
  Workers = {h1, j1, s1}
  Faults = {"kubectl", "lost_job", "aws", "db", "crash"}
  MaxFaults = 1
  RecoveryWindow = FALSE
  Targets = {b}
  Ops = {"delete", "suspend"}
  Origins = {"active", "failed"}
SPECIFICATION CPSpec
INVARIANTS CPTypeOK ApartInv NoOrphans DeleteStepTruthful
PROPERTIES ImplementsOrder
CHECK_DEADLOCK FALSE
