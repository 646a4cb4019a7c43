\* One operator at the command line, every command in any order, and the reconciler.
CONSTANTS
  a = a
  b = b
  c = c
  Tenants = {a, b}
  TofuTenants = {}
  Platform = a
  Handlers = {}
  Threads = {}
  Shells = {s1}
  Workers = {s1}
  Faults = {"kubectl", "get_ns", "lost_job", "tofu", "aws", "db", "crash", "drift"}
  MaxFaults = 1
  RecoveryWindow = TRUE
  Targets = {b}
  Ops = {"create", "delete", "suspend", "resume", "reconcile", "reconcile_all", "adopt", "adopt_all"}
  Origins = {"absent", "suspended", "failed", "unrecorded"}
SPECIFICATION ReconciledSpec
INVARIANTS TypeInv
PROPERTIES ActiveConverges GoneConverges
CHECK_DEADLOCK FALSE
