\* A suspension whose Ingress call failed, and the reconciler.
CONSTANTS
  a = a
  b = b
  c = c
  Tenants = {a, b}
  TofuTenants = {}
  Platform = a
  Handlers = {}
  Threads = {}
  Shells = {s1}
  Workers = {s1}
  Faults = {"kubectl"}
  MaxFaults = 1
  RecoveryWindow = FALSE
  Targets = {b}
  Ops = {"suspend", "reconcile"}
  Origins = {"active"}
SPECIFICATION ReconciledSpec
PROPERTIES SuspendedConverges
CHECK_DEADLOCK FALSE
