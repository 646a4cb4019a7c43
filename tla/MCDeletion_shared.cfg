\* The platform tenant, which hosts the drop-role Jobs, is deleted as well; the
\* other tenant's AWS side belongs to OpenTofu, secrets keep a recovery window,
\* and kubectl get ns may wrongly report a namespace missing.
CONSTANTS
  a = a
  b = b
  Tenants = {a, b}
  Platform = a
  Workers = {w1, w2}
  Faults = {"kubectl", "get_ns", "lost_job", "aws", "crash"}
  MaxFaults = 1
  RecoveryWindow = TRUE
  TofuTenants = {b}
  Targets = {a, b}
  Origins = {"active", "suspended"}
SPECIFICATION Spec
SYMMETRY WorkerSymmetry
INVARIANTS TypeOK NoOrphans DeleteStepTruthful
PROPERTIES ImplementsOrder
