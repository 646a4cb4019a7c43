\* Two deletions of the same tenant at once, with failures and crashes.
CONSTANTS
  a = a
  b = b
  Tenants = {a, b}
  Platform = a
  Workers = {w1, w2}
  Faults = {"kubectl", "lost_job", "tofu", "aws", "db", "crash"}
  MaxFaults = 2
  RecoveryWindow = FALSE
  TofuTenants = {}
  Targets = {b}
  Origins = {"absent", "active", "suspended", "failed"}
SPECIFICATION FairSpec
INVARIANTS IInv NoOrphans DeleteStepTruthful
PROPERTIES ImplementsOrder EventuallyGone
