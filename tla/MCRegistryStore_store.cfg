\* Two processes on one database, with a tenants.json.
CONSTANTS
  a = a
  b = b
  Tenants = {b}
  Conns = {"cli", "flask"}
  DesiredArgs = {"unset", "nonsense"}
  StatusArgs = {"unset", "SUSPENDED"}
  OwnerArgs = {"unset"}
  StepArgs = {"unset"}
  Legacy = {b}
  LegacyStatus = "DELETE_FAILED"
  LegacyOwner = "control_plane"
  LegacyStep = "db_revoked"
  MaxVersion = 3
  MaxDeletions = 1
SPECIFICATION StoreFairSpec
INVARIANTS StoreTypeOK NoLostUpdate
PROPERTIES ImplementsRegistry LockFreed
