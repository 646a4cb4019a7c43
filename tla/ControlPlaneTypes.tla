------------------------- MODULE ControlPlaneTypes -------------------------
(***************************************************************************)
(* Every variable of ControlPlane keeps its type, for every set of tenants *)
(* and workers, every choice of operations, situations and failures.       *)
(***************************************************************************)
EXTENDS Invariants, TeardownProofs, ControlPlaneProofs

-----------------------------------------------------------------------------
(* What the procedures write.                                              *)

\* Every upsert of the other procedures writes a row.
LEMMA WriteType ==
  ASSUME NEW r \in RowType \cup {NoRow}, NEW s \in STATUSES, NEW d \in DESIRED_STATUSES
  PROVE  /\ Upsert(r, d, s) \in RowType
         /\ UpsertStatus(r, s) \in RowType
         /\ UpsertObserved(r) \in RowType
         /\ [Upsert(r, d, s) EXCEPT !.owner = "control_plane"] \in RowType
<1>1. \A x \in STATUSES : Stored(r, x) \in RowType
  <2>1. \A x \in STATUSES : InferredDesired(x) \in DESIRED_STATUSES
    BY DEF InferredDesired, DESIRED_STATUSES, STATUSES
  <2>. QED  BY <2>1 DEF Stored, RowType, Owners, DeleteSteps
<1>2. Upsert(r, d, s) \in RowType
  <2>1. Stored(r, s) \in RowType
    BY <1>1
  <2>. QED  BY <2>1 DEF Upsert, RowType
<1>3. UpsertStatus(r, s) \in RowType
  BY <1>1 DEF UpsertStatus, RowType
<1>4. UpsertObserved(r) \in RowType
  BY <1>1 DEF UpsertObserved, STATUSES
<1>5. [Upsert(r, d, s) EXCEPT !.owner = "control_plane"] \in RowType
  BY <1>2 DEF RowType, Owners
<1>. QED  BY <1>2, <1>3, <1>4, <1>5

LEMMA RowWriteType ==
  ASSUME row \in [Tenants -> RowType \cup {NoRow}], NEW t \in Tenants, NEW r \in RowType,
         row' = [row EXCEPT ![t] = r]
  PROVE  row' \in [Tenants -> RowType \cup {NoRow}]
OBVIOUS

\* What applying a namespace, Helm and kubectl scale leave behind.
LEMMA InstallType ==
  ASSUME NEW k \in K8sType, NEW b \in BOOLEAN, NEW n \in {0, 1}
  PROVE  /\ Installed(k, b) \in K8sType
         /\ ScaledTo(k, n) \in K8sType
         /\ [k EXCEPT !.ns = TRUE] \in K8sType
         /\ WithoutIngress(k) \in K8sType
<1>1. Installed(k, b) \in K8sType
  <2>1. ASSUME NEW i \in BOOLEAN
        PROVE  [k EXCEPT !.release = TRUE, !.replicas = 1, !.ingress = i] \in K8sType
    <3>1. 1 \in 0..1
      OBVIOUS
    <3>. QED  BY <3>1, Zenon DEF K8sType
  <2>2. (k.ingress \/ b) \in BOOLEAN
    OBVIOUS
  <2>. QED  BY <2>1, <2>2, Zenon DEF Installed
<1>2. ScaledTo(k, n) \in K8sType
  BY DEF ScaledTo, K8sType
<1>3. [k EXCEPT !.ns = TRUE] \in K8sType
  BY DEF K8sType
<1>4. WithoutIngress(k) \in K8sType
  BY DEF WithoutIngress, K8sType
<1>. QED  BY <1>1, <1>2, <1>3, <1>4

-----------------------------------------------------------------------------
(* provision, resume_tenant and the migrate Job.                           *)

LEMMA OnbMoves ==
  ASSUME onb \in [Workers -> OnbFrame], NEW w \in Workers
  PROVE  /\ \A label \in OnbPC : OnbTo(w, label) => onb' \in [Workers -> OnbFrame]
         /\ \A kind \in {"retryable", "permanent", "other"} :
              OnbRaise(w, kind) => onb' \in [Workers -> OnbFrame]
<1>1. ASSUME NEW label \in OnbPC, OnbTo(w, label)  PROVE onb' \in [Workers -> OnbFrame]
  BY <1>1 DEF OnbTo, OnbFrame
<1>2. ASSUME NEW kind \in {"retryable", "permanent", "other"}, OnbRaise(w, kind)
      PROVE  onb' \in [Workers -> OnbFrame]
  <2>1. \A label \in {"except", "raised"} : [onb[w] EXCEPT !.pc = label, !.exc = kind] \in OnbFrame
    BY DEF OnbFrame, OnbPC
  <2>. QED  BY <1>2, <2>1 DEF OnbRaise
<1>. QED  BY <1>1, <1>2

LEMMA OnbStepTypeOK ==
  ASSUME WorldTypeOK, OnboardingTypeOK, NEW w \in Workers, OnboardingStep(w)
  PROVE  WorldTypeOK' /\ OnboardingTypeOK'
<1>. DEFINE t == onb[w].tenant
            s == onb[w].site
<1>0. /\ onb \in [Workers -> OnbFrame] /\ onb[w] \in OnbFrame /\ mig \in MigType
      /\ t \in Tenants /\ s \in Tenants /\ onb[w].map \in SUBSET Tenants
      /\ row \in [Tenants -> RowType \cup {NoRow}] /\ row[t] \in RowType \cup {NoRow}
      /\ k8s \in [Tenants -> K8sType] /\ k8s[s] \in K8sType /\ k8s[t] \in K8sType
      /\ aws \in [Tenants -> AwsType] /\ aws[t] \in AwsType
      /\ role \in [Tenants -> RoleType] /\ faults \in 0..MaxFaults
  BY DEF WorldTypeOK, OnboardingTypeOK, OnbFrame
<1>1. ASSUME row' \in [Tenants -> RowType \cup {NoRow}], k8s' \in [Tenants -> K8sType],
             aws' \in [Tenants -> AwsType], role' = role, faults' \in 0..MaxFaults,
             onb' \in [Workers -> OnbFrame], mig' \in MigType
      PROVE  WorldTypeOK' /\ OnboardingTypeOK'
  BY <1>0, <1>1 DEF WorldTypeOK, OnboardingTypeOK
<1>2. \A label \in OnbPC : OnbTo(w, label) => onb' \in [Workers -> OnbFrame]
  BY <1>0, OnbMoves
<1>3. \A kind \in {"retryable", "permanent", "other"} :
        OnbRaise(w, kind) => onb' \in [Workers -> OnbFrame]
  BY <1>0, OnbMoves
<1>4. OnbPC = {"idle", "except", "returned", "raised", "mark", "record", "activate", "get",
               "outputs", "secret", "irsa", "snapshot", "ns", "clear", "helm", "wait", "scale",
               "edge"}
  BY DEF OnbPC, OnbMarkPC, OnbCallPC
<1>5. \A st \in STATUSES : /\ Upsert(row[t], "ACTIVE", st) \in RowType
                           /\ [Upsert(row[t], "ACTIVE", st) EXCEPT !.owner = "control_plane"] \in RowType
  BY <1>0, WriteType DEF DESIRED_STATUSES
<1>6. CASE MarkProvisioning(w) \/ RecordIdentity(w) \/ Activate(w)
  <2>1. \E r \in RowType : row' = [row EXCEPT ![t] = r]
    BY <1>0, <1>5, <1>6 DEF MarkProvisioning, RecordIdentity, Activate, STATUSES
  <2>2. row' \in [Tenants -> RowType \cup {NoRow}]
    BY <1>0, <2>1
  <2>3. onb' \in [Workers -> OnbFrame]
    BY <1>2, <1>4, <1>6 DEF MarkProvisioning, RecordIdentity, Activate
  <2>. QED  BY <1>0, <1>1, <1>6, <2>2, <2>3 DEF MarkProvisioning, RecordIdentity, Activate
<1>7. CASE ProvisionFailed(w)
  <2>1. row' \in [Tenants -> RowType \cup {NoRow}]
    BY <1>0, <1>5, <1>7 DEF ProvisionFailed, STATUSES
  <2>2. onb' \in [Workers -> OnbFrame]
    BY <1>0, <1>4, <1>7 DEF ProvisionFailed, OnbFrame
  <2>. QED  BY <1>0, <1>1, <1>7, <2>1, <2>2 DEF ProvisionFailed
<1>8. CASE ReadOutputs(w) \/ WaitIngress(w) \/ GetSuspended(w)
  <2>1. onb' \in [Workers -> OnbFrame]
    BY <1>2, <1>3, <1>4, <1>8 DEF ReadOutputs, WaitIngress, GetSuspended
  <2>2. faults' \in 0..MaxFaults
    BY <1>0, <1>8, FailsType DEF ReadOutputs, WaitIngress, GetSuspended, world
  <2>. QED  BY <1>0, <1>1, <1>8, <2>1, <2>2 DEF ReadOutputs, WaitIngress, GetSuspended, world
<1>9. CASE EnsureSecret(w) \/ EnsureIrsa(w)
  <2>1. IdentityFails(w) => onb' \in [Workers -> OnbFrame]
    BY <1>2, <1>3, <1>4 DEF IdentityFails
  <2>2. onb' \in [Workers -> OnbFrame]
    BY <1>2, <1>4, <1>9, <2>1 DEF EnsureSecret, EnsureIrsa
  <2>3. aws' \in [Tenants -> AwsType]
    <3>1. \A x \in {"absent", "live"} : [aws[t] EXCEPT !.secret = x] \in AwsType
      BY <1>0 DEF AwsType
    <3>2. [aws[t] EXCEPT !.irsa = TRUE] \in AwsType
      BY <1>0 DEF AwsType
    <3>3. \/ aws' = aws
          \/ \E x \in {"absent", "live"} : aws' = [aws EXCEPT ![t].secret = x]
          \/ aws' = [aws EXCEPT ![t].irsa = TRUE]
      BY <1>9 DEF EnsureSecret, EnsureIrsa
    <3>. QED  BY <1>0, <3>1, <3>2, <3>3
  <2>4. faults' \in 0..MaxFaults
    BY <1>0, <1>9, FailsType DEF EnsureSecret, EnsureIrsa
  <2>. QED  BY <1>0, <1>1, <1>9, <2>2, <2>3, <2>4 DEF EnsureSecret, EnsureIrsa
<1>10. CASE Snapshot(w)
  <2>1. TofuTenants \cup Recorded \cup {t} \in SUBSET Tenants
    BY <1>0, TofuAssumption DEF Recorded
  <2>2. onb' \in [Workers -> OnbFrame]
    BY <1>0, <1>3, <1>4, <1>10, <2>1, PlatformAssumption DEF Snapshot, OnbFrame
  <2>3. faults' \in 0..MaxFaults
    BY <1>0, <1>10, FailsType DEF Snapshot
  <2>. QED  BY <1>0, <1>1, <1>10, <2>2, <2>3 DEF Snapshot
<1>11. CASE ApplyNs(w)
  <2>1. k8s' \in [Tenants -> K8sType]
    <3>1. [k8s[s] EXCEPT !.ns = TRUE] \in K8sType
      BY <1>0, InstallType
    <3>2. k8s' = k8s \/ k8s' = [k8s EXCEPT ![s].ns = TRUE]
      BY <1>11 DEF ApplyNs
    <3>. QED  BY <1>0, <3>1, <3>2
  <2>2. onb' \in [Workers -> OnbFrame]
    BY <1>2, <1>3, <1>4, <1>11 DEF ApplyNs
  <2>3. faults' \in 0..MaxFaults
    BY <1>0, <1>11, FailsType DEF ApplyNs
  <2>. QED  BY <1>0, <1>1, <1>11, <2>1, <2>2, <2>3 DEF ApplyNs
<1>12. CASE ClearMigrate(w)
  <2>1. onb' \in [Workers -> OnbFrame]
    BY <1>2, <1>3, <1>4, <1>12 DEF ClearMigrate
  <2>2. mig' \in MigType
    BY <1>0, <1>12 DEF ClearMigrate, NoMig, MigType
  <2>3. faults' \in 0..MaxFaults
    BY <1>0, <1>12, FailsType DEF ClearMigrate
  <2>. QED  BY <1>0, <1>1, <1>12, <2>1, <2>2, <2>3 DEF ClearMigrate
<1>13. CASE HelmUpgrade(w)
  <2>1. StartsMigrate(w) => mig' \in MigType
    BY <1>0 DEF StartsMigrate, NewMig, MigType
  <2>2. mig' \in MigType
    BY <1>0, <1>13, <2>1 DEF HelmUpgrade
  <2>3. Installed(k8s[s], TRUE) \in K8sType /\ Installed(k8s[s], FALSE) \in K8sType
    BY <1>0, InstallType
  <2>4. k8s' \in [Tenants -> K8sType]
    BY <1>0, <1>13, <2>3 DEF HelmUpgrade
  <2>5. onb' \in [Workers -> OnbFrame]
    BY <1>2, <1>3, <1>4, <1>13 DEF HelmUpgrade
  <2>6. faults' \in 0..MaxFaults
    BY <1>0, <1>13, FailsType DEF HelmUpgrade
  <2>. QED  BY <1>0, <1>1, <1>13, <2>2, <2>4, <2>5, <2>6 DEF HelmUpgrade
<1>14. CASE WaitMigrate(w)
  <2>1. onb' \in [Workers -> OnbFrame]
    BY <1>0, <1>3, <1>4, <1>14 DEF WaitMigrate, OnbFrame
  <2>2. faults' \in 0..MaxFaults
    BY <1>0, <1>14, FailsType DEF WaitMigrate
  <2>. QED  BY <1>0, <1>1, <1>14, <2>1, <2>2 DEF WaitMigrate
<1>15. CASE ScaleUp(w)
  <2>1. k8s' \in [Tenants -> K8sType]
    BY <1>0, <1>15, InstallType DEF ScaleUp
  <2>2. onb' \in [Workers -> OnbFrame]
    BY <1>2, <1>3, <1>4, <1>15 DEF ScaleUp
  <2>3. faults' \in 0..MaxFaults
    BY <1>0, <1>15, FailsType DEF ScaleUp
  <2>. QED  BY <1>0, <1>1, <1>15, <2>1, <2>2, <2>3 DEF ScaleUp
<1>. QED
  BY <1>6, <1>7, <1>8, <1>9, <1>10, <1>11, <1>12, <1>13, <1>14, <1>15 DEF OnboardingStep

LEMMA MigrateTypeOK ==
  ASSUME WorldTypeOK, OnboardingTypeOK, MigrateStep
  PROVE  WorldTypeOK' /\ OnboardingTypeOK'
<1>1. /\ onb' = onb /\ UNCHANGED <<row, k8s, aws>>
  BY DEF MigrateStep, LoadCredentials, CreateRole, MigrateError, MigrateDone, MigrateGone, world
<1>2. mig' \in MigType
  <2>1. mig \in MigType
    BY DEF OnboardingTypeOK
  <2>2. NoMig \in MigType /\ NewMig(mig.map) \in MigType
    BY <2>1 DEF NoMig, NewMig, MigType
  <2>3. CASE LoadCredentials
    <3>1. PICK t \in mig.todo :
            mig' = [mig EXCEPT !.held = {t}] \/ mig' = [mig EXCEPT !.st = "failed"]
      BY <2>3 DEF LoadCredentials
    <3>. QED  BY <2>1, <3>1 DEF MigType
  <2>4. CASE CreateRole
    <3>1. PICK t \in mig.held : mig' = [mig EXCEPT !.held = {}, !.todo = @ \ {t}]
      BY <2>4 DEF CreateRole
    <3>. QED  BY <2>1, <3>1 DEF MigType
  <2>5. CASE MigrateError
    <3>1. [mig EXCEPT !.st = "failed", !.held = {}] \in MigType
      BY <2>1 DEF MigType
    <3>. QED  BY <2>2, <2>5, <3>1 DEF MigrateError
  <2>6. CASE MigrateDone
    BY <2>1, <2>6 DEF MigrateDone, MigType
  <2>7. CASE MigrateGone
    BY <2>2, <2>7 DEF MigrateGone
  <2>. QED  BY <2>3, <2>4, <2>5, <2>6, <2>7 DEF MigrateStep
<1>3. role' \in [Tenants -> RoleType]
  BY DEF MigrateStep, LoadCredentials, CreateRole, MigrateError, MigrateDone, MigrateGone, world,
         WorldTypeOK, RoleType
<1>4. faults' \in 0..MaxFaults
  BY FailsType DEF MigrateStep, LoadCredentials, CreateRole, MigrateError, MigrateDone, MigrateGone,
         world, WorldTypeOK, Succeeds
<1>. QED  BY <1>1, <1>2, <1>3, <1>4 DEF WorldTypeOK, OnboardingTypeOK

-----------------------------------------------------------------------------
(* suspend_tenant and adopt_tenants.                                       *)

LEMMA SusStepTypeOK ==
  ASSUME WorldTypeOK, SuspensionTypeOK, NEW w \in Workers, SuspensionStep(w)
  PROVE  WorldTypeOK' /\ SuspensionTypeOK'
<1>. DEFINE t == sus[w].tenant
<1>0. /\ sus \in [Workers -> SusFrame] /\ t \in Tenants
      /\ row \in [Tenants -> RowType \cup {NoRow}] /\ row[t] \in RowType \cup {NoRow}
      /\ k8s \in [Tenants -> K8sType] /\ k8s[t] \in K8sType /\ faults \in 0..MaxFaults
  BY DEF WorldTypeOK, SuspensionTypeOK, SusFrame
<1>1. ASSUME row' \in [Tenants -> RowType \cup {NoRow}], k8s' \in [Tenants -> K8sType],
             faults' \in 0..MaxFaults, sus' \in [Workers -> SusFrame], UNCHANGED <<aws, role>>
      PROVE  WorldTypeOK' /\ SuspensionTypeOK'
  BY <1>1 DEF WorldTypeOK, SuspensionTypeOK
<1>2. \A label \in SusPC : SusTo(w, label) => sus' \in [Workers -> SusFrame]
  BY <1>0 DEF SusTo, SusFrame
<1>3. \A kind \in {"permanent", "other"} : SusRaise(w, kind) => sus' \in [Workers -> SusFrame]
  <2>. TAKE kind \in {"permanent", "other"}
  <2>. HAVE SusRaise(w, kind)
  <2>1. [sus[w] EXCEPT !.pc = "raised", !.exc = kind] \in SusFrame
    BY <1>0 DEF SusFrame, SusPC
  <2>. QED  BY <1>0, <2>1 DEF SusRaise
<1>4. sus' \in [Workers -> SusFrame]
  BY <1>2, <1>3 DEF SuspensionStep, GetStatus, ScaleDown, DropIngress, MarkSuspended, SusPC
<1>5. k8s' \in [Tenants -> K8sType]
  BY <1>0, InstallType DEF SuspensionStep, GetStatus, ScaleDown, DropIngress, MarkSuspended, world
<1>6. row' \in [Tenants -> RowType \cup {NoRow}]
  <2>1. Upsert(row[t], "SUSPENDED", "SUSPENDED") \in RowType
    BY <1>0, WriteType DEF STATUSES, DESIRED_STATUSES
  <2>2. row' = row \/ row' = [row EXCEPT ![t] = Upsert(@, "SUSPENDED", "SUSPENDED")]
    BY DEF SuspensionStep, GetStatus, ScaleDown, DropIngress, MarkSuspended, world
  <2>. QED  BY <1>0, <2>1, <2>2
<1>7. faults' \in 0..MaxFaults
  BY <1>0, FailsType DEF SuspensionStep, GetStatus, ScaleDown, DropIngress, MarkSuspended, world
<1>8. UNCHANGED <<aws, role>>
  BY DEF SuspensionStep, GetStatus, ScaleDown, DropIngress, MarkSuspended, world
<1>. QED  BY <1>1, <1>4, <1>5, <1>6, <1>7, <1>8

LEMMA AdpStepTypeOK ==
  ASSUME WorldTypeOK, AdoptionTypeOK, NEW w \in Workers, AdoptionStep(w)
  PROVE  WorldTypeOK' /\ AdoptionTypeOK'
<1>. DEFINE t == adp[w].tenant
<1>0. /\ adp \in [Workers -> AdpFrame] /\ adp[w] \in AdpFrame /\ t \in Tenants
      /\ row \in [Tenants -> RowType \cup {NoRow}] /\ row[t] \in RowType \cup {NoRow}
      /\ faults \in 0..MaxFaults
  BY DEF WorldTypeOK, AdoptionTypeOK, AdpFrame
<1>1. \A label \in AdpPC : AdpTo(w, label) => adp' \in [Workers -> AdpFrame]
  BY <1>0 DEF AdpTo, AdpFrame
<1>2. CASE Adopt(w)
  <2>. DEFINE orActive(v) == IF v = "none" THEN "ACTIVE" ELSE v
              r == [Upsert(row[t], orActive(adp[w].desired), orActive(adp[w].status))
                      EXCEPT !.owner = "control_plane"]
  <2>1. orActive(adp[w].desired) \in DESIRED_STATUSES /\ orActive(adp[w].status) \in STATUSES
    BY <1>0 DEF AdpFrame, STATUSES, DESIRED_STATUSES
  <2>2. r \in RowType
    BY <1>0, <2>1, WriteType
  <2>3. row' = [row EXCEPT ![t] = r]
    BY <1>0, <1>2 DEF Adopt
  <2>4. row' \in [Tenants -> RowType \cup {NoRow}]
    BY <1>0, <2>2, <2>3
  <2>5. adp' \in [Workers -> AdpFrame]
    BY <1>0, <1>2, PlatformAssumption DEF Adopt, AdpFrame, AdpPC
  <2>. QED  BY <1>2, <2>4, <2>5 DEF Adopt, WorldTypeOK, AdoptionTypeOK
<1>3. CASE GetExisting(w)
  <2>1. row[t].desired \in DESIRED_STATUSES \cup {"none"} /\ row[t].status \in STATUSES \cup {"none"}
    BY <1>0 DEF RowType, NoRow
  <2>2. adp' \in [Workers -> AdpFrame]
    BY <1>0, <1>3, <2>1 DEF GetExisting, AdpFrame, AdpPC
  <2>. QED  BY <1>3, <2>2 DEF GetExisting, world, WorldTypeOK, AdoptionTypeOK
<1>4. CASE Discover(w)
  <2>1. {u \in Tenants : aws[u].secret = "live"} \in SUBSET Tenants
    OBVIOUS
  <2>2. adp' \in [Workers -> AdpFrame]
    BY <1>0, <1>1, <1>4, <2>1 DEF Discover, AdpFrame, AdpPC
  <2>3. faults' \in 0..MaxFaults
    BY <1>0, <1>4, FailsType DEF Discover
  <2>. QED  BY <1>4, <2>2, <2>3 DEF Discover, WorldTypeOK, AdoptionTypeOK
<1>5. CASE NextId(w)
  <2>1. adp' \in [Workers -> AdpFrame]
    <3>1. ASSUME NEW u \in adp[w].todo,
                 adp' = [adp EXCEPT ![w].pc = "secret", ![w].tenant = u, ![w].todo = @ \ {u}]
          PROVE  adp' \in [Workers -> AdpFrame]
      <4>1. u \in Tenants /\ adp[w].todo \ {u} \in SUBSET Tenants
        BY <1>0 DEF AdpFrame
      <4>. QED  BY <1>0, <3>1, <4>1 DEF AdpFrame, AdpPC
    <3>2. ASSUME AdpTo(w, "returned")  PROVE adp' \in [Workers -> AdpFrame]
      BY <1>1, <3>2 DEF AdpPC
    <3>. QED  BY <1>5, <3>1, <3>2 DEF NextId
  <2>. QED  BY <1>5, <2>1 DEF NextId, world, WorldTypeOK, AdoptionTypeOK
<1>6. CASE AdoptionOutputs(w) \/ DescribeSecret(w) \/ GetRole(w)
  <2>1. adp' \in [Workers -> AdpFrame]
    BY <1>1, <1>6 DEF AdoptionOutputs, DescribeSecret, GetRole, AdpPC
  <2>2. faults' \in 0..MaxFaults
    BY <1>0, <1>6, FailsType DEF AdoptionOutputs, DescribeSecret, GetRole
  <2>. QED
    BY <1>6, <2>1, <2>2 DEF AdoptionOutputs, DescribeSecret, GetRole, WorldTypeOK, AdoptionTypeOK
<1>. QED  BY <1>2, <1>3, <1>4, <1>5, <1>6 DEF AdoptionStep

-----------------------------------------------------------------------------
(* The reconciler.                                                         *)

LEMMA IdleRecType == IdleRec \in RecFrame
<1>1. NothingListed \in [Tenants -> STATUSES \cup {"none"}] /\ NothingObserved \in ObservedType
  BY DEF NothingListed, NothingObserved, ObservedType
<1>. QED  BY <1>1, PlatformAssumption DEF IdleRec, RecFrame, RecPC, Plans, ErrorKinds

LEMMA RecStarts ==
  ASSUME rec \in [Workers -> RecFrame], NEW w \in Workers, NEW t \in Tenants,
         StartReconcile(w, t) \/ StartPass(w)
  PROVE  rec' \in [Workers -> RecFrame] /\ RecKnows(w)'
<1>1. [IdleRec EXCEPT !.pc = "get", !.tenant = t] \in RecFrame
  BY IdleRecType DEF RecFrame, RecPC
<1>2. [IdleRec EXCEPT !.pc = "list", !.pass = TRUE] \in RecFrame
  BY IdleRecType DEF RecFrame, RecPC
<1>3. rec' \in [Workers -> RecFrame]
  BY <1>1, <1>2 DEF StartReconcile, StartPass
<1>4. /\ rec'[w].pc \in {"get", "list"} /\ rec'[w].todo = {}
      /\ rec'[w].pass => rec'[w].pc = "list"
  <2>1. CASE StartReconcile(w, t)
    BY <2>1 DEF StartReconcile, IdleRec
  <2>2. CASE StartPass(w)
    BY <2>2 DEF StartPass, IdleRec
  <2>. QED  BY <2>1, <2>2
<1>5. RecKnows(w)'
  BY <1>4 DEF RecKnows
<1>. QED  BY <1>3, <1>5

\* Control moves on to a step that needs no more than is known already.
LEMMA RecMoves ==
  ASSUME rec \in [Workers -> RecFrame], NEW w \in Workers, RecKnows(w),
         NEW label \in RecPC, RecTo(w, label)
  PROVE  /\ rec' \in [Workers -> RecFrame]
         /\ rec'[w] = [rec[w] EXCEPT !.pc = label]
<1>1. rec[w] \in RecFrame
  OBVIOUS
<1>2. rec' \in [Workers -> RecFrame]
  <2>1. [rec[w] EXCEPT !.pc = label] \in RecFrame
    BY <1>1 DEF RecFrame
  <2>. QED  BY <2>1 DEF RecTo
<1>3. rec'[w] = [rec[w] EXCEPT !.pc = label]
  BY DEF RecTo
<1>. QED  BY <1>2, <1>3

LEMMA RecEnds ==
  ASSUME rec \in [Workers -> RecFrame], NEW w \in Workers, RecKnows(w), RecReturn(w),
         rec[w].pc \notin {"idle", "list", "next", "returned", "raised"}
  PROVE  rec' \in [Workers -> RecFrame] /\ RecKnows(w)'
<1>. DEFINE f == rec[w]
            g == [Reset(f) EXCEPT !.pc = IF f.pass THEN "next" ELSE "returned"]
<1>1. f \in RecFrame /\ f.was \in [Tenants -> STATUSES \cup {"none"}] /\ f.tenant \in Tenants
      /\ f.todo \in SUBSET Tenants
  BY DEF RecFrame
<1>2. [f.was EXCEPT ![f.tenant] = "none"] \in [Tenants -> STATUSES \cup {"none"}]
  BY <1>1
<1>3. Reset(f) \in RecFrame
  BY <1>1, <1>2, IdleRecType DEF Reset, RecFrame
<1>4. g \in RecFrame
  BY <1>3 DEF RecFrame, RecPC
<1>5. rec'[w] = g /\ rec' \in [Workers -> RecFrame]
  BY <1>4 DEF RecReturn
<1>6. /\ g.pc \in {"next", "returned"} /\ g.pass = f.pass /\ g.todo = f.todo
      /\ g.was = [f.was EXCEPT ![f.tenant] = "none"]
  BY IdleRecType DEF Reset, RecFrame
<1>7. \A u \in Tenants : u # f.tenant => g.was[u] = f.was[u]
  BY <1>1, <1>6
<1>8. f.pass => \A u \in f.todo : g.was[u] \in STATUSES
  BY <1>1, <1>7 DEF RecKnows
<1>. QED  BY <1>5, <1>6, <1>8 DEF RecKnows

\* At work on one tenant, that is, between two tenants of a pass or two calls.
OnTenant(w) == rec[w].pc \notin {"idle", "list", "next", "returned", "raised"}

LEMMA EscapeTypes ==
  ASSUME rec \in [Workers -> RecFrame], NEW w \in Workers, RecKnows(w), OnTenant(w),
         NEW kind \in ErrorKinds, Escape(w, kind)
  PROVE  rec' \in [Workers -> RecFrame] /\ RecKnows(w)'
<1>1. rec[w] \in RecFrame
  OBVIOUS
<1>2. PICK label \in {"absorb", "raised"} :
        /\ rec' = [rec EXCEPT ![w].pc = label, ![w].exc = kind]
        /\ label = "absorb" => rec[w].pass
  BY DEF Escape
<1>3. [rec[w] EXCEPT !.pc = label, !.exc = kind] \in RecFrame
  BY <1>1 DEF RecFrame, RecPC
<1>4. rec' \in [Workers -> RecFrame]
  BY <1>2, <1>3
<1>5. rec'[w] = [rec[w] EXCEPT !.pc = label, !.exc = kind]
  BY <1>2
<1>. HIDE DEF OnTenant
<1>6. /\ rec'[w].pc = label /\ rec'[w].pass = rec[w].pass /\ rec'[w].todo = rec[w].todo
      /\ rec'[w].was = rec[w].was /\ rec'[w].tenant = rec[w].tenant
  BY <1>1, <1>5 DEF RecFrame
<1>7. RecKnows(w)'
  BY <1>2, <1>6 DEF RecKnows, OnTenant
<1>. QED  BY <1>4, <1>7

\* Every plan is one, and what is observed has a verdict.
LEMMA PlanType ==
  ASSUME NEW d \in DESIRED_STATUSES, NEW o, NEW s
  PROVE  PlanAction(d, o, s) \in Plans /\ StatusObserved(d, o) \in STATUSES
BY DEF PlanAction, StatusObserved, Plans, STATUSES, DESIRED_STATUSES

LEMMA VerdictTypes ==
  ASSUME rec \in [Workers -> RecFrame], NEW w \in Workers, RecKnows(w),
         rec[w].pc \in {"ns", "deploy", "edge"}, NEW o, Observed(w, o)
  PROVE  rec' \in [Workers -> RecFrame] /\ RecKnows(w)'
<1>. DEFINE f == rec[w]
            first == f.plan = "undecided"
            plan == IF first THEN PlanAction(f.desired, o, f.status) ELSE f.plan
            verdict == IF first /\ plan # "none" THEN "none" ELSE StatusObserved(f.desired, o)
            label == IF first THEN "record" ELSE "settle"
            g == [f EXCEPT !.pc = label, !.plan = plan, !.status = verdict, !.seen = NothingObserved]
<1>1. f \in RecFrame /\ f.desired \in DESIRED_STATUSES
  BY DEF RecKnows
<1>2. PlanAction(f.desired, o, f.status) \in Plans /\ StatusObserved(f.desired, o) \in STATUSES
  BY <1>1, PlanType
<1>3. plan \in Plans /\ verdict \in STATUSES \cup {"none"} /\ NothingObserved \in ObservedType
  BY <1>1, <1>2 DEF RecFrame, NothingObserved, ObservedType
<1>4. label \in {"record", "settle"} /\ label \in RecPC
  BY DEF RecPC
<1>5. /\ label = "settle" => verdict \in STATUSES
      /\ label = "record" /\ plan = "none" => verdict \in STATUSES
  BY <1>2
<1>6. rec' = [rec EXCEPT ![w].pc = label, ![w].plan = plan, ![w].status = verdict,
                         ![w].seen = NothingObserved]
  BY DEF Observed
<1>. HIDE DEF plan, verdict, label
<1>7. g \in RecFrame
  BY <1>1, <1>3, <1>4 DEF RecFrame
<1>8. rec' \in [Workers -> RecFrame] /\ rec'[w] = g
  BY <1>6, <1>7
<1>9. /\ g.pc = label /\ g.pass = f.pass /\ g.todo = f.todo /\ g.was = f.was
      /\ g.tenant = f.tenant /\ g.desired = f.desired /\ g.status = verdict /\ g.plan = plan
  BY <1>1 DEF RecFrame
<1>. HIDE DEF g
<1>10. RecKnows(w)'
  BY <1>1, <1>4, <1>5, <1>8, <1>9 DEF RecKnows
<1>. QED  BY <1>8, <1>10

LEMMA ObserverTypes ==
  ASSUME rec \in [Workers -> RecFrame], NEW w \in Workers, RecKnows(w),
         k8s \in [Tenants -> K8sType], faults \in 0..MaxFaults,
         ObserveNs(w) \/ ObserveDeploy(w) \/ ObserveEdge(w)
  PROVE  rec' \in [Workers -> RecFrame] /\ RecKnows(w)' /\ faults' \in 0..MaxFaults
<1>. DEFINE f == rec[w]
            k == k8s[f.tenant]
<1>0. f \in RecFrame /\ k \in K8sType /\ f.seen \in ObservedType
      /\ f.pc \in {"ns", "deploy", "edge"} /\ f.desired \in DESIRED_STATUSES
  BY DEF RecFrame, ObserveNs, ObserveDeploy, ObserveEdge, Rec, RecKnows
<1>1. faults' \in 0..MaxFaults
  BY FailsType DEF ObserveNs, ObserveDeploy, ObserveEdge
<1>2. ASSUME NEW o, Observed(w, o)  PROVE rec' \in [Workers -> RecFrame] /\ RecKnows(w)'
  BY <1>0, <1>2, VerdictTypes
<1>3. ASSUME Escape(w, "other")  PROVE rec' \in [Workers -> RecFrame] /\ RecKnows(w)'
  BY <1>0, <1>3, EscapeTypes DEF OnTenant, ErrorKinds
<1>4. ASSUME NEW label \in {"deploy", "edge"}, NEW o \in ObservedType,
             rec' = [rec EXCEPT ![w] = [f EXCEPT !.pc = label, !.seen = o]]
      PROVE  rec' \in [Workers -> RecFrame] /\ RecKnows(w)'
  <2>1. [f EXCEPT !.pc = label, !.seen = o] \in RecFrame
    BY <1>0, <1>4 DEF RecFrame, RecPC
  <2>2. rec' \in [Workers -> RecFrame]
    BY <1>4, <2>1
  <2>3. /\ rec'[w].pc = label /\ rec'[w].pass = f.pass /\ rec'[w].todo = f.todo
        /\ rec'[w].was = f.was /\ rec'[w].tenant = f.tenant /\ rec'[w].desired = f.desired
    BY <1>0, <1>4 DEF RecFrame
  <2>4. RecKnows(w)'
    BY <1>0, <2>3 DEF RecKnows
  <2>. QED  BY <2>2, <2>4
<1>5. CASE ObserveNs(w)
  <2>. DEFINE o == [f.seen EXCEPT !.namespace = TRUE]
  <2>1. o \in ObservedType
    BY <1>0 DEF ObservedType
  <2>2. \/ rec' = [rec EXCEPT ![w].pc = "deploy", ![w].seen.namespace = TRUE]
        \/ Observed(w, NothingObserved)
        \/ Escape(w, "other")
    BY <1>5 DEF ObserveNs
  <2>3. ASSUME rec' = [rec EXCEPT ![w].pc = "deploy", ![w].seen.namespace = TRUE]
        PROVE  rec' \in [Workers -> RecFrame] /\ RecKnows(w)'
    <3>1. rec' = [rec EXCEPT ![w] = [f EXCEPT !.pc = "deploy", !.seen = o]]
      BY <1>0, <2>3 DEF RecFrame
    <3>. QED  BY <1>4, <2>1, <3>1
  <2>. QED  BY <1>1, <1>2, <1>3, <2>2, <2>3
<1>6. CASE ObserveDeploy(w)
  <2>. DEFINE sees(n, b) == rec' = [rec EXCEPT ![w].pc = "edge", ![w].seen.replicas = n,
                                               ![w].seen.ready = b]
  <2>1. (\E n \in 0..1, b \in BOOLEAN : sees(n, b)) \/ Escape(w, "other")
    <3>1. k.replicas \in 0..1 /\ 0 \in 0..1 /\ (k.replicas = 1) \in BOOLEAN
      BY <1>0 DEF K8sType
    <3>2. \/ sees(k.replicas, k.replicas = 1) \/ sees(0, FALSE) \/ sees(k.replicas, FALSE)
          \/ Escape(w, "other")
      BY <1>6, Zenon DEF ObserveDeploy
    <3>. QED  BY <3>1, <3>2, Zenon
  <2>2. ASSUME NEW n \in 0..1, NEW b \in BOOLEAN, sees(n, b)
        PROVE  rec' \in [Workers -> RecFrame] /\ RecKnows(w)'
    <3>. DEFINE o == [f.seen EXCEPT !.replicas = n, !.ready = b]
    <3>1. o \in ObservedType
      BY <1>0, Zenon DEF ObservedType
    <3>2. rec' = [rec EXCEPT ![w] = [f EXCEPT !.pc = "edge", !.seen = o]]
      BY <1>0, <2>2 DEF RecFrame
    <3>. QED  BY <1>4, <3>1, <3>2
  <2>. QED  BY <1>1, <1>3, <2>1, <2>2
<1>7. CASE ObserveEdge(w)
  BY <1>1, <1>2, <1>3, <1>7 DEF ObserveEdge
<1>. QED  BY <1>1, <1>5, <1>6, <1>7

\* What every procedure works on, without the frames of the API.
WorkTypeOK ==
  TypeOK /\ OnboardingTypeOK /\ SuspensionTypeOK /\ ReconcilerTypeOK /\ AdoptionTypeOK

LEMMA IdleTypes ==
  IdleOnb \in OnbFrame /\ IdleSus \in SusFrame /\ IdleAdp \in AdpFrame /\ NoMig \in MigType
<1>1. IdleOnb \in OnbFrame
  BY PlatformAssumption DEF IdleOnb, OnbFrame, OnbPC, OnbKinds
<1>2. IdleSus \in SusFrame
  BY PlatformAssumption DEF IdleSus, SusFrame, SusPC
<1>3. IdleAdp \in AdpFrame
  BY PlatformAssumption DEF IdleAdp, AdpFrame, AdpPC
<1>4. NoMig \in MigType
  BY DEF NoMig, MigType
<1>. QED  BY <1>1, <1>2, <1>3, <1>4

LEMMA StartTypes ==
  ASSUME OnboardingTypeOK, SuspensionTypeOK, AdoptionTypeOK, NEW w \in Workers, NEW t \in Tenants
  PROVE  /\ \A kind \in OnbKinds : StartOnboarding(w, t, kind) => onb' \in [Workers -> OnbFrame]
         /\ StartSuspension(w, t) => sus' \in [Workers -> SusFrame]
         /\ \A ids \in SUBSET Tenants : StartAdoption(w, ids) => adp' \in [Workers -> AdpFrame]
<1>. USE DEF OnboardingTypeOK, SuspensionTypeOK, AdoptionTypeOK
<1>1. ASSUME NEW kind \in OnbKinds, StartOnboarding(w, t, kind)
      PROVE  onb' \in [Workers -> OnbFrame]
  BY <1>1, PlatformAssumption DEF StartOnboarding, OnbFrame, OnbPC, OnbMarkPC, OnbCallPC
<1>2. ASSUME StartSuspension(w, t)
      PROVE  sus' \in [Workers -> SusFrame]
  BY <1>2 DEF StartSuspension, SusFrame, SusPC
<1>3. ASSUME NEW ids \in SUBSET Tenants, StartAdoption(w, ids)
      PROVE  adp' \in [Workers -> AdpFrame]
  <2>1. (ids # {}) \in BOOLEAN
    OBVIOUS
  <2>2. [IdleAdp EXCEPT !.pc = "outputs", !.todo = ids, !.explicit = ids # {}] \in AdpFrame
    BY <2>1, IdleTypes, Zenon DEF AdpFrame, AdpPC
  <2>. QED  BY <1>3, <2>2 DEF StartAdoption
<1>. QED  BY <1>1, <1>2, <1>3

\* The procedures this step does not run keep what they have.
LEMMA RestTypeOK ==
  ASSUME WorkTypeOK, WorldTypeOK',
         del' \in [Workers -> FrameType], dropjob' \in [Workers -> JobType],
         stray' \in [Tenants -> Nat],
         onb' \in [Workers -> OnbFrame], mig' \in MigType, sus' \in [Workers -> SusFrame],
         rec' \in [Workers -> RecFrame], adp' \in [Workers -> AdpFrame]
  PROVE  WorkTypeOK'
BY DEF WorkTypeOK, TypeOK, OnboardingTypeOK, SuspensionTypeOK, ReconcilerTypeOK, AdoptionTypeOK

\* A step of reconcile_one or reconcile_all.
LEMMA RecStepTypeOK ==
  ASSUME WorkTypeOK, NEW w \in Workers, RecKnows(w), ReconcileStep(w), adp' = adp
  PROVE  WorkTypeOK' /\ RecKnows(w)'
<1>. DEFINE f == rec[w]
            t == f.tenant
<1>0. /\ rec \in [Workers -> RecFrame] /\ f \in RecFrame /\ t \in Tenants
      /\ TypeOK /\ WorldTypeOK /\ OnboardingTypeOK /\ SuspensionTypeOK /\ AdoptionTypeOK
      /\ row \in [Tenants -> RowType \cup {NoRow}] /\ row[t] \in RowType \cup {NoRow}
      /\ k8s \in [Tenants -> K8sType] /\ faults \in 0..MaxFaults
      /\ del \in [Workers -> FrameType] /\ dropjob \in [Workers -> JobType]
      /\ stray \in [Tenants -> Nat]
      /\ onb \in [Workers -> OnbFrame] /\ mig \in MigType /\ sus \in [Workers -> SusFrame]
      /\ adp \in [Workers -> AdpFrame]
  BY DEF WorkTypeOK, TypeOK, WorldTypeOK, OnboardingTypeOK, SuspensionTypeOK, ReconcilerTypeOK,
         AdoptionTypeOK, RecFrame
<1>1. ASSUME row' \in [Tenants -> RowType \cup {NoRow}], faults' \in 0..MaxFaults,
             UNCHANGED <<k8s, aws, role, othersOfRec>>, rec' \in [Workers -> RecFrame]
      PROVE  WorkTypeOK'
  <2>1. WorldTypeOK'
    BY <1>0, <1>1 DEF WorldTypeOK
  <2>2. UNCHANGED <<del, dropjob, stray, onb, mig, sus>>
    BY <1>1 DEF othersOfRec
  <2>. QED  BY <1>0, <1>1, <2>1, <2>2, RestTypeOK
<1>2. ASSUME NEW r \in RowType, row' = [row EXCEPT ![t] = r]
      PROVE  row' \in [Tenants -> RowType \cup {NoRow}]
  BY <1>0, <1>2
<1>3. CASE ListRows(w)
  <2>. DEFINE listed == {u \in Tenants : row[u] # NoRow}
              was == [u \in Tenants |-> row[u].status]
  <2>1. was \in [Tenants -> STATUSES \cup {"none"}] /\ listed \in SUBSET Tenants
        /\ \A u \in listed : was[u] \in STATUSES
    BY <1>0 DEF RowType, NoRow
  <2>2. rec' = [rec EXCEPT ![w].pc = "next", ![w].todo = listed, ![w].was = was]
    BY <1>3 DEF ListRows
  <2>. HIDE DEF listed, was
  <2>3. [f EXCEPT !.pc = "next", !.todo = listed, !.was = was] \in RecFrame
    BY <1>0, <2>1 DEF RecFrame, RecPC
  <2>4. rec' \in [Workers -> RecFrame]
    BY <1>0, <2>2, <2>3
  <2>5. rec'[w].pc = "next" /\ rec'[w].todo = listed /\ rec'[w].was = was
    BY <1>0, <2>2 DEF RecFrame
  <2>6. RecKnows(w)'
    BY <2>1, <2>5 DEF RecKnows
  <2>. QED  BY <1>0, <1>1, <1>3, <2>4, <2>6 DEF ListRows, world
<1>4. CASE NextTenant(w)
  <2>1. ASSUME NEW u \in f.todo,
               rec' = [rec EXCEPT ![w].pc = "get", ![w].tenant = u, ![w].todo = @ \ {u}]
        PROVE  rec' \in [Workers -> RecFrame] /\ RecKnows(w)'
    <3>1. u \in Tenants /\ f.todo \ {u} \in SUBSET Tenants
      BY <1>0 DEF RecFrame
    <3>2. [f EXCEPT !.pc = "get", !.tenant = u, !.todo = f.todo \ {u}] \in RecFrame
      BY <1>0, <3>1 DEF RecFrame, RecPC
    <3>3. rec' \in [Workers -> RecFrame]
      BY <1>0, <2>1, <3>2
    <3>4. /\ rec'[w].pc = "get" /\ rec'[w].tenant = u /\ rec'[w].todo = f.todo \ {u}
          /\ rec'[w].was = f.was /\ rec'[w].pass = f.pass
      BY <1>0, <2>1 DEF RecFrame
    <3>. QED  BY <3>3, <3>4 DEF RecKnows
  <2>2. ASSUME RecTo(w, "returned")
        PROVE  rec' \in [Workers -> RecFrame] /\ RecKnows(w)'
    <3>1. rec' \in [Workers -> RecFrame] /\ rec'[w] = [f EXCEPT !.pc = "returned"]
      BY <1>0, <2>2, RecMoves DEF RecPC
    <3>2. /\ rec'[w].pc = "returned" /\ rec'[w].todo = f.todo /\ rec'[w].was = f.was
          /\ rec'[w].pass = f.pass
      BY <1>0, <3>1 DEF RecFrame
    <3>. QED  BY <3>1, <3>2 DEF RecKnows
  <2>3. rec' \in [Workers -> RecFrame] /\ RecKnows(w)'
    BY <1>4, <2>1, <2>2 DEF NextTenant
  <2>. QED  BY <1>0, <1>1, <1>4, <2>3 DEF NextTenant, world
<1>5. CASE Absorb(w)
  <2>1. f.pass /\ f.was[t] \in STATUSES /\ OnTenant(w)
    BY <1>5 DEF Absorb, Rec, RecKnows, OnTenant
  <2>2. (IF f.exc = "permanent" THEN "DRIFT" ELSE f.was[t]) \in STATUSES
    BY <2>1 DEF STATUSES
  <2>3. UpsertStatus(row[t], IF f.exc = "permanent" THEN "DRIFT" ELSE f.was[t]) \in RowType
    BY <1>0, <2>2, WriteType DEF DESIRED_STATUSES
  <2>4. row' \in [Tenants -> RowType \cup {NoRow}]
    BY <1>0, <1>2, <1>5, <2>3 DEF Absorb
  <2>5. rec' \in [Workers -> RecFrame] /\ RecKnows(w)'
    BY <1>0, <1>5, <2>1, RecEnds DEF Absorb, OnTenant
  <2>. QED  BY <1>0, <1>1, <1>5, <2>4, <2>5 DEF Absorb
<1>6. CASE GetDesired(w)
  <2>. DEFINE r == row[t]
  <2>1. CASE Escape(w, "permanent")
    BY <1>0, <1>1, <1>6, <2>1, EscapeTypes DEF GetDesired, Rec, OnTenant, ErrorKinds, world
  <2>2. CASE r # NoRow /\ rec' = [rec EXCEPT ![w].pc = "ns", ![w].desired = r.desired,
                                              ![w].status = r.status]
    <3>1. r.desired \in DESIRED_STATUSES /\ r.status \in STATUSES
      BY <1>0, <2>2 DEF RowType
    <3>2. [f EXCEPT !.pc = "ns", !.desired = r.desired, !.status = r.status] \in RecFrame
      BY <1>0, <3>1 DEF RecFrame, RecPC
    <3>3. rec' \in [Workers -> RecFrame]
      BY <1>0, <2>2, <3>2
    <3>4. /\ rec'[w].pc = "ns" /\ rec'[w].desired = r.desired /\ rec'[w].todo = f.todo
          /\ rec'[w].was = f.was /\ rec'[w].pass = f.pass /\ rec'[w].tenant = t
      BY <1>0, <2>2 DEF RecFrame
    <3>5. f.pc = "get"
      BY <1>6 DEF GetDesired, Rec
    <3>6. RecKnows(w)'
      BY <3>1, <3>4, <3>5 DEF RecKnows
    <3>. QED  BY <1>0, <1>1, <1>6, <3>3, <3>6 DEF GetDesired, world
  <2>. QED  BY <1>6, <2>1, <2>2 DEF GetDesired
<1>7. CASE ObserveNs(w) \/ ObserveDeploy(w) \/ ObserveEdge(w)
  <2>1. rec' \in [Workers -> RecFrame] /\ RecKnows(w)' /\ faults' \in 0..MaxFaults
    BY <1>0, <1>7, ObserverTypes
  <2>2. UNCHANGED <<row, k8s, aws, role, othersOfRec>>
    BY <1>7 DEF ObserveNs, ObserveDeploy, ObserveEdge
  <2>. QED  BY <1>0, <1>1, <2>1, <2>2
<1>8. ASSUME NEW label \in {"settle", "purge", "call", "wait", "ns"}, RecTo(w, label), OnTenant(w),
             f.desired \in DESIRED_STATUSES, label = "settle" => f.status \in STATUSES
      PROVE  rec' \in [Workers -> RecFrame] /\ RecKnows(w)'
  <2>1. rec' \in [Workers -> RecFrame] /\ rec'[w] = [f EXCEPT !.pc = label]
    <3>1. label \in RecPC
      BY DEF RecPC
    <3>. QED  BY <1>0, <1>8, <3>1, RecMoves
  <2>2. /\ rec'[w].pc = label /\ rec'[w].desired = f.desired /\ rec'[w].status = f.status
        /\ rec'[w].todo = f.todo /\ rec'[w].was = f.was /\ rec'[w].pass = f.pass
        /\ rec'[w].tenant = t
    BY <1>0, <2>1 DEF RecFrame
  <2>3. RecKnows(w)'
    BY <1>8, <2>2 DEF RecKnows, OnTenant
  <2>. QED  BY <2>1, <2>3
<1>9. CASE RecordObserved(w)
  <2>1. row' \in [Tenants -> RowType \cup {NoRow}]
    BY <1>0, <1>2, <1>9, WriteType DEF RecordObserved, STATUSES, DESIRED_STATUSES
  <2>2. f.pc = "record" /\ OnTenant(w) /\ f.desired \in DESIRED_STATUSES
    BY <1>9 DEF RecordObserved, Rec, RecKnows, OnTenant
  <2>3. f.plan = "none" => f.status \in STATUSES
    BY <2>2 DEF RecKnows
  <2>4. rec' \in [Workers -> RecFrame] /\ RecKnows(w)'
    BY <1>8, <1>9, <2>2, <2>3 DEF RecordObserved
  <2>. QED  BY <1>0, <1>1, <1>9, <2>1, <2>4 DEF RecordObserved
<1>10. CASE Settle(w) \/ PurgeRow(w)
  <2>1. OnTenant(w)
    BY <1>10 DEF Settle, PurgeRow, Rec, OnTenant
  <2>2. rec' \in [Workers -> RecFrame] /\ RecKnows(w)'
    BY <1>0, <1>10, <2>1, RecEnds DEF Settle, PurgeRow, OnTenant
  <2>3. row' \in [Tenants -> RowType \cup {NoRow}]
    <3>1. CASE Settle(w)
      <4>1. f.status \in STATUSES
        BY <3>1 DEF Settle, Rec, RecKnows
      <4>. QED  BY <1>0, <1>2, <3>1, <4>1, WriteType DEF Settle, DESIRED_STATUSES
    <3>2. CASE PurgeRow(w)
      BY <1>0, <3>2 DEF PurgeRow
    <3>. QED  BY <1>10, <3>1, <3>2
  <2>. QED  BY <1>0, <1>1, <1>10, <2>2, <2>3 DEF Settle, PurgeRow
<1>11. CASE CallProcedure(w)
  <2>1. OnTenant(w) /\ f.desired \in DESIRED_STATUSES
    BY <1>11 DEF CallProcedure, Rec, OnTenant, RecKnows
  <2>2. rec' \in [Workers -> RecFrame] /\ RecKnows(w)'
    BY <1>8, <1>11, <2>1 DEF CallProcedure
  <2>3. CASE Begin(w, t) /\ UNCHANGED <<onb, mig, sus>>
    BY <1>0, <2>2, <2>3, BeginTypeOK, RestTypeOK DEF TypeOK
  <2>4. CASE (\E kind \in OnbKinds : StartOnboarding(w, t, kind))
             /\ UNCHANGED <<world, del, dropjob, stray, mig, sus>>
    BY <1>0, <2>2, <2>4, StartTypes, RestTypeOK DEF WorldTypeOK, world
  <2>5. CASE StartSuspension(w, t) /\ UNCHANGED <<world, del, dropjob, stray, onb, mig>>
    BY <1>0, <2>2, <2>5, StartTypes, RestTypeOK DEF WorldTypeOK, world
  <2>. QED  BY <1>11, <2>2, <2>3, <2>4, <2>5 DEF CallProcedure, OnbKinds
<1>12. CASE ProcedureReturns(w) \/ ProcedureRaises(w)
  <2>1. f.pc = "wait" /\ OnTenant(w) /\ f.desired \in DESIRED_STATUSES
    BY <1>12 DEF ProcedureReturns, ProcedureRaises, Rec, OnTenant, RecKnows
  <2>2. rec' \in [Workers -> RecFrame] /\ RecKnows(w)'
    <3>1. ASSUME RecReturn(w)  PROVE rec' \in [Workers -> RecFrame] /\ RecKnows(w)'
      BY <1>0, <2>1, <3>1, RecEnds DEF OnTenant
    <3>2. ASSUME NEW kind \in ErrorKinds, Escape(w, kind)
          PROVE  rec' \in [Workers -> RecFrame] /\ RecKnows(w)'
      BY <1>0, <2>1, <3>2, EscapeTypes
    <3>3. ASSUME NEW kind \in ErrorKinds,
                 rec' = [rec EXCEPT ![w].pc = "except", ![w].exc = kind]
          PROVE  rec' \in [Workers -> RecFrame] /\ RecKnows(w)'
      <4>1. [f EXCEPT !.pc = "except", !.exc = kind] \in RecFrame
        BY <1>0 DEF RecFrame, RecPC
      <4>2. rec' \in [Workers -> RecFrame]
        BY <1>0, <3>3, <4>1
      <4>3. /\ rec'[w].pc = "except" /\ rec'[w].desired = f.desired /\ rec'[w].todo = f.todo
            /\ rec'[w].was = f.was /\ rec'[w].pass = f.pass /\ rec'[w].tenant = t
        BY <1>0, <3>3 DEF RecFrame
      <4>. QED  BY <2>1, <4>2, <4>3 DEF RecKnows
    <3>4. {del[w].exc, onb[w].exc, sus[w].exc} \subseteq ErrorKinds
      BY <1>0 DEF FrameType, OnbFrame, SusFrame, ErrorKinds
    <3>5. CASE ProcedureReturns(w)
      BY <1>8, <2>1, <3>1, <3>5 DEF ProcedureReturns
    <3>6. CASE ProcedureRaises(w)
      <4>1. PICK kind \in ErrorKinds :
              IF Caught(kind) THEN rec' = [rec EXCEPT ![w].pc = "except", ![w].exc = kind]
                              ELSE Escape(w, kind)
        BY <3>4, <3>6 DEF ProcedureRaises
      <4>. QED  BY <3>2, <3>3, <4>1
    <3>. QED  BY <1>12, <3>5, <3>6
  <2>3. /\ del' = [del EXCEPT ![w] = NoFrame] /\ onb' = [onb EXCEPT ![w] = IdleOnb]
        /\ sus' = [sus EXCEPT ![w] = IdleSus] /\ UNCHANGED <<world, dropjob, stray, mig>>
    BY <1>12 DEF ProcedureReturns, ProcedureRaises
  <2>4. /\ del' \in [Workers -> FrameType] /\ onb' \in [Workers -> OnbFrame]
        /\ sus' \in [Workers -> SusFrame]
    BY <1>0, <2>3, NoFrameType, IdleTypes
  <2>5. WorldTypeOK'
    BY <1>0, <2>3 DEF WorldTypeOK, world
  <2>. QED  BY <1>0, <2>2, <2>3, <2>4, <2>5, RestTypeOK
<1>13. CASE RecordProcedureFailure(w)
  <2>. DEFINE status == IF f.desired = "GONE" THEN "DELETE_FAILED"
                        ELSE IF f.exc = "retryable" THEN "DRIFT" ELSE "FAILED"
  <2>1. OnTenant(w) /\ f.desired \in DESIRED_STATUSES /\ f.exc \in ErrorKinds
    BY <1>0, <1>13 DEF RecordProcedureFailure, Rec, OnTenant, RecKnows, RecFrame
  <2>2. status \in STATUSES
    BY DEF STATUSES
  <2>3. Upsert(row[t], f.desired, status) \in RowType
    BY <1>0, <2>1, <2>2, WriteType
  <2>4. row' = [row EXCEPT ![t] = Upsert(row[t], f.desired, status)]
    BY <1>13 DEF RecordProcedureFailure
  <2>5. row' \in [Tenants -> RowType \cup {NoRow}]
    BY <1>2, <2>3, <2>4
  <2>6. rec' \in [Workers -> RecFrame] /\ RecKnows(w)'
    BY <1>0, <1>13, <2>1, EscapeTypes DEF RecordProcedureFailure
  <2>. QED  BY <1>0, <1>1, <1>13, <2>5, <2>6 DEF RecordProcedureFailure
<1>. QED
  BY <1>3, <1>4, <1>5, <1>6, <1>7, <1>9, <1>10, <1>11, <1>12, <1>13 DEF ReconcileStep

-----------------------------------------------------------------------------
(* The API and the command line.                                           *)

LEMMA WorkInit == CPInit => WorkTypeOK /\ \A w \in Workers : RecKnows(w)
<1>. SUFFICES ASSUME CPInit  PROVE WorkTypeOK /\ \A w \in Workers : RecKnows(w)
  OBVIOUS
<1>1. row \in [Tenants -> RowType \cup {NoRow}]
  <2>1. ASSUME NEW t \in Tenants  PROVE RowStarts(t) \subseteq RowType \cup {NoRow}
    <3>1. ASSUME NEW d \in DESIRED_STATUSES, NEW s \in STATUSES
          PROVE  /\ Registered(t, d, s) \in RowType
                 /\ [Registered(t, d, s) EXCEPT !.owner = "none"] \in RowType
      BY DEF Registered, Owner, RowType, Owners, DeleteSteps
    <3>. QED  BY <3>1 DEF RowStarts, STATUSES, DESIRED_STATUSES
  <2>. QED  BY <2>1 DEF CPInit
<1>2. k8s \in [Tenants -> K8sType]
  <2>1. /\ NoK8s \in K8sType
        /\ FullK8s \in K8sType
        /\ BareNs \in K8sType
        /\ IdleK8s \in K8sType
    BY DEF NoK8s, FullK8s, BareNs, IdleK8s, K8sType
  <2>. QED  BY <2>1 DEF CPInit
<1>3. aws \in [Tenants -> AwsType]
  <2>1. NoAws \in AwsType /\ FullAws \in AwsType /\ [NoAws EXCEPT !.secret = "live"] \in AwsType
    BY DEF NoAws, FullAws, AwsType
  <2>. QED  BY <2>1 DEF CPInit
<1>4. role \in [Tenants -> RoleType] /\ faults \in 0..MaxFaults
  BY FaultAssumption DEF CPInit, RoleType
<1>5. /\ del \in [Workers -> FrameType] /\ dropjob \in [Workers -> JobType]
      /\ stray \in [Tenants -> Nat]
      /\ onb \in [Workers -> OnbFrame] /\ mig \in MigType /\ sus \in [Workers -> SusFrame]
      /\ rec \in [Workers -> RecFrame] /\ adp \in [Workers -> AdpFrame]
  BY NoFrameType, IdleTypes, IdleRecType DEF CPInit
<1>6. \A w \in Workers : RecKnows(w)
  BY DEF CPInit, IdleRec, RecKnows
<1>. QED
  BY <1>1, <1>2, <1>3, <1>4, <1>5, <1>6
     DEF WorkTypeOK, TypeOK, WorldTypeOK, OnboardingTypeOK, SuspensionTypeOK, ReconcilerTypeOK,
         AdoptionTypeOK

\* The reconciler's other activations are not touched.
LEMMA RecOthers ==
  ASSUME NEW w \in Workers, ReconcileStep(w) \/ (\E t \in Tenants : StartReconcile(w, t))
                            \/ StartPass(w), ReconcilerTypeOK,
         NEW v \in Workers, v # w, RecKnows(v)
  PROVE  RecKnows(v)'
<1>1. rec'[v] = rec[v]
  BY DEF ReconcilerTypeOK, ReconcileStep, StartReconcile, StartPass, ListRows, NextTenant, Absorb,
         GetDesired, ObserveNs, ObserveDeploy, ObserveEdge, RecordObserved, Settle, PurgeRow,
         CallProcedure, ProcedureReturns, ProcedureRaises, RecordProcedureFailure, RecTo, RecReturn,
         Escape, Observed
<1>. QED  BY <1>1 DEF RecKnows

LEMMA RecStays ==
  ASSUME rec' = rec, NEW v \in Workers, RecKnows(v)
  PROVE  RecKnows(v)'
BY DEF RecKnows

LEMMA ProcedureTypeOK ==
  ASSUME WorkTypeOK, \A v \in Workers : RecKnows(v), NEW w \in Workers,
         Procedure(w) \/ DropPod(w)
  PROVE  WorkTypeOK' /\ \A v \in Workers : RecKnows(v)'
<1>0. /\ TypeOK /\ WorldTypeOK /\ OnboardingTypeOK /\ SuspensionTypeOK /\ ReconcilerTypeOK
      /\ AdoptionTypeOK
      /\ del \in [Workers -> FrameType] /\ dropjob \in [Workers -> JobType]
      /\ stray \in [Tenants -> Nat]
      /\ onb \in [Workers -> OnbFrame] /\ mig \in MigType /\ sus \in [Workers -> SusFrame]
      /\ rec \in [Workers -> RecFrame] /\ adp \in [Workers -> AdpFrame]
  BY DEF WorkTypeOK, TypeOK, OnboardingTypeOK, SuspensionTypeOK, ReconcilerTypeOK, AdoptionTypeOK
<1>1. CASE (DeleteStep(w) \/ RunDropJob(w)) /\ UNCHANGED <<onb, mig, sus, rec, adp, apiVars>>
  <2>1. TypeOK'
    BY <1>0, <1>1, StepTypeOK, DropJobTypeOK
  <2>. QED  BY <1>0, <1>1, <2>1, RestTypeOK, RecStays DEF TypeOK
<1>2. CASE OnboardingStep(w) /\ UNCHANGED <<del, dropjob, stray, sus, rec, adp, apiVars>>
  <2>1. WorldTypeOK' /\ OnboardingTypeOK'
    BY <1>0, <1>2, OnbStepTypeOK
  <2>. QED  BY <1>0, <1>2, <2>1, RestTypeOK, RecStays DEF OnboardingTypeOK
<1>3. CASE SuspensionStep(w) /\ UNCHANGED <<del, dropjob, stray, onb, mig, rec, adp, apiVars>>
  <2>1. WorldTypeOK' /\ SuspensionTypeOK'
    BY <1>0, <1>3, SusStepTypeOK
  <2>. QED  BY <1>0, <1>3, <2>1, RestTypeOK, RecStays DEF SuspensionTypeOK
<1>4. CASE AdoptionStep(w) /\ UNCHANGED <<del, dropjob, stray, onb, mig, sus, rec, apiVars>>
  <2>1. WorldTypeOK' /\ AdoptionTypeOK'
    BY <1>0, <1>4, AdpStepTypeOK
  <2>. QED  BY <1>0, <1>4, <2>1, RestTypeOK, RecStays DEF AdoptionTypeOK
<1>5. CASE ReconcileStep(w) /\ UNCHANGED <<adp, apiVars>>
  BY <1>0, <1>5, RecStepTypeOK, RecOthers
<1>. QED  BY <1>1, <1>2, <1>3, <1>4, <1>5 DEF Procedure, DropPod

\* A pod no worker waits for any more.
LEMMA StrayTypeOK ==
  ASSUME WorkTypeOK, \A v \in Workers : RecKnows(v), NEW t \in Tenants, StrayPod(t)
  PROVE  WorkTypeOK' /\ \A v \in Workers : RecKnows(v)'
<1>1. TypeOK'
  BY StrayPodTypeOK DEF StrayPod, WorkTypeOK, TypeOK
<1>. QED
  BY <1>1, RestTypeOK, RecStays
     DEF StrayPod, WorkTypeOK, TypeOK, OnboardingTypeOK, SuspensionTypeOK, ReconcilerTypeOK,
         AdoptionTypeOK

LEMMA CallTypeOK ==
  ASSUME WorkTypeOK, \A v \in Workers : RecKnows(v), NEW w \in Workers, NEW t \in Tenants,
         NEW op, Call(w, t, op)
  PROVE  WorkTypeOK' /\ \A v \in Workers : RecKnows(v)'
<1>0. /\ TypeOK /\ WorldTypeOK /\ OnboardingTypeOK /\ SuspensionTypeOK /\ ReconcilerTypeOK
      /\ AdoptionTypeOK
      /\ del \in [Workers -> FrameType] /\ dropjob \in [Workers -> JobType]
      /\ stray \in [Tenants -> Nat]
      /\ onb \in [Workers -> OnbFrame] /\ mig \in MigType /\ sus \in [Workers -> SusFrame]
      /\ rec \in [Workers -> RecFrame] /\ adp \in [Workers -> AdpFrame]
  BY DEF WorkTypeOK, TypeOK, OnboardingTypeOK, SuspensionTypeOK, ReconcilerTypeOK, AdoptionTypeOK
<1>w. UNCHANGED world => WorldTypeOK'
  BY <1>0 DEF world, WorldTypeOK
<1>1. CASE Begin(w, t) /\ UNCHANGED <<onb, mig, sus, rec, adp>>
  <2>1. TypeOK'
    BY <1>0, <1>1, BeginTypeOK
  <2>. QED  BY <1>0, <1>1, <2>1, RestTypeOK, RecStays DEF TypeOK
<1>2. CASE (\E kind \in OnbKinds : StartOnboarding(w, t, kind))
           /\ UNCHANGED <<world, del, dropjob, stray, mig, sus, rec, adp>>
  <2>1. onb' \in [Workers -> OnbFrame]
    BY <1>0, <1>2, StartTypes
  <2>. QED  BY <1>0, <1>w, <1>2, <2>1, RestTypeOK, RecStays
<1>3. CASE StartSuspension(w, t) /\ UNCHANGED <<world, del, dropjob, stray, onb, mig, rec, adp>>
  <2>1. sus' \in [Workers -> SusFrame]
    BY <1>0, <1>3, StartTypes
  <2>. QED  BY <1>0, <1>w, <1>3, <2>1, RestTypeOK, RecStays
<1>4. CASE (StartReconcile(w, t) \/ StartPass(w))
           /\ UNCHANGED <<world, del, dropjob, stray, onb, mig, sus, adp>>
  <2>1. rec' \in [Workers -> RecFrame] /\ RecKnows(w)'
    BY <1>0, <1>4, RecStarts
  <2>2. \A v \in Workers : RecKnows(v)'
    BY <1>0, <1>4, <2>1, RecOthers
  <2>. QED  BY <1>0, <1>w, <1>4, <2>1, <2>2, RestTypeOK
<1>5. CASE (\E ids \in SUBSET Tenants : StartAdoption(w, ids))
           /\ UNCHANGED <<world, del, dropjob, stray, onb, mig, sus, rec>>
  <2>1. adp' \in [Workers -> AdpFrame]
    BY <1>0, <1>5, StartTypes
  <2>. QED  BY <1>0, <1>w, <1>5, <2>1, RestTypeOK, RecStays
<1>. QED
  <2>1. {t} \in SUBSET Tenants /\ {} \in SUBSET Tenants
    OBVIOUS
  <2>. QED  BY <1>1, <1>2, <1>3, <1>4, <1>5, <2>1 DEF Call, OnbKinds

LEMMA LeaveTypeOK ==
  ASSUME WorkTypeOK, \A v \in Workers : RecKnows(v), NEW W, Leave(W),
         UNCHANGED <<row, k8s, aws, role, dropjob, stray, mig>>, faults' \in 0..MaxFaults
  PROVE  WorkTypeOK' /\ \A v \in Workers : RecKnows(v)'
<1>0. /\ WorldTypeOK /\ del \in [Workers -> FrameType] /\ dropjob \in [Workers -> JobType]
      /\ stray \in [Tenants -> Nat]
      /\ onb \in [Workers -> OnbFrame] /\ mig \in MigType /\ sus \in [Workers -> SusFrame]
      /\ rec \in [Workers -> RecFrame] /\ adp \in [Workers -> AdpFrame]
  BY DEF WorkTypeOK, TypeOK, OnboardingTypeOK, SuspensionTypeOK, ReconcilerTypeOK, AdoptionTypeOK
<1>1. WorldTypeOK'
  BY <1>0 DEF WorldTypeOK
<1>2. /\ del' \in [Workers -> FrameType] /\ onb' \in [Workers -> OnbFrame]
      /\ sus' \in [Workers -> SusFrame] /\ adp' \in [Workers -> AdpFrame]
  BY <1>0, NoFrameType, IdleTypes DEF Leave
<1>3. rec' \in [Workers -> RecFrame]
  BY <1>0, IdleRecType DEF Leave
<1>4. WorkTypeOK'
  BY <1>0, <1>1, <1>2, <1>3, RestTypeOK
<1>5. ASSUME NEW v \in Workers  PROVE RecKnows(v)'
  <2>1. CASE rec'[v] = rec[v]
    BY <2>1 DEF RecKnows
  <2>2. CASE rec'[v] = IdleRec
    BY <2>2 DEF RecKnows, IdleRec
  <2>. QED  BY <2>1, <2>2 DEF Leave
<1>. QED  BY <1>4, <1>5

LEMMA RequestsStay ==
  ASSUME req \in [Handlers -> ReqType], \A h \in Handlers : Requested(h),
         \/ req' = req
         \/ \E h \in Handlers : HandlerStep(h) \/ \E t \in Targets, op \in Ops : Receive(h, t, op)
         \/ Restart
  PROVE  \A h \in Handlers : Requested(h)'
<1>. SUFFICES ASSUME NEW v \in Handlers  PROVE Requested(v)'
  OBVIOUS
<1>1. ASSUME req'[v] = req[v]  PROVE Requested(v)'
  BY <1>1 DEF Requested, ReqAt
<1>2. ASSUME req'[v] = NoReq  PROVE Requested(v)'
  BY <1>2 DEF Requested, ReqAt, NoReq
<1>3. ASSUME NEW h \in Handlers, Answer(h)  PROVE Requested(v)'
  BY <1>1, <1>2, <1>3 DEF Answer
<1>4. ASSUME NEW h \in Handlers, NEW label, ReqTo(h, label), ~ReqAt(h, "idle")
      PROVE  Requested(v)'
  <2>1. req'[v].tenant = req[v].tenant
    BY <1>4 DEF ReqTo, ReqType
  <2>2. v = h \/ req'[v] = req[v]
    BY <1>4 DEF ReqTo
  <2>. QED  BY <1>1, <1>4, <2>1, <2>2 DEF Requested, ReqAt
<1>5. ASSUME NEW h \in Handlers, HandlerStep(h)  PROVE Requested(v)'
  BY <1>3, <1>4, <1>5
     DEF HandlerStep, GetForCreate, UpsertForCreate, GetForResume, GetForDelete, InsertForDelete,
         UpsertForDelete, MarkDeleting, CheckInflight, StartJob, CallInRequest, AnswerRequest, ReqAt
<1>6. ASSUME NEW h \in Handlers, NEW t \in Targets, NEW op \in Ops, Receive(h, t, op)
      PROVE  Requested(v)'
  <2>1. v # h => req'[v] = req[v]
    BY <1>6 DEF Receive
  <2>2. v = h => req'[v].tenant = t
    BY <1>6 DEF Receive
  <2>. QED  BY <1>1, <2>1, <2>2 DEF Requested
<1>. QED  BY <1>1, <1>2, <1>5, <1>6 DEF Restart

\* The writes of the handlers and of a job that failed.
LEMMA ApiWriteTypeOK ==
  ASSUME WorkTypeOK, \A v \in Workers : RecKnows(v), NEW t \in Tenants,
         NEW d \in DESIRED_STATUSES, NEW s \in STATUSES, row' = [row EXCEPT ![t] = Upsert(@, d, s)],
         UNCHANGED <<k8s, aws, role, faults, procVars>>
  PROVE  WorkTypeOK' /\ \A v \in Workers : RecKnows(v)'
<1>1. row \in [Tenants -> RowType \cup {NoRow}]
  BY DEF WorkTypeOK, TypeOK, WorldTypeOK
<1>2. Upsert(row[t], d, s) \in RowType
  BY <1>1, WriteType
<1>3. row' \in [Tenants -> RowType \cup {NoRow}]
  BY <1>1, <1>2
<1>4. WorldTypeOK'
  BY <1>3 DEF WorkTypeOK, TypeOK, WorldTypeOK
<1>5. UNCHANGED <<del, dropjob, stray, onb, mig, sus, rec, adp>>
  BY DEF procVars
<1>. QED
  BY <1>4, <1>5, RestTypeOK, RecStays
     DEF WorkTypeOK, TypeOK, OnboardingTypeOK, SuspensionTypeOK, ReconcilerTypeOK, AdoptionTypeOK

LEMMA UnchangedTypeOK ==
  ASSUME WorkTypeOK, \A v \in Workers : RecKnows(v), UNCHANGED <<world, procVars>>
  PROVE  WorkTypeOK' /\ \A v \in Workers : RecKnows(v)'
<1>1. WorldTypeOK'
  BY DEF world, WorkTypeOK, TypeOK, WorldTypeOK
<1>2. UNCHANGED <<del, dropjob, stray, onb, mig, sus, rec, adp>>
  BY DEF procVars
<1>. QED
  BY <1>1, <1>2, RestTypeOK, RecStays
     DEF WorkTypeOK, TypeOK, OnboardingTypeOK, SuspensionTypeOK, ReconcilerTypeOK, AdoptionTypeOK

LEMMA HandlerTypeOK ==
  ASSUME WorkTypeOK, \A v \in Workers : RecKnows(v), req \in [Handlers -> ReqType],
         NEW h \in Handlers, HandlerStep(h)
  PROVE  WorkTypeOK' /\ \A v \in Workers : RecKnows(v)'
<1>0. req[h].tenant \in Tenants /\ h \in Workers /\ faults \in 0..MaxFaults
  BY WorkersAssumption DEF ReqType, WorkTypeOK, TypeOK, WorldTypeOK
<1>1. CASE UpsertForCreate(h)
  BY <1>0, <1>1, ApiWriteTypeOK DEF UpsertForCreate, STATUSES, DESIRED_STATUSES
<1>2. CASE InsertForDelete(h) \/ UpsertForDelete(h)
  BY <1>0, <1>2, ApiWriteTypeOK
     DEF InsertForDelete, UpsertForDelete, MarkDeleting, STATUSES, DESIRED_STATUSES
<1>3. CASE CallInRequest(h)
  BY <1>0, <1>3, CallTypeOK DEF CallInRequest
<1>4. CASE AnswerRequest(h)
  BY <1>0, <1>4, LeaveTypeOK DEF AnswerRequest, world
<1>5. CASE GetForCreate(h) \/ GetForResume(h) \/ GetForDelete(h) \/ CheckInflight(h) \/ StartJob(h)
  BY <1>5, UnchangedTypeOK DEF GetForCreate, GetForResume, GetForDelete, CheckInflight, StartJob
<1>. QED  BY <1>1, <1>2, <1>3, <1>4, <1>5 DEF HandlerStep

LEMMA ThreadTypeOK ==
  ASSUME WorkTypeOK, \A v \in Workers : RecKnows(v), job \in [Threads -> JobFrame],
         NEW j \in Threads, ThreadStep(j)
  PROVE  WorkTypeOK' /\ \A v \in Workers : RecKnows(v)'
<1>0. job[j].tenant \in Tenants /\ j \in Workers /\ faults \in 0..MaxFaults
  BY WorkersAssumption DEF JobFrame, WorkTypeOK, TypeOK, WorldTypeOK
<1>1. CASE RunJob(j)
  BY <1>0, <1>1, CallTypeOK DEF RunJob
<1>2. CASE DeleteEnds(j) \/ OnboardingEnds(j)
  BY <1>0, <1>2, LeaveTypeOK DEF DeleteEnds, OnboardingEnds, world
<1>3. CASE CheckRow(j) \/ Discard(j)
  BY <1>3, UnchangedTypeOK DEF CheckRow, Discard
<1>4. CASE RecordJobFailure(j)
  <2>1. \E d \in DESIRED_STATUSES, s \in STATUSES :
          row' = [row EXCEPT ![job[j].tenant] = Upsert(@, d, s)]
    <3>1. CASE job[j].op = "delete"
      BY <1>4, <3>1 DEF RecordJobFailure, STATUSES, DESIRED_STATUSES
    <3>2. CASE job[j].op # "delete"
      BY <1>4, <3>2 DEF RecordJobFailure, STATUSES, DESIRED_STATUSES
    <3>. QED  BY <3>1, <3>2
  <2>. QED  BY <1>0, <1>4, <2>1, ApiWriteTypeOK DEF RecordJobFailure
<1>. QED  BY <1>1, <1>2, <1>3, <1>4 DEF ThreadStep

LEMMA DriftTypeOK ==
  ASSUME WorkTypeOK, \A v \in Workers : RecKnows(v), DriftByHand
  PROVE  WorkTypeOK' /\ \A v \in Workers : RecKnows(v)'
<1>0. /\ k8s \in [Tenants -> K8sType] /\ dropjob \in [Workers -> JobType]
      /\ stray \in [Tenants -> Nat] /\ faults \in 0..MaxFaults
  BY DEF WorkTypeOK, TypeOK, WorldTypeOK
<1>1. PICK t \in Targets :
        \/ k8s' \in {[k8s EXCEPT ![t] = ScaledTo(@, 0)], [k8s EXCEPT ![t] = WithoutIngress(@)]}
           /\ UNCHANGED <<dropjob, stray>>
        \/ RemoveNs(t)
  BY DEF DriftByHand
<1>2. t \in Tenants /\ k8s[t] \in K8sType
  BY <1>0, ScopeAssumption
<1>3. /\ k8s' \in [Tenants -> K8sType] /\ dropjob' \in [Workers -> JobType]
      /\ stray' \in [Tenants -> Nat]
  <2>1. CASE RemoveNs(t)
    BY <1>0, <1>2, <2>1, EffectType DEF RemoveNs, JobType, NoStrays
  <2>2. CASE k8s' \in {[k8s EXCEPT ![t] = ScaledTo(@, 0)], [k8s EXCEPT ![t] = WithoutIngress(@)]}
             /\ UNCHANGED <<dropjob, stray>>
    BY <1>0, <1>2, <2>2, EffectType
  <2>. QED  BY <1>1, <2>1, <2>2
<1>4. faults' \in 0..MaxFaults
  BY <1>0, FailsType DEF DriftByHand
<1>5. WorldTypeOK'
  BY <1>3, <1>4 DEF DriftByHand, WorkTypeOK, TypeOK, WorldTypeOK
<1>6. UNCHANGED <<del, onb, mig, sus, rec, adp>>
  BY DEF DriftByHand
<1>. QED
  BY <1>3, <1>5, <1>6, RestTypeOK, RecStays
     DEF WorkTypeOK, TypeOK, OnboardingTypeOK, SuspensionTypeOK, ReconcilerTypeOK, AdoptionTypeOK

\* Every step of the control plane keeps the types of what it works on.
LEMMA NextWork ==
  ASSUME WorkTypeOK, \A v \in Workers : RecKnows(v),
         req \in [Handlers -> ReqType], job \in [Threads -> JobFrame], [CPNext]_cpVars
  PROVE  WorkTypeOK' /\ \A v \in Workers : RecKnows(v)'
<1>0. faults \in 0..MaxFaults /\ Targets \subseteq Tenants
  BY ScopeAssumption DEF WorkTypeOK, TypeOK, WorldTypeOK
<1>1. CASE UNCHANGED cpVars
  BY <1>1, UnchangedTypeOK DEF cpVars, procVars
<1>2. ASSUME NEW h \in Handlers, NEW t \in Targets, NEW op \in Ops, Receive(h, t, op)
      PROVE  WorkTypeOK' /\ \A v \in Workers : RecKnows(v)'
  BY <1>2, UnchangedTypeOK DEF Receive
<1>3. ASSUME NEW h \in Handlers, HandlerStep(h)
      PROVE  WorkTypeOK' /\ \A v \in Workers : RecKnows(v)'
  BY <1>3, HandlerTypeOK
<1>4. ASSUME NEW j \in Threads, ThreadStep(j)
      PROVE  WorkTypeOK' /\ \A v \in Workers : RecKnows(v)'
  BY <1>4, ThreadTypeOK
<1>5. ASSUME NEW s \in Shells, NEW t \in Targets, NEW op \in Ops, Command(s, t, op)
      PROVE  WorkTypeOK' /\ \A v \in Workers : RecKnows(v)'
  BY <1>0, <1>5, CallTypeOK, WorkersAssumption DEF Command
<1>6. ASSUME NEW s \in Shells, Exit(s) \/ Interrupt(s)
      PROVE  WorkTypeOK' /\ \A v \in Workers : RecKnows(v)'
  <2>1. faults' \in 0..MaxFaults
    BY <1>0, <1>6, FailsType DEF Exit, Interrupt, world
  <2>. QED  BY <1>6, <2>1, LeaveTypeOK DEF Exit, Interrupt, world
<1>7. ASSUME NEW w \in Workers, Procedure(w) \/ DropPod(w)
      PROVE  WorkTypeOK' /\ \A v \in Workers : RecKnows(v)'
  BY <1>7, ProcedureTypeOK
<1>11. ASSUME NEW t \in Tenants, StrayPod(t)
       PROVE  WorkTypeOK' /\ \A v \in Workers : RecKnows(v)'
  BY <1>0, <1>11, StrayTypeOK
<1>8. CASE MigratePod
  <2>1. WorldTypeOK' /\ OnboardingTypeOK'
    BY <1>8, MigrateTypeOK DEF MigratePod, WorkTypeOK, TypeOK
  <2>. QED
    BY <1>8, <2>1, RestTypeOK, RecStays
       DEF MigratePod, WorkTypeOK, TypeOK, OnboardingTypeOK, SuspensionTypeOK, ReconcilerTypeOK,
           AdoptionTypeOK
<1>9. CASE DriftByHand
  BY <1>9, DriftTypeOK
<1>10. CASE Restart
  <2>1. faults' \in 0..MaxFaults
    BY <1>0, <1>10, FailsType DEF Restart
  <2>. QED  BY <1>10, <2>1, LeaveTypeOK DEF Restart
<1>. QED
  BY <1>1, <1>2, <1>3, <1>4, <1>5, <1>6, <1>7, <1>8, <1>9, <1>10, <1>11 DEF CPNext

LEMMA NextInflight ==
  ASSUME inflight \subseteq Targets, \A h \in Handlers : Requested(h), [CPNext]_cpVars
  PROVE  inflight' \subseteq Targets
<1>1. ASSUME NEW h \in Handlers, StartJob(h)  PROVE inflight' \subseteq Targets
  BY <1>1 DEF StartJob, Requested, ReqAt
<1>2. ASSUME NEW h \in Handlers, HandlerStep(h)  PROVE inflight' \subseteq Targets
  BY <1>1, <1>2
     DEF HandlerStep, GetForCreate, UpsertForCreate, GetForResume, GetForDelete, InsertForDelete,
         UpsertForDelete, MarkDeleting, CheckInflight, CallInRequest, AnswerRequest
<1>3. ASSUME NEW j \in Threads, ThreadStep(j)  PROVE inflight' \subseteq Targets
  BY <1>3 DEF ThreadStep, RunJob, DeleteEnds, OnboardingEnds, CheckRow, RecordJobFailure, Discard
<1>. QED
  BY <1>2, <1>3 DEF CPNext, cpVars, apiVars, Receive, Command, Exit, Interrupt, Procedure, DropPod,
                    StrayPod, MigratePod, DriftByHand, Restart

\* What is read now and written later is typed while it waits: the status of
\* each tenant a pass has still to visit, the verdict a reconciliation is about
\* to record, the tenant of a request.
THEOREM TypeInvHolds == CPSpec => []TypeInv
<1>1. CPInit => TypeInv
  <2>. SUFFICES ASSUME CPInit  PROVE TypeInv
    OBVIOUS
  <2>1. \A h \in Handlers : Requested(h)
    BY DEF CPInit, Requested, ReqAt, NoReq
  <2>2. req \in [Handlers -> ReqType] /\ job \in [Threads -> JobFrame] /\ inflight = {}
    BY InitJobs DEF JobsInv, CPInit
  <2>. QED  BY <2>1, <2>2, WorkInit DEF TypeInv, CPTypeOK, WorkTypeOK
<1>2. TypeInv /\ JobsInv /\ JobsInv' /\ [CPNext]_cpVars => TypeInv'
  <2>. SUFFICES ASSUME TypeInv, JobsInv, JobsInv', [CPNext]_cpVars  PROVE TypeInv'
    OBVIOUS
  <2>1. /\ WorkTypeOK /\ \A w \in Workers : RecKnows(w)
        /\ req \in [Handlers -> ReqType] /\ job \in [Threads -> JobFrame]
        /\ inflight \subseteq Targets /\ \A h \in Handlers : Requested(h)
    BY DEF TypeInv, CPTypeOK, WorkTypeOK
  <2>2. WorkTypeOK' /\ \A w \in Workers : RecKnows(w)'
    BY <2>1, NextWork
  <2>3. inflight' \subseteq Targets
    BY <2>1, NextInflight
  <2>4. \/ req' = req \/ Restart
        \/ \E h \in Handlers : HandlerStep(h) \/ \E t \in Targets, op \in Ops : Receive(h, t, op)
    BY DEF CPNext, cpVars, apiVars, ThreadStep, RunJob, DeleteEnds, OnboardingEnds, CheckRow,
           RecordJobFailure, Discard, Command, Exit, Interrupt, Procedure, DropPod, StrayPod,
           MigratePod, DriftByHand
  <2>5. \A h \in Handlers : Requested(h)'
    BY <2>1, <2>4, RequestsStay
  <2>6. req' \in [Handlers -> ReqType] /\ job' \in [Threads -> JobFrame]
    BY DEF JobsInv
  <2>. QED  BY <2>2, <2>3, <2>5, <2>6 DEF TypeInv, CPTypeOK, WorkTypeOK
<1>. QED  BY <1>1, <1>2, JobsInvHolds, PTL DEF CPSpec

\* Every variable of the control plane keeps its type, whatever handlers,
\* threads, processes and pods do, fail at and leave behind: no status, desired
\* status or delete_step that store.py would refuse is ever written, not even
\* the ones the reconciler read earlier and writes back later.
THEOREM CPTypeOKHolds == CPSpec => []CPTypeOK
<1>1. TypeInv => CPTypeOK
  BY DEF TypeInv
<1>. QED  BY <1>1, TypeInvHolds, PTL
=============================================================================
