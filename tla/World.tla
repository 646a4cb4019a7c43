------------------------------- MODULE World --------------------------------
(***************************************************************************)
(* What every control-plane operation works on: the registry and the       *)
(* systems it drives.  The registry is code (store.py); Kubernetes, AWS    *)
(* and Postgres are external and modelled from how the code calls them.    *)
(***************************************************************************)
EXTENDS Registry, Naturals

CONSTANTS
  Tenants,        \* tenant ids
  TofuTenants,    \* tenants whose secret and IRSA role OpenTofu created and owns
  Platform,       \* tofu output platform_tenant_id: hosts migrate and drop-role Jobs
  Workers,        \* threads of control: Flask threads and CLI processes
  Faults,         \* the kinds of failure that may happen
  MaxFaults,      \* how many failures and crashes one behaviour may hold
  RecoveryWindow  \* TRUE when CP_SECRET_RECOVERY_DAYS is not 0

\* "get_ns" is a kubectl get ns that fails without hanging, "lost_job" an attempt
\* at a revoke that fails with its Job's pod running on, "drift" a change somebody
\* makes to the cluster by hand.
FaultKinds == {"kubectl", "get_ns", "lost_job", "tofu", "aws", "db", "crash", "drift"}

ASSUME PlatformAssumption == Platform \in Tenants
ASSUME TofuAssumption == TofuTenants \subseteq Tenants
ASSUME FaultAssumption == Faults \subseteq FaultKinds /\ MaxFaults \in Nat
ASSUME RecoveryAssumption == RecoveryWindow \in BOOLEAN

VARIABLES
  row,     \* registry: tenant -> row or NoRow
  k8s,     \* tenant -> namespace, Helm release, replicas of deploy/test-app, Ingress
  aws,     \* tenant -> Secrets Manager secret and IRSA role
  role,    \* tenant -> Postgres role tenant_<id>
  faults   \* failures still to come (a bound of the model)

world == <<row, k8s, aws, role, faults>>

K8sType == [ns : BOOLEAN, release : BOOLEAN, replicas : 0..1, ingress : BOOLEAN]
AwsType == [secret : {"absent", "live", "scheduled"}, irsa : BOOLEAN]

\* "nologin" is a role the drop script disabled but could not drop.
RoleType == {"none", "nologin", "login"}

WorldTypeOK ==
  /\ row \in [Tenants -> RowType \cup {NoRow}]
  /\ k8s \in [Tenants -> K8sType]
  /\ aws \in [Tenants -> AwsType]
  /\ role \in [Tenants -> RoleType]
  /\ faults \in 0..MaxFaults

NoK8s == [ns |-> FALSE, release |-> FALSE, replicas |-> 0, ingress |-> FALSE]
NoAws == [secret |-> "absent", irsa |-> FALSE]

\* A call fails, using one of the behaviour's failures; or it does not.
Fails(kind) == kind \in Faults /\ faults > 0 /\ faults' = faults - 1
Succeeds == UNCHANGED faults

(***************************************************************************)
(* Effects of the external calls on one tenant's record.                   *)
(***************************************************************************)
ScaledTo(k, n) == IF k.release THEN [k EXCEPT !.replicas = n] ELSE k
WithoutIngress(k) == [k EXCEPT !.ingress = FALSE]
Uninstalled(k) == [ns |-> k.ns, release |-> FALSE, replicas |-> 0, ingress |-> FALSE]

\* delete_secret with and without a recovery window; a secret that is already
\* absent or scheduled answers with a code the caller swallows.
DeletedSecret(s) ==
  IF s = "absent" \/ ~RecoveryWindow THEN "absent" ELSE "scheduled"
=============================================================================
