----------------------------- MODULE Onboarding -----------------------------
(***************************************************************************)
(* provision (control-plane/provisioner.py), resume_tenant (lifecycle.py)  *)
(* and the onboard() they share (helm/test-app/onboard_tenant.py), with    *)
(* the migrate Job that onboarding the platform tenant starts.  Modelled   *)
(* for the defaults of every caller: identities come from the control      *)
(* plane (ensure_identity), tenants are exposed by an Ingress.             *)
(***************************************************************************)
EXTENDS World

VARIABLES
  onb,   \* worker -> activation of provision or resume_tenant
  mig    \* Job test-app-migrate in the platform tenant's namespace

onboardingVars == <<onb, mig>>

OnbMarkPC == {"mark", "record", "activate"}
OnbCallPC == {"get", "outputs", "secret", "irsa", "snapshot", "ns", "clear",
              "helm", "wait", "scale", "edge"}
OnbPC == {"idle", "except", "returned", "raised"} \cup OnbMarkPC \cup OnbCallPC

OnbKinds == {"provision", "resume"}

\* `site` is the tenant onboard() works on: the platform tenant first, then
\* the tenant itself.  `map` holds the tenants of the merged identity maps.
OnbFrame == [pc : OnbPC, kind : OnbKinds, tenant : Tenants, site : Tenants,
             map : SUBSET Tenants, exc : {"none", "retryable", "permanent", "other"}]

\* `todo` are the tenants still to migrate, `held` the one whose credentials
\* the pod has loaded.
MigType == [st : {"none", "running", "complete", "failed"}, map : SUBSET Tenants,
            todo : SUBSET Tenants, held : SUBSET Tenants]

OnboardingTypeOK ==
  /\ onb \in [Workers -> OnbFrame]
  /\ mig \in MigType

IdleOnb == [pc |-> "idle", kind |-> "provision", tenant |-> Platform, site |-> Platform,
            map |-> {}, exc |-> "none"]
NoMig == [st |-> "none", map |-> {}, todo |-> {}, held |-> {}]
NewMig(map) == [st |-> "running", map |-> map, todo |-> map, held |-> {}]

Onb(w, label) == onb[w].pc = label
OnbTo(w, label) == onb' = [onb EXCEPT ![w].pc = label]

\* provision turns every exception into FAILED; resume_tenant lets it through.
OnbRaise(w, kind) ==
  onb' = [onb EXCEPT ![w].pc = IF onb[w].kind = "provision" THEN "except" ELSE "raised",
                     ![w].exc = kind]

StartOnboarding(w, t, kind) ==
  /\ Onb(w, "idle")
  /\ onb' = [onb EXCEPT ![w] = [pc |-> IF kind = "provision" THEN "mark" ELSE "get",
                                kind |-> kind, tenant |-> t, site |-> Platform,
                                map |-> {}, exc |-> "none"]]

-----------------------------------------------------------------------------
(* provision: registry and identity.                                       *)

\* upsert(desired_status="ACTIVE", status="PROVISIONING")
MarkProvisioning(w) ==
  /\ Onb(w, "mark")
  /\ row' = [row EXCEPT ![onb[w].tenant] = Upsert(@, "ACTIVE", "PROVISIONING")]
  /\ OnbTo(w, "outputs")
  /\ UNCHANGED <<k8s, aws, role, faults, mig>>

ReadOutputs(w) ==
  /\ Onb(w, "outputs")
  /\ \/ Succeeds /\ OnbTo(w, IF onb[w].kind = "provision" THEN "secret" ELSE "snapshot")
     \/ Fails("tofu") /\ OnbRaise(w, "other")
  /\ UNCHANGED <<row, k8s, aws, role, mig>>

\* with_retry starts ensure_tenant_identity over after a retryable error; it
\* gives up after five, more failures than a behaviour holds.
IdentityFails(w) ==
  \/ OnbTo(w, "secret")
  \/ \E kind \in {"retryable", "permanent"} : OnbRaise(w, kind)

\* The secret exists, or is created; one scheduled for deletion is deleted at
\* once and created again, and may be lost in between.
EnsureSecret(w) ==
  LET t == onb[w].tenant IN
  /\ Onb(w, "secret")
  /\ \/ /\ aws' = [aws EXCEPT ![t].secret = "live"]
        /\ Succeeds
        /\ OnbTo(w, "irsa")
     \/ /\ Fails("aws")
        /\ \/ UNCHANGED aws
           \/ aws[t].secret = "scheduled" /\ aws' = [aws EXCEPT ![t].secret = "absent"]
        /\ IdentityFails(w)
  /\ UNCHANGED <<row, k8s, role, mig>>

\* Mutant: an IAM error is taken for "already there".
EnsureIrsaSwallowing(w) ==
  /\ Onb(w, "irsa")
  /\ \/ aws' = [aws EXCEPT ![onb[w].tenant].irsa = TRUE] /\ Succeeds
     \/ UNCHANGED aws /\ Fails("aws")
  /\ OnbTo(w, "record")
  /\ UNCHANGED <<row, k8s, role, mig>>

\* The role is created or updated, then its policy written.
EnsureIrsa(w) ==
  /\ Onb(w, "irsa")
  /\ \/ /\ aws' = [aws EXCEPT ![onb[w].tenant].irsa = TRUE]
        /\ Succeeds
        /\ OnbTo(w, "record")
     \/ /\ Fails("aws")
        /\ \/ UNCHANGED aws
           \/ aws' = [aws EXCEPT ![onb[w].tenant].irsa = TRUE]
        /\ IdentityFails(w)
  /\ UNCHANGED <<row, k8s, role, mig>>

\* upsert(..., status="PROVISIONING", owned_by="control_plane", ...)
RecordIdentity(w) ==
  /\ Onb(w, "record")
  /\ row' = [row EXCEPT ![onb[w].tenant] =
               [Upsert(@, "ACTIVE", "PROVISIONING") EXCEPT !.owner = "control_plane"]]
  /\ OnbTo(w, "snapshot")
  /\ UNCHANGED <<k8s, aws, role, faults, mig>>

\* _cp_identities and merge_identity_maps: a snapshot of who has an identity,
\* tenants being deleted included.  The new tenant is added by provision and
\* must already be there for resume_tenant.
Recorded == {u \in Tenants : row[u].owner = "control_plane"}

Snapshot(w) ==
  LET t == onb[w].tenant
      provision == onb[w].kind = "provision"
      map == TofuTenants \cup Recorded \cup (IF provision THEN {t} ELSE {})
  IN
  /\ Onb(w, "snapshot")
  /\ \/ /\ t \in map /\ Succeeds
        /\ onb' = [onb EXCEPT ![w].pc = "ns", ![w].map = map,
                              ![w].site = IF provision THEN Platform ELSE t]
     \/ t \notin map /\ Succeeds /\ OnbRaise(w, "other")
     \/ Fails("kubectl") /\ OnbRaise(w, "other")     \* node_ip
  /\ UNCHANGED <<row, k8s, aws, role, mig>>

-----------------------------------------------------------------------------
(* onboard(site).                                                          *)

\* Guardrails, namespace, label.  The platform tenant must be in the maps.
ApplyNs(w) ==
  LET s == onb[w].site IN
  /\ Onb(w, "ns")
  /\ \/ /\ s \in onb[w].map /\ Succeeds
        /\ k8s' = [k8s EXCEPT ![s].ns = TRUE]
        /\ OnbTo(w, IF s = Platform THEN "clear" ELSE "helm")
     \/ /\ s \notin onb[w].map /\ Succeeds
        /\ UNCHANGED k8s
        /\ OnbRaise(w, "other")
     \/ /\ Fails("kubectl")
        /\ \/ UNCHANGED k8s
           \/ s \in onb[w].map /\ k8s' = [k8s EXCEPT ![s].ns = TRUE]
        /\ OnbRaise(w, "other")
  /\ UNCHANGED <<row, aws, role, mig>>

\* kubectl delete job test-app-migrate: whoever started it.
ClearMigrate(w) ==
  /\ Onb(w, "clear")
  /\ \/ mig' = NoMig /\ Succeeds /\ OnbTo(w, "helm")
     \/ UNCHANGED mig /\ Fails("kubectl") /\ OnbRaise(w, "other")
  /\ UNCHANGED <<row, k8s, aws, role>>

\* helm upgrade --install applies the Deployment, then the migrate Job on the
\* platform tenant, then the Ingress.  It restores what was scaled down or
\* deleted by hand.  A Job that is already there can only be kept as it is.
Installed(k, ingress) ==
  [k EXCEPT !.release = TRUE, !.replicas = 1, !.ingress = @ \/ ingress]

StartsMigrate(w) ==
  IF onb[w].site # Platform THEN UNCHANGED mig
  ELSE IF mig = NoMig THEN mig' = NewMig(onb[w].map)
  ELSE mig.map = onb[w].map /\ UNCHANGED mig

HelmUpgrade(w) ==
  LET s == onb[w].site IN
  /\ Onb(w, "helm")
  /\ \/ /\ k8s[s].ns /\ StartsMigrate(w) /\ Succeeds
        /\ k8s' = [k8s EXCEPT ![s] = Installed(@, TRUE)]
        /\ OnbTo(w, IF s = Platform THEN "wait" ELSE
                    IF onb[w].kind = "provision" THEN "edge" ELSE "scale")
     \/ /\ ~k8s[s].ns /\ Succeeds
        /\ UNCHANGED <<k8s, mig>>
        /\ OnbRaise(w, "other")
     \/ /\ k8s[s].ns /\ s = Platform /\ mig # NoMig /\ mig.map # onb[w].map
        /\ Succeeds
        /\ k8s' = [k8s EXCEPT ![s] = Installed(@, FALSE)]
        /\ UNCHANGED mig
        /\ OnbRaise(w, "other")
     \/ /\ k8s[s].ns /\ Fails("kubectl")
        /\ \/ UNCHANGED <<k8s, mig>>
           \/ k8s' = [k8s EXCEPT ![s] = Installed(@, FALSE)] /\ UNCHANGED mig
           \/ k8s' = [k8s EXCEPT ![s] = Installed(@, FALSE)] /\ StartsMigrate(w)
        /\ OnbRaise(w, "other")
  /\ UNCHANGED <<row, aws, role>>

\* Mutant: a Job that has failed has ended as well.
WaitMigrateEnded(w) ==
  /\ Onb(w, "wait")
  /\ \/ /\ mig.st \in {"complete", "failed"} /\ Succeeds
        /\ onb' = [onb EXCEPT ![w].pc = "ns", ![w].site = onb[w].tenant]
     \/ mig.st = "none" /\ Succeeds /\ OnbRaise(w, "other")
     \/ Fails("kubectl") /\ OnbRaise(w, "other")
  /\ UNCHANGED <<row, k8s, aws, role, mig>>

\* kubectl wait --for=condition=complete job/test-app-migrate: by name, so it
\* is satisfied by whichever Job has that name now.
WaitMigrate(w) ==
  LET own == onb[w].site = onb[w].tenant IN
  /\ Onb(w, "wait")
  /\ \/ /\ mig.st = "complete" /\ Succeeds
        /\ onb' = [onb EXCEPT ![w].pc = IF ~own THEN "ns" ELSE
                                        IF onb[w].kind = "provision" THEN "edge" ELSE "scale",
                              ![w].site = onb[w].tenant]
     \/ mig.st \in {"none", "failed"} /\ Succeeds /\ OnbRaise(w, "other")
     \/ Fails("kubectl") /\ OnbRaise(w, "other")
  /\ UNCHANGED <<row, k8s, aws, role, mig>>

-----------------------------------------------------------------------------
(* After onboard().                                                        *)

\* resume_tenant: scale to 1, where a failure is permanent, and wait for the
\* rollout, where it is retryable (the command line says "timeout").
ScaleUp(w) ==
  LET t == onb[w].tenant IN
  /\ Onb(w, "scale")
  /\ \/ /\ k8s[t].release /\ Succeeds
        /\ k8s' = [k8s EXCEPT ![t] = ScaledTo(@, 1)]
        /\ OnbTo(w, "edge")
     \/ /\ ~k8s[t].release /\ Succeeds
        /\ UNCHANGED k8s
        /\ OnbRaise(w, "permanent")
     \/ /\ Fails("kubectl")
        /\ \/ UNCHANGED k8s /\ OnbRaise(w, "permanent")
           \/ k8s' = [k8s EXCEPT ![t] = ScaledTo(@, 1)] /\ OnbRaise(w, "retryable")
  /\ UNCHANGED <<row, aws, role, mig>>

\* wait_ingress_hostname
WaitIngress(w) ==
  /\ Onb(w, "edge")
  /\ \/ k8s[onb[w].tenant].ingress /\ Succeeds /\ OnbTo(w, "activate")
     \/ ~k8s[onb[w].tenant].ingress /\ Succeeds /\ OnbRaise(w, "other")
     \/ Fails("kubectl") /\ OnbRaise(w, "other")
  /\ UNCHANGED <<row, k8s, aws, role, mig>>

\* upsert(desired_status="ACTIVE", status="ACTIVE"); provision passes the
\* owner again.
Activate(w) ==
  /\ Onb(w, "activate")
  /\ row' = [row EXCEPT ![onb[w].tenant] =
               IF onb[w].kind = "provision"
               THEN [Upsert(@, "ACTIVE", "ACTIVE") EXCEPT !.owner = "control_plane"]
               ELSE Upsert(@, "ACTIVE", "ACTIVE")]
  /\ OnbTo(w, "returned")
  /\ UNCHANGED <<k8s, aws, role, faults, mig>>

\* provision's except clauses: FAILED, and whatever it was becomes a
\* ControlPlaneError.
ProvisionFailed(w) ==
  /\ Onb(w, "except")
  /\ row' = [row EXCEPT ![onb[w].tenant] = Upsert(@, "ACTIVE", "FAILED")]
  /\ onb' = [onb EXCEPT ![w].pc = "raised",
                        ![w].exc = IF @ = "other" THEN "permanent" ELSE @]
  /\ UNCHANGED <<k8s, aws, role, faults, mig>>

\* resume_tenant reads the row again and only goes on from SUSPENDED.
GetSuspended(w) ==
  LET status == row[onb[w].tenant].status IN
  /\ Onb(w, "get")
  /\ \/ status = "SUSPENDED" /\ OnbTo(w, "outputs")
     \/ status = "ACTIVE" /\ OnbTo(w, "returned")
     \/ status \notin {"SUSPENDED", "ACTIVE"} /\ OnbRaise(w, "other")
  /\ UNCHANGED <<world, mig>>

OnboardingStep(w) ==
  \/ MarkProvisioning(w) \/ ReadOutputs(w) \/ EnsureSecret(w) \/ EnsureIrsa(w)
  \/ RecordIdentity(w) \/ Snapshot(w) \/ ApplyNs(w) \/ ClearMigrate(w)
  \/ HelmUpgrade(w) \/ WaitMigrate(w) \/ ScaleUp(w) \/ WaitIngress(w)
  \/ Activate(w) \/ ProvisionFailed(w) \/ GetSuspended(w)

-----------------------------------------------------------------------------
(* The migrate Job's pod, migrate.py.  It runs on its own, for as long as  *)
(* the platform tenant's release keeps the Job.  The order of the map is   *)
(* left open.                                                              *)

\* load(secret_name).  Without the secret the pod fails until the Job gives up;
\* the restarts in between are those of MigrateError.
LoadCredentials ==
  \E t \in mig.todo :
    /\ mig.st = "running" /\ mig.held = {}
    /\ k8s[Platform].release
    /\ \/ aws[t].secret = "live" /\ Succeeds /\ mig' = [mig EXCEPT !.held = {t}]
       \/ aws[t].secret # "live" /\ Succeeds /\ mig' = [mig EXCEPT !.st = "failed"]
    /\ UNCHANGED <<row, k8s, aws, role, onb>>

\* CREATE ROLE ... LOGIN, or ALTER ROLE ... PASSWORD, which does not restore
\* LOGIN; then the grants and the policy.
CreateRole ==
  \E t \in mig.held :
    /\ mig.st = "running" /\ k8s[Platform].release
    /\ role' = [role EXCEPT ![t] = IF @ = "none" THEN "login" ELSE @]
    /\ mig' = [mig EXCEPT !.held = {}, !.todo = @ \ {t}]
    /\ UNCHANGED <<row, k8s, aws, faults, onb>>

\* An error ends the pod: it is restarted over the whole map, or gives up.
MigrateError ==
  /\ mig.st = "running" /\ k8s[Platform].release
  /\ Fails("db")
  /\ mig' \in {NewMig(mig.map), [mig EXCEPT !.st = "failed", !.held = {}]}
  /\ UNCHANGED <<row, k8s, aws, role, onb>>

MigrateDone ==
  /\ mig.st = "running" /\ mig.todo = {}
  /\ k8s[Platform].release
  /\ mig' = [mig EXCEPT !.st = "complete"]
  /\ UNCHANGED <<world, onb>>

\* helm uninstall, or deleting the namespace, takes the Job along; a Job that
\* has ended goes after ttlSecondsAfterFinished, twice the time anyone waits.
MigrateGone ==
  /\ mig # NoMig
  /\ \/ ~k8s[Platform].release
     \/ mig.st \in {"complete", "failed"} /\ \A w \in Workers : ~Onb(w, "wait")
  /\ mig' = NoMig
  /\ UNCHANGED <<world, onb>>

MigrateStep == LoadCredentials \/ CreateRole \/ MigrateError \/ MigrateDone \/ MigrateGone
=============================================================================
