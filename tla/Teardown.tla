------------------------------ MODULE Teardown ------------------------------
(***************************************************************************)
(* delete_tenant of control-plane/lifecycle.py and the drop-role Job of    *)
(* pg_admin.py, run by any number of workers at once: a CLI process and a  *)
(* Flask job share the registry and nothing else, so two deletions of one  *)
(* tenant do overlap.  Every registry transaction and every external call  *)
(* is a step of its own; each call can fail, and a worker can die between  *)
(* two steps.                                                              *)
(***************************************************************************)
EXTENDS World

VARIABLES
  del,      \* worker -> activation of delete_tenant
  dropjob,  \* worker -> the drop-role Job its last revoke attempt created
  stray     \* tenant -> how many pods of earlier drop-role Jobs still run

teardownVars == <<del, dropjob, stray>>
vars == <<world, del, dropjob, stray>>

Attempts == 3   \* _revoke_postgres_role(..., attempts=3)

MarkPC == {"mark_started", "mark_disabled", "mark_revoked", "mark_k8s",
           "mark_iam", "mark_secret"}
CallPC == {"scale", "unroute", "outputs", "revoke", "revoking", "uninstall",
           "get_ns", "delete_ns", "irsa", "secret"}
DeletePC == {"idle", "purge", "except", "returned", "raised"} \cup MarkPC \cup CallPC

\* "retryable" and "permanent" are ControlPlaneErrors; "other" is OnboardError,
\* CalledProcessError or TimeoutExpired, which `except ControlPlaneError` misses.
ErrorKinds == {"none", "retryable", "permanent", "other"}

FrameType == [pc : DeletePC, tenant : Tenants, owner : Owners,
              tries : 0..(Attempts - 1), exc : ErrorKinds]
JobType == [st : {"none", "running", "complete", "failed"}, tenant : Tenants]

TypeOK ==
  /\ WorldTypeOK
  /\ del \in [Workers -> FrameType]
  /\ dropjob \in [Workers -> JobType]
  /\ stray \in [Tenants -> Nat]

NoFrame == [pc |-> "idle", tenant |-> Platform, owner |-> "none",
            tries |-> 0, exc |-> "none"]
NoJob == [st |-> "none", tenant |-> Platform]
NoStrays == [t \in Tenants |-> 0]

At(w, label) == del[w].pc = label
Goto(w, label) == del' = [del EXCEPT ![w].pc = label]
Raise(w, kind) == del' = [del EXCEPT ![w].pc = "except", ![w].exc = kind]

-----------------------------------------------------------------------------
(* Registry transactions of delete_tenant.                                 *)

\* Mutant: a failed deletion is not accepted again.
BeginUnlessFailed(w, t) ==
  /\ At(w, "idle")
  /\ row[t].status # "DELETE_FAILED"
  /\ del' = [del EXCEPT ![w] = [pc |-> "mark_started", tenant |-> t, owner |-> row[t].owner,
                                tries |-> 0, exc |-> "none"]]
  /\ UNCHANGED <<world, dropjob, stray>>

\* item = store.get(tenant_id) or {"owned_by": None}: the owner is read here,
\* before the tenant is marked, and never again.
Begin(w, t) ==
  /\ At(w, "idle")
  /\ del' = [del EXCEPT ![w] = [pc |-> "mark_started", tenant |-> t, owner |-> row[t].owner,
                                tries |-> 0, exc |-> "none"]]
  /\ UNCHANGED <<world, dropjob, stray>>

\* upsert(desired_status="GONE", status="DELETING", delete_step="started")
MarkStarted(w) ==
  LET t == del[w].tenant IN
  /\ At(w, "mark_started")
  /\ row' = [row EXCEPT ![t] = [Upsert(@, "GONE", "DELETING") EXCEPT !.step = "started"]]
  /\ Goto(w, "scale")
  /\ UNCHANGED <<k8s, aws, role, faults, dropjob, stray>>

\* upsert(status="DELETING", delete_step=step): inserts the row again when
\* another worker has removed it in the meantime.
Mark(w, label, step, next) ==
  LET t == del[w].tenant IN
  /\ At(w, label)
  /\ row' = [row EXCEPT ![t] = UpsertStep(@, "DELETING", step)]
  /\ Goto(w, next)
  /\ UNCHANGED <<k8s, aws, role, faults, dropjob, stray>>

MarkDisabled(w) == Mark(w, "mark_disabled", "access_disabled", "outputs")

\* Mutant: the AWS side is skipped for the tenants the control plane owns.
MarkK8sSkippingAws(w) ==
  Mark(w, "mark_k8s", "k8s_deleted",
       IF del[w].owner = "opentofu" THEN "irsa" ELSE "purge")

MarkRevoked(w) == Mark(w, "mark_revoked", "db_revoked", "uninstall")
MarkK8s(w) ==
  Mark(w, "mark_k8s", "k8s_deleted",
       IF del[w].owner = "control_plane" THEN "irsa" ELSE "purge")
MarkIam(w) == Mark(w, "mark_iam", "iam_deleted", "secret")
MarkSecret(w) == Mark(w, "mark_secret", "secret_deleted", "purge")

\* store.delete(tenant_id)
Purge(w) ==
  /\ At(w, "purge")
  /\ row' = [row EXCEPT ![del[w].tenant] = NoRow]
  /\ Goto(w, "returned")
  /\ UNCHANGED <<k8s, aws, role, faults, dropjob, stray>>

\* except Exception: upsert(status="DELETE_FAILED", desired_status="GONE"); raise
RecordFailure(w) ==
  /\ At(w, "except")
  /\ row' = [row EXCEPT ![del[w].tenant] = Upsert(@, "GONE", "DELETE_FAILED")]
  /\ Goto(w, "raised")
  /\ UNCHANGED <<k8s, aws, role, faults, dropjob, stray>>

-----------------------------------------------------------------------------
(* _disable_application_access: both results are ignored.                  *)

Scale(w) ==
  /\ At(w, "scale")
  /\ \/ /\ k8s' = [k8s EXCEPT ![del[w].tenant] = ScaledTo(@, 0)]
        /\ Succeeds
     \/ /\ Fails("kubectl")
        /\ UNCHANGED k8s
  /\ Goto(w, "unroute")
  /\ UNCHANGED <<row, aws, role, dropjob, stray>>

Unroute(w) ==
  /\ At(w, "unroute")
  /\ \/ /\ k8s' = [k8s EXCEPT ![del[w].tenant] = WithoutIngress(@)]
        /\ Succeeds
     \/ /\ Fails("kubectl")
        /\ UNCHANGED k8s
  /\ Goto(w, "mark_disabled")
  /\ UNCHANGED <<row, aws, role, dropjob, stray>>

TofuOutputs(w) ==
  /\ At(w, "outputs")
  /\ \/ Succeeds /\ Goto(w, "revoke")
     \/ Fails("tofu") /\ Raise(w, "other")
  /\ UNCHANGED <<row, k8s, aws, role, dropjob, stray>>

-----------------------------------------------------------------------------
(* _revoke_postgres_role: up to Attempts calls of drop_postgres_role, each  *)
(* of which creates a Job in the platform tenant's namespace and polls it. *)

\* Mutant: one attempt too many.
AttemptFailedOnceMore(w) ==
  IF del[w].tries < Attempts
  THEN del' = [del EXCEPT ![w].pc = "revoke", ![w].tries = @ + 1]
  ELSE Raise(w, "other")

AttemptFailed(w) ==
  IF del[w].tries + 1 < Attempts
  THEN del' = [del EXCEPT ![w].pc = "revoke", ![w].tries = @ + 1]
  ELSE Raise(w, "other")

\* Each attempt creates a Job of another name.  One that an earlier attempt, or
\* an earlier deletion, has left running runs on beside it.
CreatesDropJob(w) ==
  LET old == dropjob[w] IN
  /\ dropjob' = [dropjob EXCEPT ![w] = [st |-> "running", tenant |-> del[w].tenant]]
  /\ stray' = IF old.st = "running" THEN [stray EXCEPT ![old.tenant] = @ + 1] ELSE stray

\* ensure_migrator_sa, the ConfigMap and the Job are applied; without the
\* platform namespace every one of them fails, and the Job may be there though
\* the call that applied it failed: nobody deletes it then.
LaunchDropJob(w) ==
  /\ At(w, "revoke")
  /\ \/ k8s[Platform].ns /\ Succeeds /\ CreatesDropJob(w) /\ Goto(w, "revoking")
     \/ ~k8s[Platform].ns /\ Succeeds /\ UNCHANGED <<dropjob, stray>> /\ AttemptFailed(w)
     \/ Fails("kubectl") /\ UNCHANGED <<dropjob, stray>> /\ AttemptFailed(w)
     \/ k8s[Platform].ns /\ Fails("lost_job") /\ CreatesDropJob(w) /\ AttemptFailed(w)
  /\ UNCHANGED <<row, k8s, aws, role>>

\* A Job's pod runs _DROP_SCRIPT: NOLOGIN and a random password, then DROP ROLE.
\* A failure leaves the role untouched or disabled, never usable again once
\* disabled.
ScriptDrops(t) == Succeeds /\ role' = [role EXCEPT ![t] = "none"]
ScriptFails(t) ==
  /\ Fails("db")
  /\ \/ UNCHANGED role
     \/ role[t] = "login" /\ role' = [role EXCEPT ![t] = "nologin"]

\* The pod outlives the attempt, and the worker, that created it.
RunDropJob(w) ==
  LET t == dropjob[w].tenant IN
  /\ dropjob[w].st = "running"
  /\ \/ ScriptDrops(t) /\ dropjob' = [dropjob EXCEPT ![w].st = "complete"]
     \/ ScriptFails(t) /\ dropjob' = [dropjob EXCEPT ![w].st = "failed"]
  /\ UNCHANGED <<row, k8s, aws, del, stray>>

\* So does a pod whose Job nobody knows of any more.
RunStrayPod(t) ==
  /\ stray[t] > 0
  /\ stray' = [stray EXCEPT ![t] = @ - 1]
  /\ ScriptDrops(t) \/ ScriptFails(t)
  /\ UNCHANGED <<row, k8s, aws, del, dropjob>>

\* Mutant: a poll that cannot see the Job takes it for finished.
PollDropJobOptimistic(w) ==
  /\ At(w, "revoking")
  /\ \/ dropjob[w].st = "complete" /\ Succeeds /\ Goto(w, "mark_revoked")
     \/ dropjob[w].st = "failed" /\ Succeeds /\ AttemptFailed(w)
     \/ (Fails("kubectl") \/ Fails("lost_job")) /\ Goto(w, "mark_revoked")
  /\ dropjob' = [dropjob EXCEPT ![w] = NoJob]
  /\ UNCHANGED <<row, k8s, aws, role, stray>>

\* The poll sees the Job's condition, or fails or times out whatever the Job
\* did.  The finally clause deletes the Job, waits for nothing and ignores the
\* result, so the pod of a Job that could not be polled may run on.
PollDropJob(w) ==
  /\ At(w, "revoking")
  /\ \/ /\ dropjob[w].st = "complete" /\ Succeeds
        /\ Goto(w, "mark_revoked")
        /\ dropjob' = [dropjob EXCEPT ![w] = NoJob]
     \/ /\ dropjob[w].st = "failed" /\ Succeeds
        /\ AttemptFailed(w)
        /\ dropjob' = [dropjob EXCEPT ![w] = NoJob]
     \/ /\ Fails("kubectl")
        /\ AttemptFailed(w)
        /\ dropjob' = [dropjob EXCEPT ![w] = NoJob]
     \/ Fails("lost_job") /\ AttemptFailed(w) /\ UNCHANGED dropjob
  /\ UNCHANGED <<row, k8s, aws, role, stray>>

-----------------------------------------------------------------------------
(* _delete_kubernetes.                                                     *)

\* helm uninstall; its result is ignored.
Uninstall(w) ==
  /\ At(w, "uninstall")
  /\ \/ /\ k8s' = [k8s EXCEPT ![del[w].tenant] = Uninstalled(@)]
        /\ Succeeds
     \/ /\ Fails("kubectl")
        /\ UNCHANGED k8s
  /\ Goto(w, "get_ns")
  /\ UNCHANGED <<row, aws, role, dropjob, stray>>

\* kubectl get ns: any non-zero exit counts as "the namespace is not there".
GetNs(w) ==
  /\ At(w, "get_ns")
  /\ \/ /\ Succeeds
        /\ Goto(w, IF k8s[del[w].tenant].ns THEN "delete_ns" ELSE "mark_k8s")
     \/ /\ Fails("get_ns")
        /\ Goto(w, "mark_k8s")
  /\ UNCHANGED <<row, k8s, aws, role, dropjob, stray>>

\* The Jobs in the platform namespace die with it.
RemoveNs(t) ==
  /\ k8s' = [k8s EXCEPT ![t] = NoK8s]
  /\ dropjob' = IF t # Platform THEN dropjob
                ELSE [w \in Workers |->
                        IF dropjob[w].st = "none" THEN dropjob[w]
                        ELSE [dropjob[w] EXCEPT !.st = "failed"]]
  /\ stray' = IF t # Platform THEN stray ELSE NoStrays

\* kubectl delete ns --wait --timeout=180s.  A timeout may still remove it,
\* and a namespace another worker has just removed is an error (NotFound).
DeleteNs(w) ==
  LET t == del[w].tenant IN
  /\ At(w, "delete_ns")
  /\ \/ k8s[t].ns /\ Succeeds /\ RemoveNs(t) /\ Goto(w, "mark_k8s")
     \/ ~k8s[t].ns /\ Succeeds /\ Raise(w, "retryable") /\ UNCHANGED <<k8s, dropjob, stray>>
     \/ /\ Fails("kubectl")
        /\ Raise(w, "retryable")
        /\ \/ RemoveNs(t)
           \/ UNCHANGED <<k8s, dropjob, stray>>
  /\ UNCHANGED <<row, aws, role>>

-----------------------------------------------------------------------------
(* delete_tenant_irsa and delete_tenant_secret: idempotent; an AWS error    *)
(* outside the "already gone" codes is raised as retryable or permanent.    *)

\* Mutant: an AWS error is taken for "already gone".
DeleteIrsaSwallowing(w) ==
  /\ At(w, "irsa")
  /\ \/ /\ aws' = [aws EXCEPT ![del[w].tenant].irsa = FALSE]
        /\ Succeeds
     \/ /\ Fails("aws")
        /\ UNCHANGED aws
  /\ Goto(w, "mark_iam")
  /\ UNCHANGED <<row, k8s, role, dropjob, stray>>

DeleteIrsa(w) ==
  /\ At(w, "irsa")
  /\ \/ /\ aws' = [aws EXCEPT ![del[w].tenant].irsa = FALSE]
        /\ Succeeds
        /\ Goto(w, "mark_iam")
     \/ /\ Fails("aws")
        /\ \E kind \in {"retryable", "permanent"} : Raise(w, kind)
        /\ UNCHANGED aws
  /\ UNCHANGED <<row, k8s, role, dropjob, stray>>

DeleteSecret(w) ==
  /\ At(w, "secret")
  /\ \/ /\ aws' = [aws EXCEPT ![del[w].tenant].secret = DeletedSecret(@)]
        /\ Succeeds
        /\ Goto(w, "mark_secret")
     \/ /\ Fails("aws")
        /\ \E kind \in {"retryable", "permanent"} : Raise(w, kind)
        /\ UNCHANGED aws
  /\ UNCHANGED <<row, k8s, role, dropjob, stray>>

-----------------------------------------------------------------------------
(* A worker dies; what it wrote and created stays.                         *)

CrashDelete(w) ==
  /\ del[w].pc \notin {"idle", "returned", "raised"}
  /\ Fails("crash")
  /\ del' = [del EXCEPT ![w] = NoFrame]
  /\ UNCHANGED <<row, k8s, aws, role, dropjob, stray>>

DeleteStep(w) ==
  \/ MarkStarted(w) \/ MarkDisabled(w) \/ MarkRevoked(w) \/ MarkK8s(w)
  \/ MarkIam(w) \/ MarkSecret(w) \/ Purge(w) \/ RecordFailure(w)
  \/ Scale(w) \/ Unroute(w) \/ TofuOutputs(w)
  \/ LaunchDropJob(w) \/ PollDropJob(w)
  \/ Uninstall(w) \/ GetNs(w) \/ DeleteNs(w)
  \/ DeleteIrsa(w) \/ DeleteSecret(w)
=============================================================================
