----------------------------- MODULE Suspension -----------------------------
(***************************************************************************)
(* suspend_tenant of control-plane/lifecycle.py, step by step.             *)
(***************************************************************************)
EXTENDS World

VARIABLE sus   \* worker -> activation of suspend_tenant

SusPC == {"idle", "get", "scale", "unroute", "mark", "returned", "raised"}
SusFrame == [pc : SusPC, tenant : Tenants, exc : {"none", "permanent", "other"}]
SuspensionTypeOK == sus \in [Workers -> SusFrame]
IdleSus == [pc |-> "idle", tenant |-> Platform, exc |-> "none"]

Sus(w, label) == sus[w].pc = label
SusTo(w, label) == sus' = [sus EXCEPT ![w].pc = label]
SusRaise(w, kind) == sus' = [sus EXCEPT ![w].pc = "raised", ![w].exc = kind]

StartSuspension(w, t) ==
  /\ Sus(w, "idle")
  /\ sus' = [sus EXCEPT ![w] = [pc |-> "get", tenant |-> t, exc |-> "none"]]

\* The status is read here, before the workload is touched, and not again.
GetStatus(w) ==
  LET status == row[sus[w].tenant].status IN
  /\ Sus(w, "get")
  /\ \/ status = "SUSPENDED" /\ SusTo(w, "returned")
     \/ status \in {"ACTIVE", "FAILED", "DRIFT"} /\ SusTo(w, "scale")
     \/ status \notin {"SUSPENDED", "ACTIVE", "FAILED", "DRIFT"} /\ SusRaise(w, "other")
  /\ UNCHANGED world

\* kubectl scale fails: a PermanentProvisioningError, since neither the command
\* line nor its exit code speaks of a timeout.
ScaleDown(w) ==
  LET t == sus[w].tenant IN
  /\ Sus(w, "scale")
  /\ \/ /\ k8s[t].release /\ Succeeds
        /\ k8s' = [k8s EXCEPT ![t] = ScaledTo(@, 0)]
        /\ SusTo(w, "unroute")
     \/ /\ ~k8s[t].release /\ Succeeds
        /\ UNCHANGED k8s
        /\ SusRaise(w, "permanent")
     \/ /\ Fails("kubectl")
        /\ \/ UNCHANGED k8s
           \/ k8s' = [k8s EXCEPT ![t] = ScaledTo(@, 0)]
        /\ SusRaise(w, "permanent")
  /\ UNCHANGED <<row, aws, role>>

\* The result is ignored.
DropIngress(w) ==
  /\ Sus(w, "unroute")
  /\ \/ k8s' = [k8s EXCEPT ![sus[w].tenant] = WithoutIngress(@)] /\ Succeeds
     \/ UNCHANGED k8s /\ Fails("kubectl")
  /\ SusTo(w, "mark")
  /\ UNCHANGED <<row, aws, role>>

\* upsert(desired_status="SUSPENDED", status="SUSPENDED")
MarkSuspended(w) ==
  /\ Sus(w, "mark")
  /\ row' = [row EXCEPT ![sus[w].tenant] = Upsert(@, "SUSPENDED", "SUSPENDED")]
  /\ SusTo(w, "returned")
  /\ UNCHANGED <<k8s, aws, role, faults>>

SuspensionStep(w) == GetStatus(w) \/ ScaleDown(w) \/ DropIngress(w) \/ MarkSuspended(w)
=============================================================================
