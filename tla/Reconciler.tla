----------------------------- MODULE Reconciler -----------------------------
(***************************************************************************)
(* reconcile_one and reconcile_all of control-plane/reconcile.py, with the *)
(* observer of observe.py.  The reconciler reads the row, looks at the     *)
(* cluster call by call, decides (Planning) and runs the procedure of      *)
(* another module in the same thread; the row it decided from is read once *)
(* and anyone may write it meanwhile.                                      *)
(***************************************************************************)
EXTENDS Teardown, Onboarding, Suspension, Planning

VARIABLE rec   \* worker -> activation of reconcile_one or reconcile_all

RecPC == {"idle", "list", "next", "get", "ns", "deploy", "edge", "record", "settle",
          "purge", "call", "wait", "except", "absorb", "returned", "raised"}

\* In a pass (reconcile_all) `todo` are the rows still to visit and `was` their
\* status when they were listed.  `status` is the row's status until the plan
\* is made and the status to record from then on.
RecFrame == [pc : RecPC, pass : BOOLEAN, todo : SUBSET Tenants,
             was : [Tenants -> STATUSES \cup {"none"}], tenant : Tenants,
             desired : DESIRED_STATUSES \cup {"none"}, status : STATUSES \cup {"none"},
             seen : ObservedType, plan : Plans \cup {"undecided"}, exc : ErrorKinds]

ReconcilerTypeOK == rec \in [Workers -> RecFrame]

NothingListed == [t \in Tenants |-> "none"]

IdleRec == [pc |-> "idle", pass |-> FALSE, todo |-> {}, was |-> NothingListed,
            tenant |-> Platform, desired |-> "none", status |-> "none",
            seen |-> NothingObserved, plan |-> "undecided", exc |-> "none"]

Rec(w, label) == rec[w].pc = label
RecTo(w, label) == rec' = [rec EXCEPT ![w].pc = label]

StartReconcile(w, t) ==
  /\ Rec(w, "idle")
  /\ rec' = [rec EXCEPT ![w] = [IdleRec EXCEPT !.pc = "get", !.tenant = t]]

StartPass(w) ==
  /\ Rec(w, "idle")
  /\ rec' = [rec EXCEPT ![w] = [IdleRec EXCEPT !.pc = "list", !.pass = TRUE]]

othersOfRec == <<del, dropjob, stray, onb, mig, sus>>

-----------------------------------------------------------------------------
(* How reconcile_one ends: for its caller, or for the pass it is part of.  *)

\* Forgets what was known of the tenant just done with.
Reset(f) == [IdleRec EXCEPT !.pass = f.pass, !.todo = f.todo,
                            !.was = [f.was EXCEPT ![f.tenant] = "none"]]

RecReturn(w) ==
  rec' = [rec EXCEPT ![w] = [Reset(@) EXCEPT !.pc = IF rec[w].pass THEN "next" ELSE "returned"]]

\* reconcile_all catches ControlPlaneErrors; OnboardError, CalledProcessError
\* and TimeoutExpired end the whole pass.
Caught(kind) == kind \in {"retryable", "permanent"}

Escape(w, kind) ==
  rec' = [rec EXCEPT ![w].pc = IF rec[w].pass /\ Caught(kind) THEN "absorb" ELSE "raised",
                     ![w].exc = kind]

\* Mutant: the pass keeps the ids only.
ListRowsWithoutStatus(w) ==
  LET listed == {t \in Tenants : row[t] # NoRow} IN
  /\ Rec(w, "list")
  /\ rec' = [rec EXCEPT ![w].pc = "next", ![w].todo = listed]
  /\ UNCHANGED <<world, othersOfRec>>

\* for item in store.list(): the rows as they are now, in any order.
ListRows(w) ==
  LET listed == {t \in Tenants : row[t] # NoRow} IN
  /\ Rec(w, "list")
  /\ rec' = [rec EXCEPT ![w].pc = "next", ![w].todo = listed,
                        ![w].was = [t \in Tenants |-> row[t].status]]
  /\ UNCHANGED <<world, othersOfRec>>

NextTenant(w) ==
  /\ Rec(w, "next")
  /\ \/ \E t \in rec[w].todo :
          rec' = [rec EXCEPT ![w].pc = "get", ![w].tenant = t, ![w].todo = @ \ {t}]
     \/ rec[w].todo = {} /\ RecTo(w, "returned")
  /\ UNCHANGED <<world, othersOfRec>>

\* upsert(status="DRIFT" if not exc.retryable else item.get("status")), over
\* whatever reconcile_one recorded, and into a registry that may no longer
\* have the row.
Absorb(w) ==
  LET t == rec[w].tenant IN
  /\ Rec(w, "absorb")
  /\ row' = [row EXCEPT ![t] =
               UpsertStatus(@, IF rec[w].exc = "permanent" THEN "DRIFT" ELSE rec[w].was[t])]
  /\ RecReturn(w)
  /\ UNCHANGED <<k8s, aws, role, faults, othersOfRec>>

-----------------------------------------------------------------------------
(* reconcile_one reads the row and observes.  A kubectl that fails answers  *)
(* None, as if the object were missing; one that hangs raises.             *)

\* Mutant: a deletion that has failed once is left to the operator.
GetDesiredUnlessFailed(w) ==
  LET r == row[rec[w].tenant] IN
  /\ Rec(w, "get")
  /\ \/ r = NoRow /\ Escape(w, "permanent")
     \/ r.status = "DELETE_FAILED" /\ RecReturn(w)
     \/ /\ r # NoRow /\ r.status # "DELETE_FAILED"
        /\ rec' = [rec EXCEPT ![w].pc = "ns", ![w].desired = r.desired, ![w].status = r.status]
  /\ UNCHANGED <<world, othersOfRec>>

GetDesired(w) ==
  LET r == row[rec[w].tenant] IN
  /\ Rec(w, "get")
  /\ \/ r = NoRow /\ Escape(w, "permanent")     \* ValidationError
     \/ r # NoRow /\ rec' = [rec EXCEPT ![w].pc = "ns", ![w].desired = r.desired,
                                         ![w].status = r.status]
  /\ UNCHANGED <<world, othersOfRec>>

\* The first observation makes the plan, the one after a procedure the verdict.
Observed(w, o) ==
  LET f == rec[w]
      first == f.plan = "undecided"
      plan == IF first THEN PlanAction(f.desired, o, f.status) ELSE f.plan
      verdict == IF first /\ plan # "none" THEN "none" ELSE StatusObserved(f.desired, o)
  IN
  rec' = [rec EXCEPT ![w].pc = IF first THEN "record" ELSE "settle",
                     ![w].plan = plan, ![w].status = verdict, ![w].seen = NothingObserved]

ObserveNs(w) ==
  /\ Rec(w, "ns")
  /\ \/ /\ k8s[rec[w].tenant].ns /\ Succeeds
        /\ rec' = [rec EXCEPT ![w].pc = "deploy", ![w].seen.namespace = TRUE]
     \/ ~k8s[rec[w].tenant].ns /\ Succeeds /\ Observed(w, NothingObserved)
     \/ Fails("get_ns") /\ Observed(w, NothingObserved)
     \/ Fails("kubectl") /\ Escape(w, "other")
  /\ UNCHANGED <<row, k8s, aws, role, othersOfRec>>

\* A Deployment may also be there with its pod not ready yet.
ObserveDeploy(w) ==
  LET n == k8s[rec[w].tenant].replicas
      sees(replicas, ready) == rec' = [rec EXCEPT ![w].pc = "edge",
                                 ![w].seen.replicas = replicas, ![w].seen.ready = ready]
  IN
  /\ Rec(w, "deploy")
  /\ \/ Succeeds /\ sees(n, n = 1)
     \/ /\ Fails("kubectl")
        /\ sees(0, FALSE) \/ sees(n, FALSE) \/ Escape(w, "other")
  /\ UNCHANGED <<row, k8s, aws, role, othersOfRec>>

\* Ingress, Service, NetworkPolicy, ResourceQuota and ServiceAccount.
ObserveEdge(w) ==
  LET k == k8s[rec[w].tenant]
      sees(ingress, rest) == Observed(w, [rec[w].seen EXCEPT !.ingress = ingress, !.rest = rest])
  IN
  /\ Rec(w, "edge")
  /\ \/ Succeeds /\ sees(k.ingress, k.release)
     \/ /\ Fails("kubectl")
        /\ sees(FALSE, k.release) \/ sees(k.ingress, FALSE) \/ Escape(w, "other")
  /\ UNCHANGED <<row, k8s, aws, role, othersOfRec>>

-----------------------------------------------------------------------------
(* What it does about it.                                                  *)

\* upsert(observed_json=...): brings a row back that is gone by now.
RecordObserved(w) ==
  LET plan == rec[w].plan IN
  /\ Rec(w, "record")
  /\ row' = [row EXCEPT ![rec[w].tenant] = UpsertObserved(@)]
  /\ RecTo(w, IF plan = "none" THEN "settle" ELSE
              IF plan = "purge_registry" THEN "purge" ELSE "call")
  /\ UNCHANGED <<k8s, aws, role, faults, othersOfRec>>

\* _record_observed(..., status=...)
Settle(w) ==
  /\ Rec(w, "settle")
  /\ row' = [row EXCEPT ![rec[w].tenant] = UpsertStatus(@, rec[w].status)]
  /\ RecReturn(w)
  /\ UNCHANGED <<k8s, aws, role, faults, othersOfRec>>

\* store.delete(tenant_id), whatever was left of the tenant but its namespace.
PurgeRow(w) ==
  /\ Rec(w, "purge")
  /\ row' = [row EXCEPT ![rec[w].tenant] = NoRow]
  /\ RecReturn(w)
  /\ UNCHANGED <<k8s, aws, role, faults, othersOfRec>>

CallProcedure(w) ==
  LET t == rec[w].tenant
      plan == rec[w].plan
  IN
  /\ Rec(w, "call")
  /\ \/ /\ plan \in {"provision", "repair", "resume"}
        /\ StartOnboarding(w, t, IF plan = "resume" THEN "resume" ELSE "provision")
        /\ UNCHANGED <<world, del, dropjob, stray, mig, sus>>
     \/ /\ plan = "suspend" /\ StartSuspension(w, t)
        /\ UNCHANGED <<world, del, dropjob, stray, onb, mig>>
     \/ /\ plan = "delete" /\ Begin(w, t)
        /\ UNCHANGED <<onb, mig, sus>>
  /\ RecTo(w, "wait")

\* Towards ACTIVE the procedure's word is not taken: observe again.
ProcedureReturns(w) ==
  /\ Rec(w, "wait")
  /\ \E pc \in {del[w].pc, onb[w].pc, sus[w].pc} : pc = "returned"
  /\ IF rec[w].desired = "ACTIVE" THEN RecTo(w, "ns") ELSE RecReturn(w)
  /\ del' = [del EXCEPT ![w] = NoFrame]
  /\ onb' = [onb EXCEPT ![w] = IdleOnb]
  /\ sus' = [sus EXCEPT ![w] = IdleSus]
  /\ UNCHANGED <<world, dropjob, stray, mig>>

ProcedureRaises(w) ==
  /\ Rec(w, "wait")
  /\ \E f \in {[pc |-> del[w].pc, exc |-> del[w].exc], [pc |-> onb[w].pc, exc |-> onb[w].exc],
                [pc |-> sus[w].pc, exc |-> sus[w].exc]} :
       /\ f.pc = "raised"
       /\ IF Caught(f.exc) THEN rec' = [rec EXCEPT ![w].pc = "except", ![w].exc = f.exc]
                           ELSE Escape(w, f.exc)
  /\ del' = [del EXCEPT ![w] = NoFrame]
  /\ onb' = [onb EXCEPT ![w] = IdleOnb]
  /\ sus' = [sus EXCEPT ![w] = IdleSus]
  /\ UNCHANGED <<world, dropjob, stray, mig>>

\* except ControlPlaneError: upsert(desired_status=desired, status=...); raise
\* The desired status is the one read at the start.
RecordProcedureFailure(w) ==
  LET f == rec[w]
      status == IF f.desired = "GONE" THEN "DELETE_FAILED"
                ELSE IF f.exc = "retryable" THEN "DRIFT" ELSE "FAILED"
  IN
  /\ Rec(w, "except")
  /\ row' = [row EXCEPT ![f.tenant] = Upsert(@, f.desired, status)]
  /\ Escape(w, f.exc)
  /\ UNCHANGED <<k8s, aws, role, faults, othersOfRec>>

ReconcileStep(w) ==
  \/ ListRows(w) \/ NextTenant(w) \/ Absorb(w) \/ GetDesired(w)
  \/ ObserveNs(w) \/ ObserveDeploy(w) \/ ObserveEdge(w) \/ RecordObserved(w)
  \/ Settle(w) \/ PurgeRow(w) \/ CallProcedure(w)
  \/ ProcedureReturns(w) \/ ProcedureRaises(w) \/ RecordProcedureFailure(w)
=============================================================================
