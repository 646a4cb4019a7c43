------------------------------ MODULE Deletion ------------------------------
(***************************************************************************)
(* The closed system of deletions: any number of `cli.py delete` processes *)
(* over tenants in every situation a deletion can meet, with the retry the *)
(* API asks for ("retry DELETE /tenants/{id} until GONE").                 *)
(***************************************************************************)
EXTENDS Teardown, Situations, Promises

CONSTANTS
  Targets,   \* the tenants somebody deletes
  Origins    \* the situations a target may be in at the start

ASSUME TargetAssumption == Targets \subseteq Tenants
ASSUME OriginAssumption == Origins \subseteq Situations

-----------------------------------------------------------------------------

Init ==
  /\ row \in [Tenants -> UNION {RowStarts(t) : t \in Tenants}]
  /\ k8s \in [Tenants -> {NoK8s, BareNs, FullK8s,
                          IdleK8s}]
  /\ aws \in [Tenants -> {NoAws, FullAws, [NoAws EXCEPT !.secret = "live"]}]
  /\ role \in [Tenants -> {"none", "login"}]
  /\ \A t \in Tenants :
       IF t \in Targets THEN \E o \in Origins : StartsIn(t, o) ELSE Active(t)
  /\ faults = MaxFaults
  /\ del = [w \in Workers |-> NoFrame]
  /\ dropjob = [w \in Workers |-> NoJob]
  /\ stray = NoStrays

-----------------------------------------------------------------------------

\* cli.py delete: the process exits whether delete_tenant returned or raised.
Finish(w) ==
  /\ del[w].pc \in {"returned", "raised"}
  /\ del' = [del EXCEPT ![w] = NoFrame]
  /\ UNCHANGED <<world, dropjob, stray>>

WorkerStep(w) == DeleteStep(w) \/ Finish(w)

Next ==
  \/ \E w \in Workers :
       \/ \E t \in Targets : Begin(w, t)
       \/ WorkerStep(w)
       \/ RunDropJob(w)
       \/ CrashDelete(w)
  \/ \E t \in Tenants : RunStrayPod(t)

\* The operator repeats a deletion the registry still wants.
Retry(t) == row[t].desired = "GONE" /\ \E w \in Workers : Begin(w, t)

(***************************************************************************)
(* A running process keeps running: weak fairness assumes that the calls   *)
(* it makes return, which most have a timeout for and lifecycle._run,      *)
(* which runs kubectl and helm, has not.  The pod of a worker's last Job   *)
(* gets to run; of those left behind nothing is assumed.  The operator     *)
(* does retry: another process can always be started, hence strong         *)
(* fairness.                                                               *)
(***************************************************************************)
Fairness ==
  /\ \A w \in Workers : WF_vars(WorkerStep(w)) /\ WF_vars(RunDropJob(w))
  /\ \A t \in Targets : SF_vars(Retry(t))

Spec == Init /\ [][Next]_vars
FairSpec == Spec /\ Fairness

-----------------------------------------------------------------------------
(* Properties.                                                             *)

\* A deletion the registry asks for ends, with the operator retrying.
EventuallyGone ==
  \A t \in Targets : row[t].desired = "GONE" ~> row[t] = NoRow
-----------------------------------------------------------------------------
(***************************************************************************)
(* The inductive invariant behind NoOrphans, DeleteStepTruthful and        *)
(* ImplementsOrder: what the workers know (Promises) and what the registry *)
(* says.                                                                   *)
(***************************************************************************)
IInv == TypeOK /\ PromisesKept
=============================================================================
