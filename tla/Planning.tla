------------------------------ MODULE Planning ------------------------------
(***************************************************************************)
(* What the reconciler decides, as operators without side effects: the     *)
(* predicates of observe.py, plan_action of reconcile.py and the contract  *)
(* gate of contract_check.py.                                              *)
(***************************************************************************)
EXTENDS Registry, Naturals

\* An Observed.  `ready` is deploy_ready; `rest` stands for service,
\* network_policy, resource_quota and irsa_sa, which come and go with the Helm
\* release and are only ever asked for together.
ObservedType == [namespace : BOOLEAN, ready : BOOLEAN, replicas : 0..1,
                 ingress : BOOLEAN, rest : BOOLEAN]

\* Observed(): what a missing namespace looks like, and an unreadable one.
NothingObserved == [namespace |-> FALSE, ready |-> FALSE, replicas |-> 0,
                    ingress |-> FALSE, rest |-> FALSE]

MatchesActive(o) ==
  o.namespace /\ o.ready /\ o.replicas >= 1 /\ o.ingress /\ o.rest

MatchesSuspended(o) == o.namespace /\ o.replicas = 0 /\ ~o.ingress

MatchesGone(o) == ~o.namespace

Plans == {"none", "purge_registry", "delete", "suspend", "provision", "resume", "repair"}

\* Mutant: a namespace without replicas is taken for a suspended tenant.
PlanActionResuming(desired, o, status) ==
  CASE desired = "GONE" -> IF MatchesGone(o) THEN "purge_registry" ELSE "delete"
    [] desired = "SUSPENDED" -> IF MatchesSuspended(o) THEN "none" ELSE "suspend"
    [] MatchesActive(o) -> "none"
    [] ~o.namespace -> "provision"
    [] status = "SUSPENDED" \/ o.replicas = 0 -> "resume"
    [] OTHER -> "repair"

PlanAction(desired, o, status) ==
  CASE desired = "GONE" -> IF MatchesGone(o) THEN "purge_registry" ELSE "delete"
    [] desired = "SUSPENDED" -> IF MatchesSuspended(o) THEN "none" ELSE "suspend"
    [] MatchesActive(o) -> "none"
    [] ~o.namespace -> "provision"
    [] status = "SUSPENDED" -> "resume"
    [] OTHER -> "repair"

\* validate_active_contract.  Its second part, a secret name and a role ARN for
\* an owner control_plane, holds of every row: `owner` stands for the three.
ContractOk(o) == MatchesActive(o)

\* The status reconcile_one records when it has nothing (more) to run.
StatusObserved(desired, o) ==
  IF desired = "SUSPENDED" THEN "SUSPENDED"
  ELSE IF ContractOk(o) THEN "ACTIVE" ELSE "DRIFT"
=============================================================================
