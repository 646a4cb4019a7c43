----------------------------- MODULE Situations -----------------------------
(***************************************************************************)
(* The situations an operation can find a tenant in, as the operations     *)
(* before it left them.                                                    *)
(***************************************************************************)
EXTENDS World

Situations == {"absent", "active", "suspended", "failed", "unrecorded"}

Owner(t) == IF t \in TofuTenants THEN "opentofu" ELSE "control_plane"

FullK8s == [ns |-> TRUE, release |-> TRUE, replicas |-> 1, ingress |-> TRUE]
\* A namespace with nothing in it, and one whose workload is suspended.
BareNs == [ns |-> TRUE, release |-> FALSE, replicas |-> 0, ingress |-> FALSE]
IdleK8s == [ns |-> TRUE, release |-> TRUE, replicas |-> 0, ingress |-> FALSE]

FullAws == [secret |-> "live", irsa |-> TRUE]

Registered(t, desired, status) ==
  [desired |-> desired, status |-> status, owner |-> Owner(t), step |-> "none"]

Absent(t) ==
  row[t] = NoRow /\ k8s[t] = NoK8s /\ aws[t] = NoAws /\ role[t] = "none"

Active(t) ==
  /\ row[t] = Registered(t, "ACTIVE", "ACTIVE")
  /\ k8s[t] = FullK8s /\ aws[t] = FullAws /\ role[t] = "login"

Suspended(t) ==
  /\ row[t] = Registered(t, "SUSPENDED", "SUSPENDED")
  /\ k8s[t] = IdleK8s
  /\ aws[t] = FullAws /\ role[t] = "login"

\* A provision that failed after it recorded the identity: the migrate Job
\* may have created the role, Helm may have installed the release.
Failed(t) ==
  /\ row[t] = Registered(t, "ACTIVE", "FAILED")
  /\ k8s[t] \in {NoK8s, BareNs, FullK8s}
  /\ aws[t] = FullAws /\ role[t] \in {"none", "login"}

\* A provision that failed inside ensure_tenant_identity: the secret exists
\* and the row does not say who owns it.
Unrecorded(t) ==
  /\ row[t] = [Registered(t, "ACTIVE", "FAILED") EXCEPT !.owner = "none"]
  /\ k8s[t] = NoK8s
  /\ aws[t] \in {[NoAws EXCEPT !.secret = "live"], FullAws}
  /\ role[t] = "none"

StartsIn(t, situation) ==
  \/ situation = "absent" /\ Absent(t)
  \/ situation = "active" /\ Active(t)
  \/ situation = "suspended" /\ Suspended(t)
  \/ situation = "failed" /\ Failed(t)
  \/ situation = "unrecorded" /\ Unrecorded(t)

RowStarts(t) == {NoRow, Registered(t, "ACTIVE", "ACTIVE"),
                 Registered(t, "SUSPENDED", "SUSPENDED"),
                 Registered(t, "ACTIVE", "FAILED"),
                 [Registered(t, "ACTIVE", "FAILED") EXCEPT !.owner = "none"]}
=============================================================================
