------------------------------ MODULE Promises ------------------------------
(***************************************************************************)
(* What the registry promises about the world, whoever works on it.        *)
(***************************************************************************)
EXTENDS Teardown

\* kubectl get ns never fails: the one condition under which the namespace is
\* part of what a deletion guarantees.
NsReliable == "get_ns" \notin Faults

OwnedByCP(t) == t \notin TofuTenants

\* A tenant without a registry row has nothing left that only the row knew of:
\* no database role, and of a control-plane tenant no IRSA role and no usable
\* secret.  Nobody would ever come back for it.
NoOrphans ==
  \A t \in Tenants : row[t] = NoRow =>
    /\ role[t] = "none"
    /\ OwnedByCP(t) => ~aws[t].irsa /\ aws[t].secret # "live"
    /\ NsReliable => ~k8s[t].ns

SecretSteps == {"secret_deleted"}
IamSteps == {"iam_deleted"} \cup SecretSteps
K8sSteps == {"k8s_deleted"} \cup IamSteps
RevokedSteps == {"db_revoked"} \cup K8sSteps

\* From db_revoked on, delete_step in the registry claims no more than is true,
\* whichever of several overlapping deletions wrote it last and whatever failed
\* since; of the namespace, if kubectl get ns is reliable.  (access_disabled
\* does: delete_tenant records it though both of its calls may have failed.)
DeleteStepTruthful ==
  \A t \in Tenants :
    /\ row[t].step \in RevokedSteps => role[t] = "none"
    /\ row[t].step \in K8sSteps /\ NsReliable => ~k8s[t].ns
    /\ row[t].step \in IamSteps => ~aws[t].irsa
    /\ row[t].step \in SecretSteps => aws[t].secret # "live"

-----------------------------------------------------------------------------
(***************************************************************************)
(* What carries these promises from step to step: what the program counter *)
(* of one deletion says of the world.  It must survive everybody else, so  *)
(* it only speaks of things that nobody brings back while it is true; and  *)
(* as long as a control-plane identity exists, the row and every worker on *)
(* the tenant know who owns it.                                            *)
(***************************************************************************)
AfterRevoke == {"mark_revoked", "uninstall", "get_ns", "delete_ns", "mark_k8s",
                "irsa", "mark_iam", "secret", "mark_secret", "purge"}
AfterK8s == {"mark_k8s", "irsa", "mark_iam", "secret", "mark_secret", "purge"}
OwnerOnly == {"irsa", "mark_iam", "secret", "mark_secret"}
AfterIrsa == {"mark_iam", "secret", "mark_secret", "purge"}
AfterSecret == {"mark_secret", "purge"}

\* What a worker at `pc` has released of tenant t, given the owner it has read.
Released(pc, owner, t) ==
  /\ pc \in AfterK8s /\ NsReliable => ~k8s[t].ns
  /\ pc \in OwnerOnly => owner = "control_plane"
  /\ pc \in AfterIrsa /\ owner = "control_plane" => ~aws[t].irsa
  /\ pc \in AfterSecret /\ owner = "control_plane" => aws[t].secret # "live"

FrameReleased(w) == Released(del[w].pc, del[w].owner, del[w].tenant)

\* The same, and the database role.
FrameKnows(w) ==
  /\ del[w].pc \in AfterRevoke => role[del[w].tenant] = "none"
  /\ FrameReleased(w)

JobKnows(w) ==
  /\ dropjob[w].st = "complete" => role[dropjob[w].tenant] = "none"
  /\ At(w, "revoking") => dropjob[w].st # "none" /\ dropjob[w].tenant = del[w].tenant

Busy(w) == del[w].pc \notin {"idle", "returned", "raised"}

HasIdentity(t) == aws[t].irsa \/ aws[t].secret = "live"

OwnerKnown ==
  \A t \in Tenants : OwnedByCP(t) /\ HasIdentity(t) =>
    /\ row[t].owner = "control_plane"
    /\ \A w \in Workers : Busy(w) /\ del[w].tenant = t => del[w].owner = "control_plane"

PromisesKept ==
  /\ \A w \in Workers : FrameKnows(w) /\ JobKnows(w)
  /\ OwnerKnown
  /\ NoOrphans
  /\ DeleteStepTruthful

-----------------------------------------------------------------------------
(***************************************************************************)
(* The abstract deletion order, as the world and the registry show it.     *)
(***************************************************************************)
Things == {"role", "ns", "irsa", "secret", "record"}

Holds ==
  [t \in Tenants |->
     {x \in Things : \/ x = "role" /\ role[t] # "none"
                     \/ x = "ns" /\ k8s[t].ns
                     \/ x = "irsa" /\ aws[t].irsa
                     \/ x = "secret" /\ aws[t].secret = "live"
                     \/ x = "record" /\ row[t] # NoRow}]

GoneFirst ==
  [t \in Tenants |-> [x \in Things |->
     CASE x = "role" -> {}
       [] x = "ns" -> {"role"}
       [] x = "irsa" -> {"role"} \cup (IF NsReliable THEN {"ns"} ELSE {})
       [] x = "secret" -> {"role", "irsa"} \cup (IF NsReliable THEN {"ns"} ELSE {})
       [] OTHER -> {"role"} \cup (IF NsReliable THEN {"ns"} ELSE {})
                   \cup (IF OwnedByCP(t) THEN {"irsa", "secret"} ELSE {})]]

Order == INSTANCE OrderedRelease WITH holds <- Holds, Before <- GoneFirst

\* Deleting follows the documented order for every tenant at once: the role
\* goes before the namespace, the namespace before the IRSA role, that before
\* the secret, all before the registry row; and nothing comes back.
ImplementsOrder == Order!Spec
=============================================================================
