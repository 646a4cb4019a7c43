------------------------------ MODULE Adoption ------------------------------
(***************************************************************************)
(* adopt_tenants of control-plane/adopt.py: the secrets and roles that are *)
(* found in AWS become identities the control plane owns, tenant by        *)
(* tenant.  What AWS said, and what the row said, may be old by the time   *)
(* the row is written.                                                     *)
(***************************************************************************)
EXTENDS World

VARIABLE adp   \* worker -> activation of adopt_tenants

AdpPC == {"idle", "outputs", "discover", "next", "secret", "role", "get", "upsert",
          "returned", "raised"}

\* `explicit` is FALSE when the ids come from discovery; `desired` and `status`
\* are what store.get returned.
AdpFrame == [pc : AdpPC, explicit : BOOLEAN, todo : SUBSET Tenants, tenant : Tenants,
             desired : DESIRED_STATUSES \cup {"none"}, status : STATUSES \cup {"none"}]

AdoptionTypeOK == adp \in [Workers -> AdpFrame]

IdleAdp == [pc |-> "idle", explicit |-> FALSE, todo |-> {}, tenant |-> Platform,
            desired |-> "none", status |-> "none"]

Adp(w, label) == adp[w].pc = label
AdpTo(w, label) == adp' = [adp EXCEPT ![w].pc = label]

\* adopt with ids, or without any.
StartAdoption(w, ids) ==
  /\ Adp(w, "idle")
  /\ adp' = [adp EXCEPT ![w] = [IdleAdp EXCEPT !.pc = "outputs", !.todo = ids,
                                               !.explicit = ids # {}]]

AdoptionOutputs(w) ==
  /\ Adp(w, "outputs")
  /\ \/ Succeeds /\ AdpTo(w, IF adp[w].explicit THEN "next" ELSE "discover")
     \/ Fails("tofu") /\ AdpTo(w, "raised")
  /\ UNCHANGED <<row, k8s, aws, role>>

\* list_secrets leaves out the secrets scheduled for deletion; finding none is
\* an OnboardError.
Discover(w) ==
  LET found == {t \in Tenants : aws[t].secret = "live"} IN
  /\ Adp(w, "discover")
  /\ \/ /\ found # {} /\ Succeeds
        /\ adp' = [adp EXCEPT ![w].pc = "next", ![w].todo = found]
     \/ found = {} /\ Succeeds /\ AdpTo(w, "raised")
     \/ Fails("aws") /\ AdpTo(w, "raised")
  /\ UNCHANGED <<row, k8s, aws, role>>

NextId(w) ==
  /\ Adp(w, "next")
  /\ \/ \E t \in adp[w].todo :
          adp' = [adp EXCEPT ![w].pc = "secret", ![w].tenant = t, ![w].todo = @ \ {t}]
     \/ adp[w].todo = {} /\ AdpTo(w, "returned")
  /\ UNCHANGED world

\* describe_secret answers for a secret scheduled for deletion too.
DescribeSecret(w) ==
  /\ Adp(w, "secret")
  /\ \/ Succeeds /\ AdpTo(w, IF aws[adp[w].tenant].secret = "absent" THEN "next" ELSE "role")
     \/ Fails("aws") /\ AdpTo(w, "raised")
  /\ UNCHANGED <<row, k8s, aws, role>>

\* get_role, and the tags, whose failure is only a warning.
GetRole(w) ==
  /\ Adp(w, "role")
  /\ \/ Succeeds /\ AdpTo(w, IF aws[adp[w].tenant].irsa THEN "get" ELSE "next")
     \/ Fails("aws") /\ AdpTo(w, "raised")
  /\ UNCHANGED <<row, k8s, aws, role>>

\* existing = store.get(tid) or {}
GetExisting(w) ==
  LET r == row[adp[w].tenant] IN
  /\ Adp(w, "get")
  /\ adp' = [adp EXCEPT ![w].pc = "upsert", ![w].desired = r.desired, ![w].status = r.status]
  /\ UNCHANGED world

\* upsert(desired_status=existing or ACTIVE, status=existing or ACTIVE,
\* owned_by="control_plane", ...)
Adopt(w) ==
  LET orActive(v) == IF v = "none" THEN "ACTIVE" ELSE v IN
  /\ Adp(w, "upsert")
  /\ row' = [row EXCEPT ![adp[w].tenant] =
               [Upsert(@, orActive(adp[w].desired), orActive(adp[w].status))
                  EXCEPT !.owner = "control_plane"]]
  /\ adp' = [adp EXCEPT ![w].pc = "next", ![w].tenant = Platform,
                        ![w].desired = "none", ![w].status = "none"]
  /\ UNCHANGED <<k8s, aws, role, faults>>

AdoptionStep(w) ==
  \/ AdoptionOutputs(w) \/ Discover(w) \/ NextId(w) \/ DescribeSecret(w)
  \/ GetRole(w) \/ GetExisting(w) \/ Adopt(w)
=============================================================================
