------------------------------ MODULE Registry ------------------------------
(***************************************************************************)
(* The tenant registry of control-plane/store.py, as operators on one row. *)
(*                                                                         *)
(* A row keeps the columns control flow depends on.  secret_name and       *)
(* irsa_role_arn are written by the same upsert as owned_by wherever       *)
(* owned_by is written, so `owner` stands for the three.  The free-text    *)
(* columns (endpoint, error, tier, observed_json, timestamps) steer        *)
(* nothing and are left out.  `version` is in RegistryStore only: no       *)
(* caller passes expected_version, so no operation depends on it.          *)
(***************************************************************************)

STATUSES == {"PROVISIONING", "ACTIVE", "SUSPENDED", "DELETING",
             "DELETE_FAILED", "FAILED", "DRIFT"}

DESIRED_STATUSES == {"ACTIVE", "SUSPENDED", "GONE"}

\* owned_by: whose AWS identity the tenant uses; "none" is a NULL column.
Owners == {"none", "control_plane", "opentofu"}

\* delete_step, in the order delete_tenant writes them; "none" is NULL.
DeleteSteps == {"none", "started", "access_disabled", "db_revoked",
                "k8s_deleted", "iam_deleted", "secret_deleted"}

RowType == [desired : DESIRED_STATUSES, status : STATUSES,
            owner : Owners, step : DeleteSteps]

\* What `store.get` returns for an id without a row.
NoRow == [desired |-> "none", status |-> "none", owner |-> "none", step |-> "none"]

(***************************************************************************)
(* The desired_status an INSERT infers when the caller omits it.           *)
(***************************************************************************)
InferredDesired(status) ==
  CASE status = "SUSPENDED" -> "SUSPENDED"
    [] status \in {"DELETING", "DELETE_FAILED"} -> "GONE"
    [] OTHER -> "ACTIVE"

\* Mutant: an INSERT does not infer what the caller omits.
StoredWithoutDefaults(r, status) == r

(***************************************************************************)
(* The row an upsert carrying `status` starts from: the stored row, or the *)
(* defaults of an INSERT when there is none.  The fields the caller passes *)
(* then overwrite it, in the same transaction.                             *)
(***************************************************************************)
Stored(r, status) ==
  IF r # NoRow
  THEN r
  ELSE [desired |-> InferredDesired(status), status |-> status,
        owner |-> "none", step |-> "none"]

\* upsert(id, desired_status=desired, status=status)
Upsert(r, desired, status) ==
  [Stored(r, status) EXCEPT !.desired = desired, !.status = status]

\* upsert(id, status=status)
UpsertStatus(r, status) == [Stored(r, status) EXCEPT !.status = status]

\* upsert(id, observed_json=...): an UPDATE touches nothing that steers, an
\* INSERT takes every default.
UpsertObserved(r) == Stored(r, "PROVISIONING")

(***************************************************************************)
(* upsert in general: `fields` has a value for every column, "unset" for   *)
(* those the caller does not pass.  A status is stored as given; an INSERT *)
(* without one is PROVISIONING.                                            *)
(***************************************************************************)
Given(value, default) == IF value = "unset" THEN default ELSE value

Written(r, fields) ==
  LET s == Stored(r, Given(fields.status, "PROVISIONING")) IN
  [desired |-> Given(fields.desired, s.desired), status |-> Given(fields.status, s.status),
   owner |-> Given(fields.owner, s.owner), step |-> Given(fields.step, s.step)]

\* Mutant: INSERT OR REPLACE, losing the columns the caller does not pass.
UpsertStepReplacing(r, status, step) ==
  [desired |-> InferredDesired(status), status |-> status, owner |-> "none", step |-> step]

\* upsert(id, status=status, delete_step=step)
UpsertStep(r, status, step) ==
  [Stored(r, status) EXCEPT !.status = status, !.step = step]
=============================================================================
