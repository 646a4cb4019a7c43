---------------------------- MODULE ControlPlane ----------------------------
(***************************************************************************)
(* The control plane as operators meet it: the Flask API (app.py) with its *)
(* request handlers, the _inflight set and one background thread per       *)
(* accepted job, and the command line (cli.py), whose processes share the  *)
(* registry but know nothing of _inflight.  All of them run the procedures *)
(* of Teardown, Onboarding, Suspension, Reconciler and Adoption.           *)
(***************************************************************************)
EXTENDS Reconciler, Adoption, Situations, Promises

CONSTANTS
  Handlers,   \* request threads of the Flask process
  Threads,    \* its background threads; enough for one job per target
  Shells,     \* processes of cli.py
  Targets,    \* the tenants operators work on
  Ops,        \* what they ask for
  Origins     \* the situations a target may be in at the start

\* "reconcile_all" and "adopt_all" are the commands without a tenant.
AllOps == {"create", "delete", "suspend", "resume", "reconcile", "reconcile_all",
           "adopt", "adopt_all"}

\* What the API answers from the request thread, and what it has no route for.
Synchronous == {"suspend", "reconcile", "reconcile_all"}
CliOnly == {"adopt", "adopt_all"}

ASSUME WorkersAssumption ==
  /\ Workers = Handlers \cup Threads \cup Shells
  /\ Handlers \cap Threads = {} /\ Handlers \cap Shells = {} /\ Threads \cap Shells = {}
ASSUME ScopeAssumption ==
  Targets \subseteq Tenants /\ Ops \subseteq AllOps /\ Origins \subseteq Situations

VARIABLES
  req,       \* handler -> the request it is answering
  job,       \* thread -> the job it runs
  inflight   \* _inflight: tenants with a job

apiVars == <<req, job, inflight>>
procVars == <<del, dropjob, stray, onb, mig, sus, rec, adp>>
cpVars == <<world, del, dropjob, stray, onb, mig, sus, rec, adp, req, job, inflight>>

ReqType == [pc : {"idle", "get", "insert", "check", "upsert", "start", "answer"},
            op : AllOps, tenant : Tenants]
JobFrame == [pc : {"idle", "spawned", "run", "get", "upsert", "finally"},
             op : AllOps, tenant : Tenants]

CPTypeOK ==
  /\ TypeOK /\ OnboardingTypeOK /\ SuspensionTypeOK /\ ReconcilerTypeOK /\ AdoptionTypeOK
  /\ req \in [Handlers -> ReqType]
  /\ job \in [Threads -> JobFrame]
  /\ inflight \subseteq Targets

NoReq == [pc |-> "idle", op |-> "create", tenant |-> Platform]
NoTask == [pc |-> "idle", op |-> "create", tenant |-> Platform]

CPInit ==
  /\ row \in [Tenants -> UNION {RowStarts(t) : t \in Tenants}]
  /\ k8s \in [Tenants -> {NoK8s, BareNs, FullK8s, IdleK8s}]
  /\ aws \in [Tenants -> {NoAws, FullAws, [NoAws EXCEPT !.secret = "live"]}]
  /\ role \in [Tenants -> {"none", "login"}]
  /\ \A t \in Tenants :
       IF t \in Targets THEN \E o \in Origins : StartsIn(t, o) ELSE Active(t)
  /\ faults = MaxFaults
  /\ del = [w \in Workers |-> NoFrame]
  /\ dropjob = [w \in Workers |-> NoJob]
  /\ stray = NoStrays
  /\ onb = [w \in Workers |-> IdleOnb]
  /\ mig = NoMig
  /\ sus = [w \in Workers |-> IdleSus]
  /\ rec = [w \in Workers |-> IdleRec]
  /\ adp = [w \in Workers |-> IdleAdp]
  /\ req = [h \in Handlers |-> NoReq]
  /\ job = [j \in Threads |-> NoTask]
  /\ inflight = {}

-----------------------------------------------------------------------------
(* A worker calls the procedure of an operation in its own thread of       *)
(* control, waits for its end, and forgets it.                             *)

Idle(w) ==
  /\ del[w].pc = "idle" /\ onb[w].pc = "idle" /\ sus[w].pc = "idle"
  /\ rec[w].pc = "idle" /\ adp[w].pc = "idle"

Call(w, t, op) ==
  \/ /\ op = "delete" /\ Begin(w, t)
     /\ UNCHANGED <<onb, mig, sus, rec, adp>>
  \/ /\ op \in {"create", "resume"}
     /\ StartOnboarding(w, t, IF op = "create" THEN "provision" ELSE "resume")
     /\ UNCHANGED <<world, del, dropjob, stray, mig, sus, rec, adp>>
  \/ /\ op = "suspend" /\ StartSuspension(w, t)
     /\ UNCHANGED <<world, del, dropjob, stray, onb, mig, rec, adp>>
  \/ /\ op \in {"reconcile", "reconcile_all"}
     /\ IF op = "reconcile" THEN StartReconcile(w, t) ELSE StartPass(w)
     /\ UNCHANGED <<world, del, dropjob, stray, onb, mig, sus, adp>>
  \/ /\ op \in {"adopt", "adopt_all"}
     /\ StartAdoption(w, IF op = "adopt" THEN {t} ELSE {})
     /\ UNCHANGED <<world, del, dropjob, stray, onb, mig, sus, rec>>

\* A procedure the reconciler has called ends for the reconciler.
Ended(w) ==
  LET ends == {"returned", "raised"} IN
  \/ rec[w].pc \in ends \/ adp[w].pc \in ends
  \/ rec[w].pc = "idle" /\ {del[w].pc, onb[w].pc, sus[w].pc} \cap ends # {}

\* The workers in W lose, or leave, what they were doing.
Leave(W) ==
  /\ del' = [w \in Workers |-> IF w \in W THEN NoFrame ELSE del[w]]
  /\ onb' = [w \in Workers |-> IF w \in W THEN IdleOnb ELSE onb[w]]
  /\ sus' = [w \in Workers |-> IF w \in W THEN IdleSus ELSE sus[w]]
  /\ rec' = [w \in Workers |-> IF w \in W THEN IdleRec ELSE rec[w]]
  /\ adp' = [w \in Workers |-> IF w \in W THEN IdleAdp ELSE adp[w]]

-----------------------------------------------------------------------------
(* Request handlers.                                                       *)

ReqAt(h, label) == req[h].pc = label
ReqTo(h, label) == req' = [req EXCEPT ![h].pc = label]
Answer(h) == req' = [req EXCEPT ![h] = NoReq]

Receive(h, t, op) ==
  /\ ReqAt(h, "idle") /\ op \notin CliOnly
  /\ req' = [req EXCEPT ![h] = [pc |-> "get", op |-> op, tenant |-> t]]
  /\ UNCHANGED <<world, procVars, job, inflight>>

\* create_tenant: `existing` decides; a tenant without a row, FAILED or in
\* DRIFT is provisioned.
GetForCreate(h) ==
  LET status == row[req[h].tenant].status IN
  /\ ReqAt(h, "get") /\ req[h].op = "create"
  /\ IF status \in {"ACTIVE", "PROVISIONING", "DELETING", "DELETE_FAILED", "SUSPENDED"}
     THEN Answer(h) ELSE ReqTo(h, "upsert")
  /\ UNCHANGED <<world, procVars, job, inflight>>

\* upsert(desired_status="ACTIVE", status="PROVISIONING")
UpsertForCreate(h) ==
  /\ ReqAt(h, "upsert") /\ req[h].op = "create"
  /\ row' = [row EXCEPT ![req[h].tenant] = Upsert(@, "ACTIVE", "PROVISIONING")]
  /\ ReqTo(h, "start")
  /\ UNCHANGED <<k8s, aws, role, faults, procVars, job, inflight>>

\* resume: only from SUSPENDED; nothing is written.
GetForResume(h) ==
  /\ ReqAt(h, "get") /\ req[h].op = "resume"
  /\ IF row[req[h].tenant].status = "SUSPENDED" THEN ReqTo(h, "start") ELSE Answer(h)
  /\ UNCHANGED <<world, procVars, job, inflight>>

\* remove: a missing row is inserted; one in DELETING is first looked up in
\* _inflight.
GetForDelete(h) ==
  LET r == row[req[h].tenant] IN
  /\ ReqAt(h, "get") /\ req[h].op = "delete"
  /\ ReqTo(h, IF r = NoRow THEN "insert" ELSE
              IF r.status = "DELETING" THEN "check" ELSE "upsert")
  /\ UNCHANGED <<world, procVars, job, inflight>>

MarkDeleting(h, label, next) ==
  /\ ReqAt(h, label) /\ req[h].op = "delete"
  /\ row' = [row EXCEPT ![req[h].tenant] = Upsert(@, "GONE", "DELETING")]
  /\ ReqTo(h, next)
  /\ UNCHANGED <<k8s, aws, role, faults, procVars, job, inflight>>

InsertForDelete(h) == MarkDeleting(h, "insert", "upsert")
UpsertForDelete(h) == MarkDeleting(h, "upsert", "start")

CheckInflight(h) ==
  /\ ReqAt(h, "check")
  /\ IF req[h].tenant \in inflight THEN Answer(h) ELSE ReqTo(h, "upsert")
  /\ UNCHANGED <<world, procVars, job, inflight>>

\* Mutant: _inflight is not consulted.
StartJobUnchecked(h) ==
  LET t == req[h].tenant IN
  /\ ReqAt(h, "start")
  /\ inflight' = inflight \cup {t}
  /\ \E j \in Threads :
       /\ job[j].pc = "idle"
       /\ job' = [job EXCEPT ![j] = [pc |-> "spawned", op |-> req[h].op, tenant |-> t]]
  /\ Answer(h)
  /\ UNCHANGED <<world, procVars>>

\* _start_job: under _provision_lock; answers without a job when the tenant
\* already has one.
StartJob(h) ==
  LET t == req[h].tenant IN
  /\ ReqAt(h, "start")
  /\ IF t \in inflight
     THEN UNCHANGED <<job, inflight>>
     ELSE /\ inflight' = inflight \cup {t}
          /\ \E j \in Threads :
               /\ job[j].pc = "idle"
               /\ job' = [job EXCEPT ![j] = [pc |-> "spawned", op |-> req[h].op, tenant |-> t]]
  /\ Answer(h)
  /\ UNCHANGED <<world, procVars>>

\* suspend, reconcile_tenant and reconcile run in the request thread, outside
\* _inflight.
CallInRequest(h) ==
  /\ ReqAt(h, "get") /\ req[h].op \in Synchronous
  /\ Call(h, req[h].tenant, req[h].op)
  /\ ReqTo(h, "answer")
  /\ UNCHANGED <<job, inflight>>

AnswerRequest(h) ==
  /\ ReqAt(h, "answer") /\ Ended(h)
  /\ Leave({h})
  /\ Answer(h)
  /\ UNCHANGED <<world, dropjob, stray, mig, job, inflight>>

HandlerStep(h) ==
  \/ GetForCreate(h) \/ UpsertForCreate(h) \/ GetForResume(h)
  \/ GetForDelete(h) \/ InsertForDelete(h) \/ UpsertForDelete(h) \/ CheckInflight(h)
  \/ StartJob(h) \/ CallInRequest(h) \/ AnswerRequest(h)

-----------------------------------------------------------------------------
(* Background threads: _run of _start_job around the handler's _fn.        *)

JobAt(j, label) == job[j].pc = label
JobTo(j, label) == job' = [job EXCEPT ![j].pc = label]

RunJob(j) ==
  /\ JobAt(j, "spawned")
  /\ Call(j, job[j].tenant, job[j].op)
  /\ JobTo(j, "run")
  /\ UNCHANGED <<req, inflight>>

\* _fn ends.  remove's _fn catches everything, resume's only ControlPlaneError;
\* anything else ends the thread through the finally clause.
DeleteEnds(j) ==
  /\ JobAt(j, "run") /\ del[j].pc \in {"returned", "raised"}
  /\ JobTo(j, IF del[j].pc = "raised" THEN "get" ELSE "finally")
  /\ Leave({j})
  /\ UNCHANGED <<world, dropjob, stray, mig, req, inflight>>

\* Mutant: no finally; an exception _fn does not catch ends the thread.
OnboardingEndsAbruptly(j) ==
  /\ JobAt(j, "run") /\ onb[j].pc \in {"returned", "raised"}
  /\ IF onb[j].pc = "returned" THEN JobTo(j, "finally") ELSE job' = [job EXCEPT ![j] = NoTask]
  /\ Leave({j})
  /\ UNCHANGED <<world, dropjob, stray, mig, req, inflight>>

OnboardingEnds(j) ==
  /\ JobAt(j, "run") /\ onb[j].pc \in {"returned", "raised"}
  /\ JobTo(j, IF /\ onb[j].kind = "resume" /\ onb[j].pc = "raised"
                 /\ onb[j].exc \in {"retryable", "permanent"}
              THEN "upsert" ELSE "finally")
  /\ Leave({j})
  /\ UNCHANGED <<world, dropjob, stray, mig, req, inflight>>

\* if store.get(tenant_id): ...
CheckRow(j) ==
  /\ JobAt(j, "get")
  /\ JobTo(j, IF row[job[j].tenant] # NoRow THEN "upsert" ELSE "finally")
  /\ UNCHANGED <<world, procVars, req, inflight>>

\* upsert(status="DELETE_FAILED", desired_status="GONE"), or
\* upsert(status="FAILED", desired_status="ACTIVE")
RecordJobFailure(j) ==
  /\ JobAt(j, "upsert")
  /\ row' = [row EXCEPT ![job[j].tenant] =
               IF job[j].op = "delete" THEN Upsert(@, "GONE", "DELETE_FAILED")
                                       ELSE Upsert(@, "ACTIVE", "FAILED")]
  /\ JobTo(j, "finally")
  /\ UNCHANGED <<k8s, aws, role, faults, procVars, req, inflight>>

Discard(j) ==
  /\ JobAt(j, "finally")
  /\ inflight' = inflight \ {job[j].tenant}
  /\ job' = [job EXCEPT ![j] = NoTask]
  /\ UNCHANGED <<world, procVars, req>>

ThreadStep(j) ==
  RunJob(j) \/ DeleteEnds(j) \/ OnboardingEnds(j) \/ CheckRow(j) \/ RecordJobFailure(j) \/ Discard(j)

-----------------------------------------------------------------------------
(* The command line.                                                       *)

Command(s, t, op) ==
  /\ Idle(s)
  /\ Call(s, t, op)
  /\ UNCHANGED apiVars

Exit(s) ==
  /\ Ended(s)
  /\ Leave({s})
  /\ UNCHANGED <<world, dropjob, stray, mig, apiVars>>

-----------------------------------------------------------------------------
(* What every worker does, and what runs without one.                      *)

Procedure(w) ==
  \/ DeleteStep(w) /\ UNCHANGED <<onb, mig, sus, rec, adp, apiVars>>
  \/ OnboardingStep(w) /\ UNCHANGED <<del, dropjob, stray, sus, rec, adp, apiVars>>
  \/ SuspensionStep(w) /\ UNCHANGED <<del, dropjob, stray, onb, mig, rec, adp, apiVars>>
  \/ ReconcileStep(w) /\ UNCHANGED <<adp, apiVars>>
  \/ AdoptionStep(w) /\ UNCHANGED <<del, dropjob, stray, onb, mig, sus, rec, apiVars>>

DropPod(w) == RunDropJob(w) /\ UNCHANGED <<onb, mig, sus, rec, adp, apiVars>>
StrayPod(t) == RunStrayPod(t) /\ UNCHANGED <<onb, mig, sus, rec, adp, apiVars>>
MigratePod == MigrateStep /\ UNCHANGED <<del, dropjob, stray, sus, rec, adp, apiVars>>

\* Somebody scales the Deployment down, deletes the Ingress or the namespace.
DriftByHand ==
  /\ Fails("drift")
  /\ \E t \in Targets :
       /\ k8s[t].release
       /\ \/ /\ k8s' \in {[k8s EXCEPT ![t] = ScaledTo(@, 0)],
                         [k8s EXCEPT ![t] = WithoutIngress(@)]}
             /\ UNCHANGED <<dropjob, stray>>
          \/ RemoveNs(t)
  /\ UNCHANGED <<row, aws, role, del, onb, mig, sus, rec, adp, apiVars>>

\* The Flask process dies and is started again: handlers, threads and
\* _inflight are lost.  Its start only lists (discover_active).
Restart ==
  LET server == Handlers \cup Threads IN
  /\ Fails("crash")
  /\ \E w \in server : ~Idle(w) \/ inflight # {} \/ \E h \in Handlers : ~ReqAt(h, "idle")
  /\ Leave(server)
  /\ req' = [h \in Handlers |-> NoReq]
  /\ job' = [j \in Threads |-> NoTask]
  /\ inflight' = {}
  /\ UNCHANGED <<row, k8s, aws, role, dropjob, stray, mig>>

Interrupt(s) ==
  /\ ~Idle(s)
  /\ Fails("crash")
  /\ Leave({s})
  /\ UNCHANGED <<row, k8s, aws, role, dropjob, stray, mig, apiVars>>

CPNext ==
  \/ \E h \in Handlers, t \in Targets, op \in Ops : Receive(h, t, op)
  \/ \E h \in Handlers : HandlerStep(h)
  \/ \E j \in Threads : ThreadStep(j)
  \/ \E s \in Shells, t \in Targets, op \in Ops : Command(s, t, op)
  \/ \E s \in Shells : Exit(s) \/ Interrupt(s)
  \/ \E w \in Workers : Procedure(w) \/ DropPod(w)
  \/ \E t \in Tenants : StrayPod(t)
  \/ MigratePod
  \/ DriftByHand
  \/ Restart

CPSpec == CPInit /\ [][CPNext]_cpVars

(***************************************************************************)
(* Threads and processes that have something to do go on, and so do the    *)
(* pods somebody may wait for; nobody has to send requests or commands.    *)
(***************************************************************************)
CPFairness ==
  /\ \A h \in Handlers : WF_cpVars(HandlerStep(h))
  /\ \A j \in Threads : WF_cpVars(ThreadStep(j))
  /\ \A w \in Workers : WF_cpVars(Procedure(w)) /\ WF_cpVars(DropPod(w))
  /\ \A s \in Shells : WF_cpVars(Exit(s))
  /\ WF_cpVars(MigratePod)

CPFairSpec == CPSpec /\ CPFairness

(***************************************************************************)
(* Somebody, or a timer, runs cli.py reconcile over and over, for every    *)
(* tenant or for all: whenever a shell is free again and again, it does.   *)
(***************************************************************************)
Reconciled(t) ==
  \E s \in Shells : Command(s, t, "reconcile") \/ Command(s, t, "reconcile_all")

ReconciledSpec == CPFairSpec /\ \A t \in Targets : SF_cpVars(Reconciled(t))

-----------------------------------------------------------------------------
(* Properties.                                                             *)

Busied(j) == job[j].pc # "idle"

\* _inflight and the background threads agree, and no tenant has two jobs,
\* whatever requests overlap and however a job ends.
JobsSerialised ==
  /\ inflight = {job[j].tenant : j \in {i \in Threads : Busied(i)}}
  /\ \A i, j \in Threads : Busied(i) /\ Busied(j) /\ i # j => job[i].tenant # job[j].tenant

\* A tenant never stays in _inflight: every job ends, through an answer, an
\* error that is recorded or one that kills its thread.
InflightDrains == \A t \in Targets : t \in inflight ~> t \notin inflight

\* When a registry row that names the control plane as owner of an identity
\* disappears, the identity and the namespace are gone.
OwnedReleased ==
  [][\A t \in Tenants :
       row[t].owner = "control_plane" /\ row'[t] = NoRow =>
         ~aws[t].irsa /\ aws[t].secret # "live" /\ ~k8s[t].ns]_cpVars

\* Somebody is at work on the tenant.
Working(t) ==
  \/ t \in inflight
  \/ \E h \in Handlers : ~ReqAt(h, "idle") /\ req[h].tenant = t
  \/ \E w \in Workers : \/ del[w].pc # "idle" /\ del[w].tenant = t
                        \/ onb[w].pc # "idle" /\ t \in {onb[w].tenant, onb[w].site}
                        \/ sus[w].pc # "idle" /\ sus[w].tenant = t
                        \/ rec[w].pc # "idle" /\ rec[w].tenant = t
                        \/ adp[w].pc # "idle" /\ adp[w].tenant = t

Edge(t) == k8s[t].release /\ k8s[t].replicas = 1 /\ k8s[t].ingress

\* reconcile.py on ACTIVE: the infrastructure is ready and the identity there;
\* and somebody created the database role, which no pod of an earlier deletion
\* has dropped since.
ActiveIsReady ==
  \A t \in Targets : row[t].status = "ACTIVE" /\ ~Working(t) =>
    Edge(t) /\ aws[t] = FullAws /\ role[t] # "none"

\* TENANT_CONTROL_PLANE.md: "The reconciler makes actual match desired after
\* crashes, timeouts, and partial provision", whatever commands, failures and
\* changes by hand came before, for as long as the desired status is ACTIVE: the
\* row is ACTIVE, and the workload and its Ingress are up ...
ActiveConverges ==
  \A t \in Targets :
    row[t].desired = "ACTIVE" ~>
      row[t].desired # "ACTIVE" \/ (row[t].status = "ACTIVE" /\ Edge(t))

\* ... or GONE ...
GoneConverges ==
  \A t \in Targets : row[t].desired = "GONE" ~> row[t].desired # "GONE"

\* ... or SUSPENDED.
SuspendedConverges ==
  \A t \in Targets :
    row[t].desired = "SUSPENDED" ~>
      row[t].desired # "SUSPENDED" \/ (k8s[t].replicas = 0 /\ ~k8s[t].ingress)

\* The contract on DELETE: "desired stays GONE" until the row is removed.
GoneStays ==
  [][\A t \in Tenants :
       row[t].desired = "GONE" => row'[t].desired = "GONE" \/ row'[t] = NoRow]_cpVars

\* reconcile.py: "Commands set desired_status.  The reconciler makes actual match
\* desired": what it writes itself never changes what is desired, and never
\* makes a tenant wanted that has just been removed.
ReconcilerWrites(w) == rec[w].pc \in {"record", "settle", "except", "absorb"}

DesiredByCommand ==
  [][\A w \in Workers : ReconcilerWrites(w) /\ rec'[w] # rec[w] =>
       \A t \in Tenants : row'[t].desired = row[t].desired]_cpVars

\* README on the deletion order: "delete does not leave orphaned database
\* access".
NoOrphanedAccess ==
  \A t \in Tenants : row[t] = NoRow => role[t] # "login"
=============================================================================
