--------------------------- MODULE OwnershipProofs ---------------------------
(***************************************************************************)
(* While requests are all there is, and none of them reconciles: who runs  *)
(* what, and that a row which names the control plane as owner only goes   *)
(* once nothing of the tenant is left to own.  For every set of tenants,   *)
(* handlers and threads, with any failures, restarts and changes by hand.  *)
(***************************************************************************)
EXTENDS ControlPlaneTypes

-----------------------------------------------------------------------------
(* Who runs what.                                                          *)

\* What a step of provision or resume_tenant does to the activations.
LEMMA OnbKeepsFrame ==
  ASSUME onb \in [Workers -> OnbFrame], NEW w \in Workers, OnboardingStep(w)
  PROVE  /\ onb[w].pc \notin {"idle", "returned", "raised"} /\ onb'[w].pc # "idle"
         /\ onb'[w].tenant = onb[w].tenant /\ onb'[w].kind = onb[w].kind
         /\ onb'[w].site \in {onb[w].site, Platform, onb[w].tenant}
         /\ \A v \in Workers \ {w} : onb'[v] = onb[v]
<1>. DEFINE Good == /\ onb'[w].pc # "idle"
                    /\ onb'[w].tenant = onb[w].tenant /\ onb'[w].kind = onb[w].kind
                    /\ onb'[w].site \in {onb[w].site, Platform, onb[w].tenant}
                    /\ \A v \in Workers \ {w} : onb'[v] = onb[v]
<1>1. onb[w] \in OnbFrame
  OBVIOUS
<1>2. ASSUME NEW label, label # "idle", OnbTo(w, label)  PROVE Good
  BY <1>1, <1>2 DEF OnbTo, OnbFrame
<1>3. ASSUME NEW kind, OnbRaise(w, kind)  PROVE Good
  BY <1>1, <1>3 DEF OnbRaise, OnbFrame
<1>4. IdentityFails(w) => Good
  BY <1>2, <1>3 DEF IdentityFails
<1>5. CASE Snapshot(w)
  <2>1. ASSUME NEW m, NEW s \in {Platform, onb[w].tenant},
               onb' = [onb EXCEPT ![w].pc = "ns", ![w].map = m, ![w].site = s]
        PROVE  Good
    BY <1>1, <2>1 DEF OnbFrame
  <2>2. Good
    BY <1>3, <1>5, <2>1 DEF Snapshot
  <2>. QED  BY <1>5, <2>2 DEF Snapshot, Onb
<1>6. CASE WaitMigrate(w)
  <2>1. ASSUME NEW label, label # "idle",
               onb' = [onb EXCEPT ![w].pc = label, ![w].site = onb[w].tenant]
        PROVE  Good
    BY <1>1, <2>1 DEF OnbFrame
  <2>2. Good
    BY <1>3, <1>6, <2>1 DEF WaitMigrate
  <2>. QED  BY <1>6, <2>2 DEF WaitMigrate, Onb
<1>7. CASE ProvisionFailed(w)
  <2>1. Good
    BY <1>1, <1>7 DEF ProvisionFailed, OnbFrame
  <2>. QED  BY <1>7, <2>1 DEF ProvisionFailed, Onb
<1>8. CASE MarkProvisioning(w) \/ ReadOutputs(w) \/ RecordIdentity(w) \/ ApplyNs(w)
           \/ ClearMigrate(w)
  <2>1. Good
    BY <1>2, <1>3, <1>8 DEF MarkProvisioning, ReadOutputs, RecordIdentity, ApplyNs, ClearMigrate
  <2>. QED
    BY <1>8, <2>1 DEF MarkProvisioning, ReadOutputs, RecordIdentity, ApplyNs, ClearMigrate, Onb
<1>9. CASE HelmUpgrade(w) \/ ScaleUp(w) \/ WaitIngress(w) \/ Activate(w) \/ GetSuspended(w)
  <2>1. Good
    BY <1>2, <1>3, <1>9 DEF HelmUpgrade, ScaleUp, WaitIngress, Activate, GetSuspended
  <2>. QED  BY <1>9, <2>1 DEF HelmUpgrade, ScaleUp, WaitIngress, Activate, GetSuspended, Onb
<1>10. CASE EnsureSecret(w) \/ EnsureIrsa(w)
  <2>1. Good
    BY <1>2, <1>4, <1>10 DEF EnsureSecret, EnsureIrsa
  <2>. QED  BY <1>10, <2>1 DEF EnsureSecret, EnsureIrsa, Onb
<1>. QED  BY <1>5, <1>6, <1>7, <1>8, <1>9, <1>10 DEF OnboardingStep

\* What there is of CPNext without a command line.
LEMMA RequestSteps ==
  ASSUME Shells = {}, JobFrames, [CPNext]_cpVars
  PROVE  \/ UNCHANGED cpVars
         \/ \E h \in Handlers, t \in Targets, op \in Ops : Receive(h, t, op)
         \/ \E h \in Handlers : HandlerStep(h)
         \/ \E j \in Threads : ThreadStep(j)
         \/ \E w \in Workers : /\ DeleteStep(w) \/ RunDropJob(w)
                               /\ UNCHANGED <<onb, mig, sus, rec, adp, apiVars>>
         \/ \E w \in Workers : /\ OnboardingStep(w)
                               /\ UNCHANGED <<del, dropjob, stray, sus, rec, adp, apiVars>>
         \/ \E w \in Workers : /\ SuspensionStep(w)
                               /\ UNCHANGED <<del, dropjob, stray, onb, mig, rec, adp, apiVars>>
         \/ \E t \in Tenants : StrayPod(t)
         \/ MigratePod
         \/ DriftByHand
         \/ Restart
<1>1. ASSUME NEW w \in Workers  PROVE ~ReconcileStep(w) /\ ~AdoptionStep(w)
  <2>1. rec[w].pc = "idle" /\ adp[w].pc = "idle"
    BY DEF JobFrames
  <2>2. ~ReconcileStep(w)
    BY <2>1 DEF ReconcileStep, ListRows, NextTenant, Absorb, GetDesired, ObserveNs, ObserveDeploy,
                ObserveEdge, RecordObserved, Settle, PurgeRow, CallProcedure, ProcedureReturns,
                ProcedureRaises, RecordProcedureFailure, Rec
  <2>3. ~AdoptionStep(w)
    BY <2>1 DEF AdoptionStep, AdoptionOutputs, Discover, NextId, DescribeSecret, GetRole,
                GetExisting, Adopt, Adp
  <2>. QED  BY <2>2, <2>3
<1>. QED  BY <1>1 DEF CPNext, Procedure, DropPod

\* Only create, delete and resume ever start a job.
LEMMA NextJobOps ==
  ASSUME req \in [Handlers -> ReqType], job \in [Threads -> JobFrame], JobOps, [CPNext]_cpVars
  PROVE  JobOps'
<1>1. ASSUME NEW h \in Handlers,
             \/ req'[h] = req[h] \/ req'[h].pc = "idle"
             \/ /\ req'[h].op = req[h].op /\ ~ReqAt(h, "idle")
                /\ req'[h].pc = "start" => req[h].op \in JobKinds
      PROVE  /\ ReqAt(h, "idle")' \/ req'[h].op \in Ops
             /\ ReqAt(h, "start")' => req'[h].op \in JobKinds
  BY <1>1 DEF JobOps, ReqAt
<1>2. ASSUME NEW j \in Threads, ~Busied(j)' \/ (Busied(j) /\ job'[j].op = job[j].op)
                                \/ job'[j].op \in JobKinds
      PROVE  Busied(j)' => job'[j].op \in JobKinds
  BY <1>2 DEF JobOps
<1>3. CASE UNCHANGED apiVars
  BY <1>1, <1>2, <1>3 DEF apiVars, JobOps, Busied, ReqAt
<1>4. ASSUME NEW h \in Handlers, NEW t \in Targets, NEW op \in Ops, Receive(h, t, op)
      PROVE  JobOps'
  <2>1. job' = job /\ \A g \in Handlers \ {h} : req'[g] = req[g]
    BY <1>4 DEF Receive
  <2>2. req'[h].op = op /\ req'[h].pc = "get"
    BY <1>4 DEF Receive
  <2>. QED  BY <1>1, <2>1, <2>2 DEF JobOps, ReqAt, Busied
<1>5. ASSUME NEW h \in Handlers, HandlerStep(h)  PROVE JobOps'
  <2>1. ASSUME Answer(h)  PROVE req'[h].pc = "idle" /\ \A g \in Handlers \ {h} : req'[g] = req[g]
    BY <2>1 DEF Answer, NoReq
  <2>2. ASSUME NEW label, ReqTo(h, label)
        PROVE  /\ req'[h].op = req[h].op /\ req'[h].pc = label
               /\ \A g \in Handlers \ {h} : req'[g] = req[g]
    BY <2>2 DEF ReqTo, ReqType
  <2>3. CASE StartJob(h)
    <3>1. \A j \in Threads : job'[j] = job[j] \/ job'[j].op = req[h].op
      BY <2>3 DEF StartJob
    <3>2. req[h].op \in JobKinds
      BY <2>3 DEF StartJob, JobOps
    <3>. QED  BY <1>1, <1>2, <2>1, <2>3, <3>1, <3>2 DEF StartJob, JobOps, Busied, ReqAt
  <2>4. CASE UpsertForCreate(h) \/ GetForResume(h) \/ UpsertForDelete(h)
    <3>1. req[h].op \in JobKinds /\ ~ReqAt(h, "idle") /\ job' = job
      BY <2>4 DEF UpsertForCreate, GetForResume, UpsertForDelete, MarkDeleting, JobKinds, ReqAt
    <3>2. Answer(h) \/ ReqTo(h, "start")
      BY <2>4 DEF UpsertForCreate, GetForResume, UpsertForDelete, MarkDeleting
    <3>. QED  BY <1>1, <2>1, <2>2, <3>1, <3>2 DEF JobOps, Busied, ReqAt
  <2>5. CASE GetForCreate(h) \/ GetForDelete(h) \/ InsertForDelete(h) \/ CheckInflight(h)
             \/ CallInRequest(h) \/ AnswerRequest(h)
    <3>1. ~ReqAt(h, "idle") /\ job' = job
      BY <2>5 DEF GetForCreate, GetForDelete, InsertForDelete, CheckInflight, CallInRequest,
                  AnswerRequest, MarkDeleting, ReqAt
    <3>2. Answer(h) \/ \E label \in {"upsert", "insert", "check", "answer"} : ReqTo(h, label)
      BY <2>5 DEF GetForCreate, GetForDelete, InsertForDelete, CheckInflight, CallInRequest,
                  AnswerRequest, MarkDeleting
    <3>. QED  BY <1>1, <2>1, <2>2, <3>1, <3>2 DEF JobOps, Busied, ReqAt
  <2>. QED  BY <1>5, <2>3, <2>4, <2>5 DEF HandlerStep
<1>6. ASSUME NEW j \in Threads, ThreadStep(j)  PROVE JobOps'
  <2>1. req' = req /\ \A i \in Threads \ {j} : job'[i] = job[i]
    BY <1>6 DEF ThreadStep, RunJob, DeleteEnds, OnboardingEnds, CheckRow, RecordJobFailure, Discard,
                JobTo
  <2>2. Busied(j)
    BY <1>6 DEF ThreadStep, RunJob, DeleteEnds, OnboardingEnds, CheckRow, RecordJobFailure, Discard,
                JobAt, Busied
  <2>3. ASSUME NEW label, JobTo(j, label)  PROVE job'[j].op = job[j].op
    BY <2>3 DEF JobTo, JobFrame
  <2>4. job'[j].op = job[j].op \/ job'[j].pc = "idle"
    BY <1>6, <2>3
       DEF ThreadStep, RunJob, DeleteEnds, OnboardingEnds, CheckRow, RecordJobFailure, Discard, NoTask
  <2>. QED  BY <2>1, <2>2, <2>4 DEF JobOps, Busied, ReqAt
<1>7. CASE Restart
  BY <1>1, <1>2, <1>7 DEF Restart, NoReq, NoTask, JobOps, Busied, ReqAt
<1>. QED
  BY <1>3, <1>4, <1>5, <1>6, <1>7 DEF CPNext, cpVars, apiVars, Command, Exit, Interrupt, Procedure,
                                      DropPod, StrayPod, MigratePod, DriftByHand

\* What JobFrames says of one worker.
JobFrame1(w) ==
  /\ rec[w].pc = "idle" /\ adp[w].pc = "idle"
  /\ del[w].pc # "idle" => /\ w \in Threads /\ JobAt(w, "run") /\ job[w].op = "delete"
                           /\ del[w].tenant = job[w].tenant
  /\ onb[w].pc # "idle" => /\ w \in Threads /\ JobAt(w, "run")
                           /\ job[w].op \in {"create", "resume"}
                           /\ onb[w].tenant = job[w].tenant
  /\ onb[w].site \in {Platform, onb[w].tenant}

LEMMA FramesApart == JobFrames <=> \A w \in Workers : JobFrame1(w)
BY DEF JobFrames, JobFrame1

\* A request or a job only starts what its operation is.
LEMMA CallFrames ==
  ASSUME WorkTypeOK, NEW w \in Workers, NEW t \in Tenants,
         NEW op \in JobKinds \cup {"suspend"}, Call(w, t, op)
  PROVE  /\ rec' = rec /\ adp' = adp
         /\ \A v \in Workers \ {w} : del'[v] = del[v] /\ onb'[v] = onb[v]
         /\ \/ del'[w] = del[w]
            \/ op = "delete" /\ del'[w].tenant = t
         /\ \/ onb'[w] = onb[w]
            \/ /\ op \in {"create", "resume"} /\ onb'[w].tenant = t
               /\ onb'[w].site = Platform
<1>1. del \in [Workers -> FrameType] /\ onb \in [Workers -> OnbFrame]
  BY DEF WorkTypeOK, TypeOK, OnboardingTypeOK
<1>2. CASE Begin(w, t) /\ op = "delete" /\ UNCHANGED <<onb, mig, sus, rec, adp>>
  <2>1. /\ \A v \in Workers \ {w} : del'[v] = del[v]
        /\ del'[w].tenant = t
    BY <1>1, <1>2 DEF Begin
  <2>. QED  BY <1>2, <2>1
<1>3. CASE /\ \E kind \in OnbKinds : StartOnboarding(w, t, kind)
           /\ op \in {"create", "resume"}
           /\ UNCHANGED <<world, del, dropjob, stray, mig, sus, rec, adp>>
  <2>1. /\ \A v \in Workers \ {w} : onb'[v] = onb[v]
        /\ onb'[w].tenant = t /\ onb'[w].site = Platform
    BY <1>1, <1>3 DEF StartOnboarding
  <2>. QED  BY <1>3, <2>1
<1>4. CASE StartSuspension(w, t) /\ UNCHANGED <<world, del, dropjob, stray, onb, mig, rec, adp>>
  BY <1>4
<1>. QED  BY <1>2, <1>3, <1>4 DEF Call, JobKinds, OnbKinds

\* Activations begin and end with the job they belong to.
LEMMA NextJobFrames ==
  ASSUME RequestsOnly, TypeInv, JobOps, JobFrames, [CPNext]_cpVars
  PROVE  JobFrames'
<1>. SUFFICES ASSUME NEW v \in Workers  PROVE JobFrame1(v)'
  BY FramesApart DEF JobFrames, JobFrame1
<1>0. /\ WorkTypeOK /\ TypeOK
      /\ req \in [Handlers -> ReqType] /\ job \in [Threads -> JobFrame]
      /\ del \in [Workers -> FrameType] /\ onb \in [Workers -> OnbFrame]
      /\ JobFrame1(v)
  BY FramesApart DEF TypeInv, CPTypeOK, WorkTypeOK, TypeOK, OnboardingTypeOK
<1>1. ASSUME del'[v] = del[v], onb'[v] = onb[v], rec'[v] = rec[v], adp'[v] = adp[v],
             v \in Threads => job'[v] = job[v] \/ ~JobAt(v, "run")
      PROVE  JobFrame1(v)'
  BY <1>0, <1>1 DEF JobFrame1, JobAt
<1>2. ASSUME del'[v] = NoFrame, onb'[v] = IdleOnb, rec'[v] = IdleRec, adp'[v] = IdleAdp
      PROVE  JobFrame1(v)'
  BY <1>2 DEF JobFrame1, NoFrame, IdleOnb, IdleRec, IdleAdp
<1>3. ASSUME NEW W, Leave(W), v \notin W => \/ v \notin Threads \/ job'[v] = job[v]
      PROVE  JobFrame1(v)'
  <2>1. CASE v \in W
    BY <1>2, <1>3, <2>1 DEF Leave
  <2>2. CASE v \notin W
    BY <1>1, <1>3, <2>2 DEF Leave
  <2>. QED  BY <2>1, <2>2
<1>4. CASE UNCHANGED cpVars
  BY <1>1, <1>4 DEF cpVars
<1>5. ASSUME NEW h \in Handlers, NEW t \in Targets, NEW op \in Ops, Receive(h, t, op)
      PROVE  JobFrame1(v)'
  BY <1>1, <1>5 DEF Receive, procVars
<1>6. ASSUME NEW h \in Handlers, HandlerStep(h)  PROVE JobFrame1(v)'
  <2>1. CASE CallInRequest(h)
    <3>1. req[h].op = "suspend" /\ h \in Workers /\ req[h].tenant \in Tenants /\ job' = job
      BY <1>0, <2>1, WorkersAssumption
         DEF CallInRequest, Synchronous, JobOps, RequestsOnly, ReqAt, ReqType
    <3>2. /\ rec' = rec /\ adp' = adp /\ del'[v] = del[v] /\ onb'[v] = onb[v]
      BY <1>0, <2>1, <3>1, CallFrames DEF CallInRequest
    <3>. QED  BY <1>1, <3>1, <3>2
  <2>2. CASE AnswerRequest(h)
    BY <1>3, <2>2 DEF AnswerRequest
  <2>3. CASE StartJob(h)
    <3>1. v \in Threads => job'[v] = job[v] \/ job[v].pc = "idle"
      BY <1>0, <2>3 DEF StartJob
    <3>. QED  BY <1>1, <2>3, <3>1 DEF StartJob, procVars, JobAt
  <2>4. CASE GetForCreate(h) \/ UpsertForCreate(h) \/ GetForResume(h) \/ GetForDelete(h)
             \/ InsertForDelete(h) \/ UpsertForDelete(h) \/ CheckInflight(h)
    BY <1>1, <2>4 DEF GetForCreate, UpsertForCreate, GetForResume, GetForDelete, InsertForDelete,
                      UpsertForDelete, MarkDeleting, CheckInflight, procVars
  <2>. QED  BY <1>6, <2>1, <2>2, <2>3, <2>4 DEF HandlerStep
<1>7. ASSUME NEW j \in Threads, ThreadStep(j)  PROVE JobFrame1(v)'
  <2>0. j \in Workers /\ \A i \in Threads \ {j} : job'[i] = job[i]
    BY <1>0, <1>7, WorkersAssumption
       DEF ThreadStep, RunJob, DeleteEnds, OnboardingEnds, CheckRow, RecordJobFailure, Discard, JobTo
  <2>1. CASE RunJob(j)
    <3>1. job[j].op \in JobKinds /\ job[j].tenant \in Tenants /\ JobAt(j, "spawned")
      BY <1>0, <2>1 DEF RunJob, JobOps, Busied, JobAt, JobFrame
    <3>2. /\ rec' = rec /\ adp' = adp
          /\ \A u \in Workers \ {j} : del'[u] = del[u] /\ onb'[u] = onb[u]
          /\ \/ del'[j] = del[j]
             \/ job[j].op = "delete" /\ del'[j].tenant = job[j].tenant
          /\ \/ onb'[j] = onb[j]
             \/ /\ job[j].op \in {"create", "resume"}
                /\ onb'[j].tenant = job[j].tenant /\ onb'[j].site = Platform
      BY <1>0, <2>0, <2>1, <3>1, CallFrames DEF RunJob
    <3>3. CASE v # j
      BY <1>1, <2>0, <3>2, <3>3
    <3>4. CASE v = j
      <4>1. job'[j].pc = "run" /\ job'[j].op = job[j].op /\ job'[j].tenant = job[j].tenant
        BY <1>0, <2>1 DEF RunJob, JobTo, JobFrame
      <4>2. del[j].pc = "idle" /\ onb[j].pc = "idle"
        BY <1>0, <3>1, <3>4 DEF JobFrame1, JobAt
      <4>. QED  BY <1>0, <3>2, <3>4, <4>1, <4>2 DEF JobFrame1, JobAt
    <3>. QED  BY <3>3, <3>4
  <2>2. CASE DeleteEnds(j) \/ OnboardingEnds(j)
    BY <1>3, <2>0, <2>2 DEF DeleteEnds, OnboardingEnds
  <2>3. CASE CheckRow(j) \/ RecordJobFailure(j) \/ Discard(j)
    <3>1. UNCHANGED procVars /\ ~JobAt(j, "run")
      BY <2>3 DEF CheckRow, RecordJobFailure, Discard, JobAt
    <3>. QED  BY <1>1, <2>0, <3>1 DEF procVars
  <2>. QED  BY <1>7, <2>1, <2>2, <2>3 DEF ThreadStep
<1>8. ASSUME NEW w \in Workers, DeleteStep(w) \/ RunDropJob(w),
             UNCHANGED <<onb, mig, sus, rec, adp, apiVars>>
      PROVE  JobFrame1(v)'
  <2>1. \/ del'[v] = del[v]
        \/ del[v].pc # "idle" /\ del'[v].tenant = del[v].tenant
    BY <1>0, <1>8, StepKeepsFrame, OthersKeepFrames DEF Busy, RunDropJob
  <2>. QED  BY <1>0, <1>8, <2>1 DEF JobFrame1, JobAt, apiVars
<1>9. ASSUME NEW w \in Workers, OnboardingStep(w),
             UNCHANGED <<del, dropjob, stray, sus, rec, adp, apiVars>>
      PROVE  JobFrame1(v)'
  <2>1. \/ onb'[v] = onb[v]
        \/ /\ onb[v].pc # "idle" /\ onb'[v].tenant = onb[v].tenant
           /\ onb'[v].site \in {onb[v].site, Platform, onb[v].tenant}
    BY <1>0, <1>9, OnbKeepsFrame
  <2>. QED  BY <1>0, <1>9, <2>1 DEF JobFrame1, JobAt, apiVars
<1>10. ASSUME NEW w \in Workers, SuspensionStep(w),
              UNCHANGED <<del, dropjob, stray, onb, mig, rec, adp, apiVars>>
       PROVE  JobFrame1(v)'
  BY <1>1, <1>10 DEF apiVars
<1>11. CASE MigratePod
  <2>1. onb' = onb
    BY <1>11 DEF MigratePod, MigrateStep, LoadCredentials, CreateRole, MigrateError, MigrateDone,
                 MigrateGone
  <2>. QED  BY <1>1, <1>11, <2>1 DEF MigratePod, apiVars
<1>14. ASSUME NEW t \in Tenants, StrayPod(t)  PROVE JobFrame1(v)'
  BY <1>1, <1>14 DEF StrayPod, RunStrayPod, apiVars
<1>12. CASE DriftByHand
  BY <1>1, <1>12 DEF DriftByHand, apiVars
<1>13. CASE Restart
  <2>1. v \in Handlers \cup Threads
    BY WorkersAssumption DEF RequestsOnly
  <2>. QED  BY <1>3, <1>13, <2>1 DEF Restart
<1>. QED
  BY <1>4, <1>5, <1>6, <1>7, <1>8, <1>9, <1>10, <1>11, <1>12, <1>13, <1>14, RequestSteps
     DEF RequestsOnly

-----------------------------------------------------------------------------
(* What a step does to the rows and to what a deletion has released.       *)

\* Nobody becomes the owner of t, and nothing that was gone is back.
Undisturbed(t) ==
  /\ row'[t].owner = "control_plane" => row[t].owner = "control_plane"
  /\ ~k8s[t].ns => ~k8s'[t].ns
  /\ ~aws[t].irsa => ~aws'[t].irsa
  /\ aws[t].secret # "live" => aws'[t].secret # "live"

RowStands(t) == row[t] # NoRow => row'[t] # NoRow

LEMMA RowIsSome == NoRow \notin RowType
BY DEF NoRow, RowType, DESIRED_STATUSES

\* An upsert keeps the owner of a row, and the row.
LEMMA UpsertStands ==
  ASSUME TypeOK, NEW u \in Tenants, NEW d \in DESIRED_STATUSES, NEW s \in STATUSES,
         row' = [row EXCEPT ![u] = Upsert(@, d, s)], UNCHANGED <<k8s, aws>>
  PROVE  \A t \in Tenants : Undisturbed(t) /\ RowStands(t)
<1>0. row[u] \in RowType \cup {NoRow} /\ "none" \in DeleteSteps
  BY DEF TypeOK, WorldTypeOK, DeleteSteps
<1>1. Upsert(row[u], d, s) \in RowType
  BY <1>0, UpsertType
<1>2. Upsert(row[u], d, s).owner = row[u].owner
  BY <1>0, UpsertKeeps
<1>. QED  BY <1>1, <1>2, RowIsSome DEF Undisturbed, RowStands, TypeOK, WorldTypeOK

\* An onboarding works on the platform tenant and on its own.
LEMMA OnbDisturbs ==
  ASSUME TypeOK, onb \in [Workers -> OnbFrame], NEW w \in Workers, OnboardingStep(w)
  PROVE  \A t \in Tenants : RowStands(t) /\ (t \notin {onb[w].site, onb[w].tenant} => Undisturbed(t))
<1>. DEFINE Good == \A t \in Tenants :
                      RowStands(t) /\ (t \notin {onb[w].site, onb[w].tenant} => Undisturbed(t))
<1>0. /\ onb[w].tenant \in Tenants /\ onb[w].site \in Tenants
      /\ row \in [Tenants -> RowType \cup {NoRow}]
      /\ k8s \in [Tenants -> K8sType] /\ aws \in [Tenants -> AwsType]
  BY DEF OnbFrame, TypeOK, WorldTypeOK
<1>1. ASSUME NEW u \in {onb[w].site, onb[w].tenant}, NEW r \in RowType,
             row' = [row EXCEPT ![u] = r], UNCHANGED <<k8s, aws>>
      PROVE  Good
  BY <1>0, <1>1, RowIsSome DEF RowStands, Undisturbed
<1>2. ASSUME NEW u \in {onb[w].site, onb[w].tenant}, NEW k,
             k8s' = [k8s EXCEPT ![u] = k], UNCHANGED <<row, aws>>
      PROVE  Good
  BY <1>0, <1>2 DEF RowStands, Undisturbed
<1>3. ASSUME NEW a, aws' = [aws EXCEPT ![onb[w].tenant] = a], UNCHANGED <<row, k8s>>
      PROVE  Good
  BY <1>0, <1>3 DEF RowStands, Undisturbed
<1>4. ASSUME UNCHANGED <<row, k8s, aws>>  PROVE Good
  BY <1>4 DEF RowStands, Undisturbed
<1>. DEFINE r == row[onb[w].tenant]
<1>5. \A d \in DESIRED_STATUSES, s \in STATUSES :
        /\ Upsert(r, d, s) \in RowType
        /\ [Upsert(r, d, s) EXCEPT !.owner = "control_plane"] \in RowType
  <2>1. \A d \in DESIRED_STATUSES, s \in STATUSES : Upsert(r, d, s) \in RowType
    BY <1>0, UpsertType DEF DeleteSteps
  <2>. QED  BY <2>1 DEF RowType, Owners
<1>6. /\ {"ACTIVE"} \subseteq DESIRED_STATUSES
      /\ {"PROVISIONING", "ACTIVE", "FAILED"} \subseteq STATUSES
  BY DEF DESIRED_STATUSES, STATUSES
<1>7. CASE MarkProvisioning(w) \/ RecordIdentity(w) \/ ProvisionFailed(w)
  BY <1>1, <1>5, <1>6, <1>7 DEF MarkProvisioning, RecordIdentity, ProvisionFailed
<1>8. CASE Activate(w)
  BY <1>1, <1>5, <1>6, <1>8 DEF Activate
<1>9. CASE EnsureSecret(w) \/ EnsureIrsa(w)
  <2>1. \A u : /\ \A x : aws' = [aws EXCEPT ![u].secret = x] =>
                           aws' = [aws EXCEPT ![u] = [aws[u] EXCEPT !.secret = x]]
               /\ \A x : aws' = [aws EXCEPT ![u].irsa = x] =>
                           aws' = [aws EXCEPT ![u] = [aws[u] EXCEPT !.irsa = x]]
    OBVIOUS
  <2>. QED  BY <1>3, <1>4, <1>9, <2>1 DEF EnsureSecret, EnsureIrsa
<1>10. CASE ApplyNs(w)
  <2>1. \A u : k8s' = [k8s EXCEPT ![u].ns = TRUE] =>
               k8s' = [k8s EXCEPT ![u] = [k8s[u] EXCEPT !.ns = TRUE]]
    OBVIOUS
  <2>. QED  BY <1>2, <1>4, <1>10, <2>1 DEF ApplyNs
<1>11. CASE HelmUpgrade(w) \/ ScaleUp(w)
  BY <1>2, <1>4, <1>11 DEF HelmUpgrade, ScaleUp
<1>12. CASE ReadOutputs(w) \/ Snapshot(w) \/ ClearMigrate(w) \/ WaitMigrate(w) \/ WaitIngress(w)
            \/ GetSuspended(w)
  BY <1>4, <1>12 DEF ReadOutputs, Snapshot, ClearMigrate, WaitMigrate, WaitIngress, GetSuspended, world
<1>. QED  BY <1>7, <1>8, <1>9, <1>10, <1>11, <1>12 DEF OnboardingStep

\* A deletion works on its own tenant, and brings nothing back on any.
LEMMA DeleteDisturbs ==
  ASSUME TypeOK, NEW w \in Workers, DeleteStep(w)
  PROVE  \A t \in Tenants : Undisturbed(t) /\ (RowStands(t) \/ (Purge(w) /\ t = del[w].tenant))
<1>0. del[w].tenant \in Tenants /\ row \in [Tenants -> RowType \cup {NoRow}]
  BY DEF TypeOK, WorldTypeOK, FrameType
<1>1. NothingReturns
  BY StepReturnsNothing
<1>2. \A t \in Tenants : row'[t].owner = "control_plane" => row[t].owner = "control_plane"
  <2>1. CASE row' = row
    BY <2>1
  <2>2. CASE Purge(w)
    BY <1>0, <2>2 DEF Purge, NoRow
  <2>3. CASE \E r \in RowType : Rewrites(w, r)
    BY <1>0, <2>3 DEF Rewrites
  <2>. QED  BY <2>1, <2>2, <2>3, StepRow
<1>3. ASSUME NEW t \in Tenants, ~(Purge(w) /\ t = del[w].tenant)  PROVE RowStands(t)
  <2>1. CASE row' = row
    BY <2>1 DEF RowStands
  <2>2. CASE Purge(w)
    BY <1>0, <1>3, <2>2 DEF Purge, RowStands
  <2>3. CASE \E r \in RowType : Rewrites(w, r)
    BY <1>0, <2>3, RowIsSome DEF Rewrites, RowStands
  <2>. QED  BY <2>1, <2>2, <2>3, StepRow
<1>. QED  BY <1>1, <1>2, <1>3 DEF Undisturbed, NothingReturns

\* Whatever request or job is called leaves the world to its first step.
LEMMA CallWorld ==
  ASSUME NEW w, NEW t, NEW op, Call(w, t, op)
  PROVE  UNCHANGED world
BY DEF Call, Begin

\* All there is beside deletions and onboardings.
LEMMA OthersDisturb ==
  ASSUME RequestsOnly, TypeInv, JobFrames, [CPNext]_cpVars,
         ~\E w \in Workers : /\ DeleteStep(w) \/ OnboardingStep(w)
                             /\ UNCHANGED apiVars
  PROVE  \A t \in Tenants : Undisturbed(t) /\ RowStands(t)
<1>. DEFINE Good == \A t \in Tenants : Undisturbed(t) /\ RowStands(t)
<1>0. /\ TypeOK /\ sus \in [Workers -> SusFrame] /\ k8s \in [Tenants -> K8sType]
      /\ req \in [Handlers -> ReqType] /\ job \in [Threads -> JobFrame]
  BY DEF TypeInv, CPTypeOK, SuspensionTypeOK, TypeOK, WorldTypeOK
<1>1. ASSUME UNCHANGED <<row, k8s, aws>>  PROVE Good
  BY <1>1 DEF Undisturbed, RowStands
<1>2. ASSUME NEW u \in Tenants, NEW d \in DESIRED_STATUSES, NEW s \in STATUSES,
             row' = [row EXCEPT ![u] = Upsert(@, d, s)], UNCHANGED <<k8s, aws>>
      PROVE  Good
  BY <1>0, <1>2, UpsertStands
<1>3. ASSUME NEW u \in Tenants, NEW k, k.ns => k8s[u].ns, k8s' = [k8s EXCEPT ![u] = k],
             UNCHANGED <<row, aws>>
      PROVE  Good
  BY <1>0, <1>3 DEF Undisturbed, RowStands
<1>4. \A k \in K8sType : ScaledTo(k, 0).ns = k.ns /\ WithoutIngress(k).ns = k.ns
  BY DEF ScaledTo, WithoutIngress, K8sType
<1>5. /\ {"ACTIVE", "GONE", "SUSPENDED"} \subseteq DESIRED_STATUSES
      /\ {"PROVISIONING", "DELETING", "DELETE_FAILED", "FAILED", "SUSPENDED"} \subseteq STATUSES
  BY DEF DESIRED_STATUSES, STATUSES
<1>6. CASE UNCHANGED cpVars
  BY <1>1, <1>6 DEF cpVars, world
<1>7. ASSUME NEW h \in Handlers, NEW t \in Targets, NEW op \in Ops, Receive(h, t, op)
      PROVE  Good
  BY <1>1, <1>7 DEF Receive, world
<1>8. ASSUME NEW h \in Handlers, HandlerStep(h)  PROVE Good
  <2>0. req[h].tenant \in Tenants
    BY <1>0 DEF ReqType
  <2>1. CASE UpsertForCreate(h)
    BY <1>2, <1>5, <2>0, <2>1 DEF UpsertForCreate
  <2>2. CASE InsertForDelete(h) \/ UpsertForDelete(h)
    BY <1>2, <1>5, <2>0, <2>2 DEF InsertForDelete, UpsertForDelete, MarkDeleting
  <2>3. CASE CallInRequest(h)
    BY <1>1, <2>3, CallWorld DEF CallInRequest, world
  <2>4. CASE \/ GetForCreate(h) \/ GetForResume(h) \/ GetForDelete(h) \/ CheckInflight(h)
             \/ StartJob(h) \/ AnswerRequest(h)
    BY <1>1, <2>4 DEF GetForCreate, GetForResume, GetForDelete, CheckInflight, StartJob,
                      AnswerRequest, world
  <2>. QED  BY <1>8, <2>1, <2>2, <2>3, <2>4 DEF HandlerStep
<1>9. ASSUME NEW j \in Threads, ThreadStep(j)  PROVE Good
  <2>1. CASE RunJob(j)
    BY <1>1, <2>1, CallWorld DEF RunJob, world
  <2>2. CASE RecordJobFailure(j)
    <3>1. job[j].tenant \in Tenants
      BY <1>0 DEF JobFrame
    <3>. QED  BY <1>2, <1>5, <2>2, <3>1 DEF RecordJobFailure
  <2>3. CASE DeleteEnds(j) \/ OnboardingEnds(j) \/ CheckRow(j) \/ Discard(j)
    BY <1>1, <2>3 DEF DeleteEnds, OnboardingEnds, CheckRow, Discard, world
  <2>. QED  BY <1>9, <2>1, <2>2, <2>3 DEF ThreadStep
<1>10. ASSUME NEW w \in Workers, RunDropJob(w)  PROVE Good
  BY <1>1, <1>10 DEF RunDropJob
<1>11. ASSUME NEW w \in Workers, SuspensionStep(w)  PROVE Good
  <2>0. sus[w].tenant \in Tenants /\ k8s[sus[w].tenant] \in K8sType
    BY <1>0 DEF SusFrame
  <2>1. CASE GetStatus(w)
    BY <1>1, <2>1 DEF GetStatus, world
  <2>2. CASE ScaleDown(w) \/ DropIngress(w)
    BY <1>1, <1>3, <1>4, <2>0, <2>2 DEF ScaleDown, DropIngress
  <2>3. CASE MarkSuspended(w)
    BY <1>2, <1>5, <2>0, <2>3 DEF MarkSuspended
  <2>. QED  BY <1>11, <2>1, <2>2, <2>3 DEF SuspensionStep
<1>12. CASE MigratePod
  BY <1>1, <1>12 DEF MigratePod, MigrateStep, LoadCredentials, CreateRole, MigrateError,
                     MigrateDone, MigrateGone, world
<1>13. CASE DriftByHand
  <2>1. PICK t \in Targets : \/ k8s' \in {[k8s EXCEPT ![t] = ScaledTo(@, 0)],
                                          [k8s EXCEPT ![t] = WithoutIngress(@)]}
                             \/ RemoveNs(t)
    BY <1>13 DEF DriftByHand
  <2>2. \E k : (k.ns => k8s[t].ns) /\ k8s' = [k8s EXCEPT ![t] = k]
    BY <1>0, <1>4, <2>1, ScopeAssumption DEF RemoveNs, NoK8s
  <2>. QED  BY <1>3, <1>13, <2>2, ScopeAssumption DEF DriftByHand
<1>14. CASE Restart
  BY <1>1, <1>14 DEF Restart
<1>16. ASSUME NEW t \in Tenants, StrayPod(t)  PROVE Good
  BY <1>1, <1>16 DEF StrayPod, RunStrayPod
<1>15. ASSUME NEW w \in Workers, DeleteStep(w) \/ OnboardingStep(w), UNCHANGED apiVars
       PROVE  FALSE
  BY <1>15
<1>. QED
  BY <1>6, <1>7, <1>8, <1>9, <1>10, <1>11, <1>12, <1>13, <1>14, <1>15, <1>16, RequestSteps
     DEF RequestsOnly

-----------------------------------------------------------------------------
(* The invariant.                                                          *)

\* A deletion under way has the tenant of its job, which _inflight keeps from
\* every other job, and which is no platform tenant.
LEMMA BusyAlone ==
  ASSUME Platform \notin Targets, TypeInv, JobFrames, JobsSerialised,
         NEW v \in Workers, Busy(v)
  PROVE  /\ del[v].tenant \in Targets
         /\ \A w \in Workers : onb[w].pc # "idle" => del[v].tenant \notin {onb[w].site, onb[w].tenant}
<1>1. /\ v \in Threads /\ Busied(v) /\ job[v].op = "delete" /\ del[v].tenant = job[v].tenant
  BY DEF Busy, JobFrames, Busied, JobAt
<1>2. del[v].tenant \in inflight /\ inflight \subseteq Targets
  BY <1>1 DEF JobsSerialised, TypeInv, CPTypeOK
<1>3. ASSUME NEW w \in Workers, onb[w].pc # "idle"
      PROVE  del[v].tenant # onb[w].tenant
  <2>1. /\ w \in Threads /\ Busied(w) /\ job[w].op # "delete" /\ onb[w].tenant = job[w].tenant
    BY <1>3 DEF JobFrames, Busied, JobAt
  <2>. QED  BY <1>1, <2>1 DEF JobsSerialised
<1>4. \A w \in Workers : onb[w].site \in {Platform, onb[w].tenant}
  BY DEF JobFrames
<1>. QED  BY <1>2, <1>3, <1>4

\* What a step does to the activations of delete_tenant.
LEMMA NextFrame ==
  ASSUME RequestsOnly, TypeInv, JobOps, JobFrames, [CPNext]_cpVars, NEW v \in Workers
  PROVE  \/ del'[v] = del[v]
         \/ ~Busy(v)'
         \/ del'[v].pc = "mark_started" /\ del'[v].owner = row'[del'[v].tenant].owner
         \/ DeleteStep(v)
<1>. DEFINE Good == \/ del'[v] = del[v]
                    \/ ~Busy(v)'
                    \/ del'[v].pc = "mark_started" /\ del'[v].owner = row'[del'[v].tenant].owner
                    \/ DeleteStep(v)
<1>0. /\ TypeOK /\ del \in [Workers -> FrameType]
  BY DEF TypeInv, CPTypeOK, TypeOK
<1>1. ASSUME NEW W, Leave(W)  PROVE Good
  BY <1>1 DEF Leave, Busy, NoFrame
<1>2. ASSUME NEW w \in Workers, NEW t, NEW op, Call(w, t, op)  PROVE Good
  <2>1. CASE Begin(w, t)
    <3>1. row' = row /\ (v # w => del'[v] = del[v])
      BY <1>0, <2>1 DEF Begin, world
    <3>2. v = w => del'[v].pc = "mark_started" /\ del'[v].tenant = t /\ del'[v].owner = row[t].owner
      BY <1>0, <2>1 DEF Begin
    <3>. QED  BY <3>1, <3>2
  <2>2. CASE UNCHANGED del
    BY <2>2
  <2>. QED  BY <1>2, <2>1, <2>2 DEF Call
<1>3. CASE UNCHANGED cpVars
  BY <1>3 DEF cpVars
<1>4. ASSUME NEW h \in Handlers, NEW t \in Targets, NEW op \in Ops, Receive(h, t, op)
      PROVE  Good
  BY <1>4 DEF Receive, procVars
<1>5. ASSUME NEW h \in Handlers, HandlerStep(h)  PROVE Good
  <2>1. CASE CallInRequest(h)
    BY <1>2, <2>1, WorkersAssumption DEF CallInRequest
  <2>2. CASE AnswerRequest(h)
    BY <1>1, <2>2 DEF AnswerRequest
  <2>3. CASE GetForCreate(h) \/ UpsertForCreate(h) \/ GetForResume(h) \/ GetForDelete(h)
             \/ InsertForDelete(h) \/ UpsertForDelete(h) \/ CheckInflight(h) \/ StartJob(h)
    BY <2>3 DEF GetForCreate, UpsertForCreate, GetForResume, GetForDelete, InsertForDelete,
                UpsertForDelete, MarkDeleting, CheckInflight, StartJob, procVars
  <2>. QED  BY <1>5, <2>1, <2>2, <2>3 DEF HandlerStep
<1>6. ASSUME NEW j \in Threads, ThreadStep(j)  PROVE Good
  <2>1. CASE RunJob(j)
    BY <1>2, <2>1, WorkersAssumption DEF RunJob
  <2>2. CASE DeleteEnds(j) \/ OnboardingEnds(j)
    BY <1>1, <2>2 DEF DeleteEnds, OnboardingEnds
  <2>3. CASE CheckRow(j) \/ RecordJobFailure(j) \/ Discard(j)
    BY <2>3 DEF CheckRow, RecordJobFailure, Discard, procVars
  <2>. QED  BY <1>6, <2>1, <2>2, <2>3 DEF ThreadStep
<1>7. ASSUME NEW w \in Workers, DeleteStep(w) \/ RunDropJob(w)  PROVE Good
  BY <1>0, <1>7, OthersKeepFrames DEF RunDropJob
<1>8. CASE MigratePod \/ DriftByHand \/ \E t \in Tenants : StrayPod(t)
  BY <1>8 DEF MigratePod, DriftByHand, StrayPod, RunStrayPod
<1>9. CASE Restart
  BY <1>1, <1>9 DEF Restart
<1>. QED
  BY <1>3, <1>4, <1>5, <1>6, <1>7, <1>8, <1>9, RequestSteps DEF RequestsOnly

\* The owner read and the releases made stand, whoever makes the step.
LEMMA NextHeld ==
  ASSUME RequestsOnly, Platform \notin Targets, TypeInv, OwnedInv, [CPNext]_cpVars,
         NEW v \in Workers
  PROVE  OwnerHeld(v)' /\ FrameReleased(v)'
<1>. DEFINE t == del[v].tenant
<1>0. /\ TypeOK /\ onb \in [Workers -> OnbFrame] /\ t \in Tenants
      /\ JobOps /\ JobFrames /\ JobsSerialised /\ OwnerHeld(v) /\ FrameReleased(v)
  BY DEF TypeInv, CPTypeOK, OnboardingTypeOK, TypeOK, FrameType, OwnedInv
<1>1. CASE ~Busy(v)'
  BY <1>1 DEF OwnerHeld, FrameReleased, Released, Busy, AfterK8s, OwnerOnly, AfterIrsa, AfterSecret
<1>2. CASE del'[v].pc = "mark_started" /\ del'[v].owner = row'[del'[v].tenant].owner
  BY <1>2 DEF OwnerHeld, FrameReleased, Released, AfterK8s, OwnerOnly, AfterIrsa, AfterSecret
<1>3. CASE DeleteStep(v)
  BY <1>0, <1>3, DeleteDisturbs, StepReleases, StepKeepsFrame DEF OwnerHeld, Undisturbed
<1>4. CASE del'[v] = del[v] /\ Busy(v)' /\ ~DeleteStep(v)
  <2>0. Busy(v)
    BY <1>4 DEF Busy
  <2>1. Undisturbed(t)
    <3>1. ASSUME NEW w \in Workers, DeleteStep(w)  PROVE Undisturbed(t)
      BY <1>0, <3>1, DeleteDisturbs
    <3>2. ASSUME NEW w \in Workers, OnboardingStep(w)  PROVE Undisturbed(t)
      <4>1. onb[w].pc # "idle"
        BY <1>0, <3>2, OnbKeepsFrame
      <4>2. t \notin {onb[w].site, onb[w].tenant}
        BY <1>0, <2>0, <4>1, BusyAlone
      <4>. QED  BY <1>0, <3>2, <4>2, OnbDisturbs
    <3>. QED  BY <1>0, <3>1, <3>2, OthersDisturb
  <2>2. OwnerHeld(v)'
    BY <1>0, <1>4, <2>0, <2>1 DEF OwnerHeld, Undisturbed
  <2>3. FrameReleased(v)'
    BY <1>0, <1>4, <2>1 DEF FrameReleased, Released, Undisturbed
  <2>. QED  BY <2>2, <2>3
<1>. QED  BY <1>0, <1>1, <1>2, <1>3, <1>4, NextFrame

LEMMA InitOwned == ASSUME RequestsOnly, CPInit PROVE OwnedInv
<1>1. /\ req = [h \in Handlers |-> NoReq] /\ job = [j \in Threads |-> NoTask]
      /\ del = [w \in Workers |-> NoFrame] /\ onb = [w \in Workers |-> IdleOnb]
      /\ rec = [w \in Workers |-> IdleRec] /\ adp = [w \in Workers |-> IdleAdp]
  BY DEF CPInit
<1>2. JobOps /\ JobFrames
  BY <1>1 DEF JobOps, JobFrames, ReqAt, Busied, NoReq, NoTask, NoFrame, IdleOnb, IdleRec, IdleAdp
<1>3. \A w \in Workers : OwnerHeld(w) /\ FrameReleased(w)
  BY <1>1 DEF OwnerHeld, FrameReleased, Released, Busy, NoFrame, AfterK8s, OwnerOnly, AfterIrsa,
              AfterSecret
<1>. QED  BY <1>2, <1>3, InitJobs DEF OwnedInv, JobsInv

\* The invariant is inductive, given the types.
LEMMA NextOwned ==
  ASSUME RequestsOnly, Platform \notin Targets, TypeInv, OwnedInv, [CPNext]_cpVars
  PROVE  OwnedInv'
<1>1. JobsInv
  BY DEF JobsInv, OwnedInv, TypeInv, CPTypeOK
<1>2. JobsSerialised'
  BY <1>1, NextJobs DEF JobsInv
<1>3. JobOps' /\ JobFrames'
  BY <1>1, NextJobOps, NextJobFrames DEF JobsInv, OwnedInv
<1>. QED  BY <1>2, <1>3, NextHeld DEF OwnedInv

\* While requests to create, delete, suspend and resume are all there is, the
\* thread that has a tenant's job is the only one to take it apart or to put it
\* together, and its deletion knows the owner of the identity and what of it is
\* gone: through any failures, restarts and changes by hand.
THEOREM OwnedInvHolds ==
  ASSUME RequestsOnly, Platform \notin Targets
  PROVE  CPSpec => []OwnedInv
<1>1. CPInit => OwnedInv
  BY InitOwned
<1>2. TypeInv /\ OwnedInv /\ [CPNext]_cpVars => OwnedInv'
  BY NextOwned
<1>. QED  BY <1>1, <1>2, TypeInvHolds, PTL DEF CPSpec

-----------------------------------------------------------------------------
\* The purge is the only step after which a row is gone, and by then the
\* deletion has the owner right and has seen the rest go.
LEMMA NextOwnedReleased ==
  ASSUME RequestsOnly, Platform \notin Targets, NsReliable, TypeInv, OwnedInv, [CPNext]_cpVars,
         NEW t \in Tenants, row[t].owner = "control_plane", row'[t] = NoRow
  PROVE  ~aws[t].irsa /\ aws[t].secret # "live" /\ ~k8s[t].ns
<1>0. /\ TypeOK /\ onb \in [Workers -> OnbFrame] /\ JobFrames /\ ~RowStands(t)
  BY DEF TypeInv, CPTypeOK, OnboardingTypeOK, OwnedInv, RowStands, NoRow
<1>1. PICK w \in Workers : DeleteStep(w) \/ OnboardingStep(w)
  BY <1>0, OthersDisturb
<1>2. DeleteStep(w) /\ Purge(w) /\ t = del[w].tenant
  BY <1>0, <1>1, OnbDisturbs, DeleteDisturbs
<1>3. OwnerHeld(w) /\ FrameReleased(w) /\ At(w, "purge") /\ Busy(w)
  BY <1>2 DEF OwnedInv, Purge, Busy, At
<1>. QED
  BY <1>2, <1>3 DEF OwnerHeld, FrameReleased, Released, At, AfterK8s, AfterIrsa, AfterSecret

\* A registry row that names the control plane as owner only goes once the
\* secret, the IRSA role and the namespace have gone: whatever requests to
\* create, delete, suspend and resume overlap, whichever of them fail and
\* however often the server restarts.
THEOREM OwnedReleasedHolds ==
  ASSUME RequestsOnly, Platform \notin Targets, NsReliable
  PROVE  CPSpec => OwnedReleased
<1>1. TypeInv /\ OwnedInv /\ [CPNext]_cpVars =>
        [\A t \in Tenants : row[t].owner = "control_plane" /\ row'[t] = NoRow =>
                              ~aws[t].irsa /\ aws[t].secret # "live" /\ ~k8s[t].ns]_cpVars
  BY NextOwnedReleased
<1>. QED  BY <1>1, TypeInvHolds, OwnedInvHolds, PTL DEF CPSpec, OwnedReleased
=============================================================================
