---------------------------- MODULE OrphanProofs ----------------------------
(***************************************************************************)
(* Proofs that deletions keep their promises in the whole control plane:   *)
(* run from the API and the command line at once, beside suspensions,      *)
(* adoptions, changes by hand, interrupts and restarts of the server, for  *)
(* every set of tenants and actors, as long as nothing is provisioned.     *)
(***************************************************************************)
EXTENDS ControlPlaneTypes

-----------------------------------------------------------------------------
(* Who asks for what.                                                      *)

\* A handler or thread only does what some request has asked for.
LEMMA NextOpsAsked ==
  ASSUME req \in [Handlers -> ReqType], job \in [Threads -> JobFrame], OpsAsked, [CPNext]_cpVars
  PROVE  OpsAsked'
<1>1. ASSUME NEW h \in Handlers,
             req'[h] = req[h] \/ req'[h].pc = "idle" \/ req'[h].op \in Ops
      PROVE  ReqAt(h, "idle")' \/ req'[h].op \in Ops
  BY <1>1 DEF OpsAsked, ReqAt
<1>2. ASSUME NEW j \in Threads,
             job'[j] = job[j] \/ job'[j].pc = "idle" \/ job'[j].op \in Ops
      PROVE  Busied(j)' => job'[j].op \in Ops
  BY <1>2 DEF OpsAsked, Busied
<1>3. CASE UNCHANGED apiVars
  BY <1>1, <1>2, <1>3 DEF apiVars, OpsAsked
<1>4. ASSUME NEW h \in Handlers, NEW t \in Targets, NEW op \in Ops, Receive(h, t, op)
      PROVE  OpsAsked'
  BY <1>1, <1>2, <1>4 DEF Receive, OpsAsked
<1>5. ASSUME NEW h \in Handlers, HandlerStep(h)  PROVE OpsAsked'
  <2>1. req[h].op \in Ops
    BY <1>5 DEF HandlerStep, GetForCreate, UpsertForCreate, GetForResume, GetForDelete,
                InsertForDelete, UpsertForDelete, MarkDeleting, CheckInflight, StartJob,
                CallInRequest, AnswerRequest, OpsAsked, ReqAt
  <2>2. ASSUME Answer(h) \/ \E label \in {"insert", "check", "upsert", "start", "answer"} :
                              ReqTo(h, label)
        PROVE  \A g \in Handlers : ReqAt(g, "idle")' \/ req'[g].op \in Ops
    BY <1>1, <2>1, <2>2 DEF Answer, ReqTo, NoReq, ReqType
  <2>3. Answer(h) \/ \E label \in {"insert", "check", "upsert", "start", "answer"} : ReqTo(h, label)
    BY <1>5 DEF HandlerStep, GetForCreate, UpsertForCreate, GetForResume, GetForDelete,
                InsertForDelete, UpsertForDelete, MarkDeleting, CheckInflight, StartJob,
                CallInRequest, AnswerRequest
  <2>4. \A j \in Threads : job'[j] = job[j] \/ job'[j].op = req[h].op
    BY <1>5 DEF HandlerStep, GetForCreate, UpsertForCreate, GetForResume, GetForDelete,
                InsertForDelete, UpsertForDelete, MarkDeleting, CheckInflight, StartJob,
                CallInRequest, AnswerRequest
  <2>. QED  BY <1>2, <2>1, <2>2, <2>3, <2>4 DEF OpsAsked
<1>6. ASSUME NEW j \in Threads, ThreadStep(j)  PROVE OpsAsked'
  <2>1. req' = req /\ \A i \in Threads \ {j} : job'[i] = job[i]
    BY <1>6 DEF ThreadStep, RunJob, DeleteEnds, OnboardingEnds, CheckRow, RecordJobFailure, Discard,
                JobTo
  <2>2. job[j].op \in Ops
    BY <1>6 DEF ThreadStep, RunJob, DeleteEnds, OnboardingEnds, CheckRow, RecordJobFailure, Discard,
                JobAt, Busied, OpsAsked
  <2>3. ASSUME NEW label, JobTo(j, label)  PROVE job'[j].op = job[j].op
    BY <2>3 DEF JobTo, JobFrame
  <2>4. job'[j].op = job[j].op \/ job'[j].pc = "idle"
    BY <1>6, <2>3
       DEF ThreadStep, RunJob, DeleteEnds, OnboardingEnds, CheckRow, RecordJobFailure, Discard, NoTask
  <2>. QED  BY <1>1, <1>2, <2>1, <2>2, <2>4 DEF OpsAsked
<1>7. CASE Restart
  BY <1>1, <1>2, <1>7 DEF Restart, NoReq, NoTask, OpsAsked
<1>. QED
  BY <1>3, <1>4, <1>5, <1>6, <1>7 DEF CPNext, cpVars, apiVars, Command, Exit, Interrupt, Procedure,
                                      DropPod, StrayPod, MigratePod, DriftByHand

-----------------------------------------------------------------------------
(* What others do is harmless; and but for a change by hand, which may     *)
(* remove a namespace before the role has gone, it respects the order of a *)
(* deletion.                                                               *)

Ordered == Order!Next \/ Holds' = Holds

Benign == Harmless /\ Ordered

\* A row written for a tenant is the only thing that may come back.
LEMMA RecordOrdered ==
  ASSUME row \in [Tenants -> RowType \cup {NoRow}], NEW u \in Tenants, NEW r, r # NoRow,
         row' = [row EXCEPT ![u] = r], UNCHANGED <<k8s, aws, role>>
  PROVE  Ordered
<1>1. Holds' = [Holds EXCEPT ![u] = @ \cup {"record"}]
  <2>1. /\ \A t \in Tenants : t # u => Holds'[t] = Holds[t]
        /\ Holds'[u] = Holds[u] \cup {"record"}
    BY DEF Holds, Things
  <2>. QED  BY <2>1 DEF Holds
<1>. QED  BY <1>1 DEF Ordered, Order!Next, Order!Record

LEMMA UntouchedBenign ==
  ASSUME UNCHANGED <<row, k8s, aws, role, del>>
  PROVE  Benign
BY DEF Benign, Ordered, Holds, Harmless, NothingReturns

\* An upsert of the other procedures keeps delete_step, and keeps the owner or
\* makes it the control plane.
LEMMA UpsertBenign ==
  ASSUME TypeOK, NEW u \in Tenants, NEW d \in DESIRED_STATUSES, NEW s \in STATUSES,
         \/ row' = [row EXCEPT ![u] = Upsert(@, d, s)]
         \/ row' = [row EXCEPT ![u] = [Upsert(@, d, s) EXCEPT !.owner = "control_plane"]],
         UNCHANGED <<k8s, aws, role, del>>
  PROVE  Benign
<1>0. row \in [Tenants -> RowType \cup {NoRow}] /\ row[u] \in RowType \cup {NoRow}
  BY DEF TypeOK, WorldTypeOK
<1>1. Upsert(row[u], d, s) \in RowType
  BY <1>0, UpsertType DEF DeleteSteps
<1>2. Upsert(row[u], d, s).owner = row[u].owner /\ Upsert(row[u], d, s).step = row[u].step
  BY <1>0, UpsertKeeps
<1>3. ASSUME NEW r \in RowType, r.step = row[u].step, r.owner \in {row[u].owner, "control_plane"},
             row' = [row EXCEPT ![u] = r]
      PROVE  Benign
  <2>1. r # NoRow
    BY DEF RowType, NoRow, STATUSES
  <2>2. Harmless
    BY <1>0, <1>3, <2>1 DEF Harmless, NothingReturns
  <2>. QED  BY <1>0, <1>3, <2>1, <2>2, RecordOrdered DEF Benign
<1>4. CASE row' = [row EXCEPT ![u] = Upsert(@, d, s)]
  BY <1>1, <1>2, <1>3, <1>4
<1>5. CASE row' = [row EXCEPT ![u] = [Upsert(@, d, s) EXCEPT !.owner = "control_plane"]]
  <2>1. [Upsert(row[u], d, s) EXCEPT !.owner = "control_plane"] \in RowType
    BY <1>1 DEF RowType, Owners
  <2>2. [Upsert(row[u], d, s) EXCEPT !.owner = "control_plane"].step = row[u].step
    BY <1>1, <1>2 DEF RowType
  <2>3. [Upsert(row[u], d, s) EXCEPT !.owner = "control_plane"].owner = "control_plane"
    BY <1>1 DEF RowType
  <2>. QED  BY <1>3, <1>5, <2>1, <2>2, <2>3
<1>. QED  BY <1>4, <1>5

LEMMA ClusterHarmless ==
  ASSUME TypeOK, NEW u \in Tenants, NEW k \in K8sType, k.ns => k8s[u].ns,
         k8s' = [k8s EXCEPT ![u] = k], UNCHANGED <<row, aws, role, del>>
  PROVE  Harmless /\ (k.ns = k8s[u].ns => Ordered)
<1>1. Harmless
  BY DEF Harmless, NothingReturns, TypeOK, WorldTypeOK
<1>2. ASSUME k.ns = k8s[u].ns  PROVE Holds' = Holds
  <2>1. \A t \in Tenants : k8s'[t].ns = k8s[t].ns
    BY <1>2 DEF TypeOK, WorldTypeOK
  <2>. QED  BY <2>1, HoldsSame
<1>. QED  BY <1>1, <1>2 DEF Ordered

\* A deletion that begins reads the owner; nothing else that begins, or ends,
\* touches a deletion under way.
LEMMA CallBenign ==
  ASSUME TypeOK, NEW w \in Workers, NEW t \in Tenants, NEW op, Call(w, t, op)
  PROVE  Benign /\ dropjob' = dropjob
<1>1. UNCHANGED <<row, k8s, aws, role, dropjob, stray>>
  BY DEF Call, Begin, world
<1>2. \A v \in Workers : \/ del'[v] = del[v]
                         \/ /\ del'[v].pc = "mark_started"
                            /\ del'[v].owner = row[del'[v].tenant].owner
  BY DEF Call, Begin, TypeOK
<1>. QED  BY <1>1, <1>2 DEF Benign, Ordered, Holds, Harmless, NothingReturns

LEMMA LeaveBenign ==
  ASSUME NEW W, Leave(W), UNCHANGED <<row, k8s, aws, role>>
  PROVE  Benign
BY DEF Leave, NoFrame, Benign, Ordered, Holds, Harmless, NothingReturns

LEMMA ScaledStays ==
  /\ \A k \in K8sType : ScaledTo(k, 0) \in K8sType /\ ScaledTo(k, 0).ns = k.ns
  /\ \A k \in K8sType : WithoutIngress(k) \in K8sType /\ WithoutIngress(k).ns = k.ns
  /\ NoK8s \in K8sType /\ ~NoK8s.ns
<1>1. \A k \in K8sType : ScaledTo(k, 0) \in K8sType /\ ScaledTo(k, 0).ns = k.ns
  BY DEF ScaledTo, K8sType
<1>2. \A k \in K8sType : WithoutIngress(k) \in K8sType /\ WithoutIngress(k).ns = k.ns
  BY DEF WithoutIngress, K8sType
<1>3. NoK8s \in K8sType /\ ~NoK8s.ns
  BY DEF NoK8s, K8sType
<1>. QED  BY <1>1, <1>2, <1>3

LEMMA Statuses ==
  /\ {"ACTIVE", "GONE", "SUSPENDED"} \subseteq DESIRED_STATUSES
  /\ {"ACTIVE", "PROVISIONING", "DELETING", "DELETE_FAILED", "FAILED", "SUSPENDED"} \subseteq STATUSES
BY DEF DESIRED_STATUSES, STATUSES

LEMMA SuspensionBenign ==
  ASSUME TypeOK, sus \in [Workers -> SusFrame], NEW w \in Workers, SuspensionStep(w),
         UNCHANGED del
  PROVE  Benign
<1>0. sus[w].tenant \in Tenants /\ k8s[sus[w].tenant] \in K8sType
  BY DEF SusFrame, TypeOK, WorldTypeOK
<1>1. CASE GetStatus(w)
  BY <1>1, UntouchedBenign DEF GetStatus, world
<1>2. CASE ScaleDown(w) \/ DropIngress(w)
  <2>1. CASE UNCHANGED k8s
    BY <1>2, <2>1, UntouchedBenign DEF ScaleDown, DropIngress
  <2>2. CASE \E k \in K8sType : /\ k.ns = k8s[sus[w].tenant].ns
                                /\ k8s' = [k8s EXCEPT ![sus[w].tenant] = k]
    BY <1>0, <1>2, <2>2, ClusterHarmless DEF ScaleDown, DropIngress, Benign
  <2>. QED  BY <1>0, <1>2, <2>1, <2>2, ScaledStays DEF ScaleDown, DropIngress
<1>3. CASE MarkSuspended(w)
  BY <1>0, <1>3, UpsertBenign, Statuses DEF MarkSuspended
<1>. QED  BY <1>1, <1>2, <1>3 DEF SuspensionStep

LEMMA AdoptionBenign ==
  ASSUME TypeOK, adp \in [Workers -> AdpFrame], NEW w \in Workers, AdoptionStep(w), UNCHANGED del
  PROVE  Benign
<1>1. CASE Adopt(w)
  <2>. DEFINE orActive(v) == IF v = "none" THEN "ACTIVE" ELSE v
  <2>1. /\ adp[w].tenant \in Tenants
        /\ orActive(adp[w].desired) \in DESIRED_STATUSES /\ orActive(adp[w].status) \in STATUSES
    BY Statuses DEF AdpFrame
  <2>2. row' = [row EXCEPT ![adp[w].tenant] =
                  [Upsert(@, orActive(adp[w].desired), orActive(adp[w].status))
                     EXCEPT !.owner = "control_plane"]]
    BY <1>1 DEF Adopt
  <2>3. UNCHANGED <<k8s, aws, role, del>>
    BY <1>1 DEF Adopt
  <2>. HIDE DEF orActive
  <2>. QED  BY <2>1, <2>2, <2>3, UpsertBenign
<1>2. CASE ~Adopt(w)
  BY <1>2, UntouchedBenign
     DEF AdoptionStep, AdoptionOutputs, Discover, NextId, DescribeSecret, GetRole, GetExisting, world
<1>. QED  BY <1>1, <1>2

\* A change by hand only removes; the Jobs that go with a namespace fail.
DropJobsStand ==
  \A v \in Workers :
    \/ dropjob'[v] = dropjob[v]
    \/ dropjob'[v] = IF dropjob[v].st = "none" THEN dropjob[v]
                     ELSE [dropjob[v] EXCEPT !.st = "failed"]

LEMMA DriftHarmless ==
  ASSUME TypeOK, DriftByHand
  PROVE  Harmless /\ DropJobsStand
<1>1. PICK t \in Targets : \/ /\ k8s' \in {[k8s EXCEPT ![t] = ScaledTo(@, 0)],
                                           [k8s EXCEPT ![t] = WithoutIngress(@)]}
                              /\ UNCHANGED <<dropjob, stray>>
                           \/ RemoveNs(t)
  BY DEF DriftByHand
<1>2. t \in Tenants /\ k8s[t] \in K8sType
  BY ScopeAssumption DEF TypeOK, WorldTypeOK
<1>3. \E k \in K8sType : (k.ns => k8s[t].ns) /\ k8s' = [k8s EXCEPT ![t] = k]
  BY <1>1, <1>2, ScaledStays DEF RemoveNs
<1>4. DropJobsStand
  BY <1>1 DEF RemoveNs, DropJobsStand
<1>. QED  BY <1>2, <1>3, <1>4, ClusterHarmless DEF DriftByHand

-----------------------------------------------------------------------------
(* Every step is one of a deletion, of its pod, or harmless.               *)

LEMMA HandlerBenign ==
  ASSUME TypeOK, req \in [Handlers -> ReqType], NEW h \in Handlers, HandlerStep(h)
  PROVE  Benign /\ dropjob' = dropjob
<1>0. req[h].tenant \in Tenants /\ h \in Workers
  BY WorkersAssumption DEF ReqType
<1>1. CASE UpsertForCreate(h) \/ InsertForDelete(h) \/ UpsertForDelete(h)
  BY <1>0, <1>1, UpsertBenign, Statuses
     DEF UpsertForCreate, InsertForDelete, UpsertForDelete, MarkDeleting, procVars
<1>2. CASE CallInRequest(h)
  BY <1>0, <1>2, CallBenign DEF CallInRequest
<1>3. CASE AnswerRequest(h)
  BY <1>3, LeaveBenign DEF AnswerRequest, world
<1>4. CASE \/ GetForCreate(h) \/ GetForResume(h) \/ GetForDelete(h) \/ CheckInflight(h)
           \/ StartJob(h)
  BY <1>4, UntouchedBenign
     DEF GetForCreate, GetForResume, GetForDelete, CheckInflight, StartJob, world, procVars
<1>. QED  BY <1>1, <1>2, <1>3, <1>4 DEF HandlerStep

LEMMA ThreadBenign ==
  ASSUME TypeOK, job \in [Threads -> JobFrame], NEW j \in Threads, ThreadStep(j)
  PROVE  Benign /\ dropjob' = dropjob
<1>0. job[j].tenant \in Tenants /\ j \in Workers
  BY WorkersAssumption DEF JobFrame
<1>1. CASE RunJob(j)
  BY <1>0, <1>1, CallBenign DEF RunJob
<1>2. CASE DeleteEnds(j) \/ OnboardingEnds(j)
  BY <1>2, LeaveBenign DEF DeleteEnds, OnboardingEnds, world
<1>3. CASE RecordJobFailure(j)
  <2>1. \E d \in DESIRED_STATUSES, s \in STATUSES :
          row' = [row EXCEPT ![job[j].tenant] = Upsert(@, d, s)]
    BY <1>3, Statuses DEF RecordJobFailure
  <2>. QED  BY <1>0, <1>3, <2>1, UpsertBenign DEF RecordJobFailure, procVars
<1>4. CASE CheckRow(j) \/ Discard(j)
  BY <1>4, UntouchedBenign DEF CheckRow, Discard, world, procVars
<1>. QED  BY <1>1, <1>2, <1>3, <1>4 DEF ThreadStep

\* An idle onboarding, reconciliation or migrate Job has no step to take.
LEMMA IdleSteps ==
  /\ \A w : onb[w].pc = "idle" => ~OnboardingStep(w)
  /\ \A w : rec[w].pc = "idle" => ~ReconcileStep(w)
  /\ mig = NoMig => ~MigratePod
<1>1. ASSUME NEW w, onb[w].pc = "idle"  PROVE ~OnboardingStep(w)
  BY <1>1
     DEF OnboardingStep, MarkProvisioning, ReadOutputs, EnsureSecret, EnsureIrsa, RecordIdentity,
         Snapshot, ApplyNs, ClearMigrate, HelmUpgrade, WaitMigrate, ScaleUp, WaitIngress, Activate,
         ProvisionFailed, GetSuspended, Onb
<1>2. ASSUME NEW w, rec[w].pc = "idle"  PROVE ~ReconcileStep(w)
  BY <1>2
     DEF ReconcileStep, ListRows, NextTenant, Absorb, GetDesired, ObserveNs, ObserveDeploy,
         ObserveEdge, RecordObserved, Settle, PurgeRow, CallProcedure, ProcedureReturns,
         ProcedureRaises, RecordProcedureFailure, Rec
<1>3. mig = NoMig => ~MigratePod
  BY DEF MigratePod, MigrateStep, LoadCredentials, CreateRole, MigrateError, MigrateDone,
         MigrateGone, NoMig
<1>. QED  BY <1>1, <1>2, <1>3

LEMMA NextHarmless ==
  ASSUME TypeInv, ApartInv, [CPNext]_cpVars
  PROVE  \/ \E w \in Workers : DeleteStep(w) \/ RunDropJob(w)
         \/ Harmless /\ DropJobsStand /\ ("drift" \notin Faults => Ordered)
<1>0. /\ TypeOK /\ sus \in [Workers -> SusFrame] /\ adp \in [Workers -> AdpFrame]
      /\ req \in [Handlers -> ReqType] /\ job \in [Threads -> JobFrame]
  BY DEF TypeInv, CPTypeOK, SuspensionTypeOK, AdoptionTypeOK
<1>d. dropjob' = dropjob => DropJobsStand
  BY DEF DropJobsStand
<1>1. ASSUME UNCHANGED cpVars  PROVE Benign /\ DropJobsStand
  BY <1>d, <1>1, UntouchedBenign DEF cpVars, world
<1>2. ASSUME NEW h \in Handlers, NEW t \in Targets, NEW op \in Ops, Receive(h, t, op)
      PROVE  Benign /\ DropJobsStand
  BY <1>d, <1>2, UntouchedBenign DEF Receive, world, procVars
<1>3. ASSUME NEW s \in Shells, NEW t \in Targets, NEW op \in Ops, Command(s, t, op)
      PROVE  Benign /\ DropJobsStand
  BY <1>0, <1>d, <1>3, CallBenign, WorkersAssumption, ScopeAssumption DEF Command
<1>4. ASSUME NEW s \in Shells, Exit(s) \/ Interrupt(s)  PROVE Benign /\ DropJobsStand
  BY <1>d, <1>4, LeaveBenign DEF Exit, Interrupt, world
<1>5. ASSUME NEW w \in Workers, Procedure(w), ~DeleteStep(w)  PROVE Benign /\ DropJobsStand
  <2>1. ~OnboardingStep(w) /\ ~ReconcileStep(w)
    BY IdleSteps DEF ApartInv
  <2>. QED  BY <1>0, <1>d, <1>5, <2>1, SuspensionBenign, AdoptionBenign DEF Procedure
<1>6. ASSUME DriftByHand  PROVE Harmless /\ DropJobsStand /\ "drift" \in Faults
  BY <1>0, <1>6, DriftHarmless DEF DriftByHand, Fails
<1>7. ASSUME Restart  PROVE Benign /\ DropJobsStand
  BY <1>d, <1>7, LeaveBenign DEF Restart
<1>8. ~MigratePod
  BY IdleSteps DEF ApartInv
<1>9. ASSUME NEW t \in Tenants, StrayPod(t)  PROVE Benign /\ DropJobsStand
  <2>1. UNCHANGED <<row, k8s, aws, del, dropjob>>
    BY <1>9 DEF StrayPod, RunStrayPod
  <2>2. NothingReturns
    BY <1>0, <1>9, ScriptReturnsNothing DEF StrayPod, RunStrayPod
  <2>3. Ordered
    BY <1>0, <1>9, StrayPodOrdered DEF StrayPod, Ordered
  <2>. QED  BY <1>d, <2>1, <2>2, <2>3 DEF Benign, Harmless
<1>. QED
  BY <1>0, <1>d, <1>1, <1>2, <1>3, <1>4, <1>5, <1>6, <1>7, <1>8, <1>9, HandlerBenign, ThreadBenign
     DEF CPNext, DropPod, Benign

\* Nobody starts what is not asked for.
LEMMA CallStartsNone ==
  ASSUME NothingProvisions, NEW op \in Ops, NEW w, NEW t, Call(w, t, op)
  PROVE  UNCHANGED <<onb, mig, rec>>
BY DEF Call, NothingProvisions

LEMMA NextStartsNone ==
  ASSUME NothingProvisions, TypeInv, ApartInv, [CPNext]_cpVars
  PROVE  /\ \A w \in Workers : onb'[w].pc = "idle" /\ rec'[w].pc = "idle"
         /\ mig' = NoMig
<1>. DEFINE None == \A w \in Workers : onb'[w].pc = "idle" /\ rec'[w].pc = "idle"
<1>0. \A w \in Workers : onb[w].pc = "idle" /\ rec[w].pc = "idle"
  BY DEF ApartInv
<1>1. ASSUME UNCHANGED <<onb, rec>>  PROVE None
  BY <1>0, <1>1
<1>2. ASSUME NEW W, Leave(W)  PROVE None
  BY <1>0, <1>2 DEF Leave, IdleOnb, IdleRec
<1>3. mig = NoMig /\ OpsAsked
  BY DEF ApartInv
<1>4. CASE UNCHANGED cpVars
  BY <1>1, <1>3, <1>4 DEF cpVars
<1>5. ASSUME NEW h \in Handlers, NEW t \in Targets, NEW op \in Ops, Receive(h, t, op)
      PROVE  None /\ mig' = NoMig
  BY <1>1, <1>3, <1>5 DEF Receive, procVars
<1>6. ASSUME NEW h \in Handlers, HandlerStep(h)  PROVE None /\ mig' = NoMig
  <2>1. CASE CallInRequest(h)
    <3>1. req[h].op \in Ops
      BY <1>3, <2>1 DEF CallInRequest, OpsAsked, ReqAt
    <3>. QED  BY <1>1, <1>3, <2>1, <3>1, CallStartsNone DEF CallInRequest
  <2>2. CASE AnswerRequest(h)
    BY <1>2, <1>3, <2>2 DEF AnswerRequest
  <2>3. CASE UNCHANGED procVars
    BY <1>1, <1>3, <2>3 DEF procVars
  <2>. QED
    BY <1>6, <2>1, <2>2, <2>3
       DEF HandlerStep, GetForCreate, UpsertForCreate, GetForResume, GetForDelete, InsertForDelete,
           UpsertForDelete, MarkDeleting, CheckInflight, StartJob
<1>7. ASSUME NEW j \in Threads, ThreadStep(j)  PROVE None /\ mig' = NoMig
  <2>1. CASE RunJob(j)
    <3>1. job[j].op \in Ops
      BY <1>3, <2>1 DEF RunJob, OpsAsked, Busied, JobAt
    <3>. QED  BY <1>1, <1>3, <2>1, <3>1, CallStartsNone DEF RunJob
  <2>2. CASE DeleteEnds(j) \/ OnboardingEnds(j)
    BY <1>2, <1>3, <2>2 DEF DeleteEnds, OnboardingEnds
  <2>3. CASE CheckRow(j) \/ RecordJobFailure(j) \/ Discard(j)
    BY <1>1, <1>3, <2>3 DEF CheckRow, RecordJobFailure, Discard, procVars
  <2>. QED  BY <1>7, <2>1, <2>2, <2>3 DEF ThreadStep
<1>8. ASSUME NEW s \in Shells, NEW t \in Targets, NEW op \in Ops, Command(s, t, op)
      PROVE  None /\ mig' = NoMig
  BY <1>1, <1>3, <1>8, CallStartsNone DEF Command
<1>9. ASSUME NEW s \in Shells, Exit(s) \/ Interrupt(s)  PROVE None /\ mig' = NoMig
  BY <1>2, <1>3, <1>9 DEF Exit, Interrupt
<1>10. ASSUME NEW w \in Workers, Procedure(w) \/ DropPod(w)  PROVE None /\ mig' = NoMig
  <2>1. ~OnboardingStep(w) /\ ~ReconcileStep(w)
    BY IdleSteps DEF ApartInv
  <2>. QED  BY <1>1, <1>3, <1>10, <2>1 DEF Procedure, DropPod
<1>11. ~MigratePod
  BY IdleSteps DEF ApartInv
<1>12. CASE DriftByHand
  BY <1>1, <1>3, <1>12 DEF DriftByHand
<1>13. CASE Restart
  BY <1>2, <1>3, <1>13 DEF Restart
<1>14. CASE \E t \in Tenants : StrayPod(t)
  BY <1>1, <1>3, <1>14 DEF StrayPod
<1>. QED
  BY <1>4, <1>5, <1>6, <1>7, <1>8, <1>9, <1>10, <1>11, <1>12, <1>13, <1>14 DEF CPNext

-----------------------------------------------------------------------------
(* The invariant.                                                          *)

\* So every step keeps the promises.
LEMMA NextPromises ==
  ASSUME TypeInv, ApartInv, [CPNext]_cpVars
  PROVE  PromisesKept'
<1>0. TypeOK /\ PromisesKept
  BY DEF TypeInv, CPTypeOK, ApartInv
<1>1. ASSUME Harmless, DropJobsStand  PROVE PromisesKept'
  <2>1. \A v \in Workers : del'[v].pc = "revoking" => del'[v] = del[v]
    BY <1>1 DEF Harmless
  <2>2. \A v \in Workers : JobKnows(v)'
    BY <1>0, <1>1, <2>1, JobStands DEF PromisesKept, Harmless, DropJobsStand
  <2>. QED  BY <1>0, <1>1, <2>2, HarmlessKeepsPromises
<1>. QED  BY <1>0, <1>1, NextHarmless, StepKeepsPromises, DropJobKeepsPromises

LEMMA InitApart ==
  ASSUME "unrecorded" \notin Origins, CPInit
  PROVE  ApartInv
<1>1. OpsAsked
  BY DEF CPInit, OpsAsked, ReqAt, Busied, NoReq, NoTask
<1>2. (\A w \in Workers : onb[w].pc = "idle" /\ rec[w].pc = "idle") /\ mig = NoMig
  BY DEF CPInit, IdleOnb, IdleRec
<1>3. \A w \in Workers : del[w] = NoFrame /\ dropjob[w] = NoJob
  BY DEF CPInit
<1>4. ASSUME NEW t \in Tenants
      PROVE  Absent(t) \/ Active(t) \/ Suspended(t) \/ Failed(t)
  <2>1. CASE t \in Targets
    BY <2>1, ScopeAssumption DEF CPInit, StartsIn, Situations
  <2>. QED  BY <2>1 DEF CPInit
<1>5. PromisesKept
  BY <1>3, <1>4, StartsKept
<1>. QED  BY <1>1, <1>2, <1>5 DEF ApartInv

(***************************************************************************)
(* From tenants whose identity the registry records, and while nothing is  *)
(* provisioned, resumed or reconciled, the invariant holds in every state. *)
(***************************************************************************)
THEOREM ApartInvHolds ==
  ASSUME NothingProvisions, "unrecorded" \notin Origins
  PROVE  CPSpec => []ApartInv
<1>1. CPInit => ApartInv
  BY InitApart
<1>2. TypeInv /\ ApartInv /\ [CPNext]_cpVars => ApartInv'
  <2> SUFFICES ASSUME TypeInv, ApartInv, [CPNext]_cpVars  PROVE ApartInv'
    OBVIOUS
  <2>1. OpsAsked'
    BY NextOpsAsked DEF TypeInv, CPTypeOK, ApartInv
  <2>. QED  BY <2>1, NextStartsNone, NextPromises DEF ApartInv
<1>. QED  BY <1>1, <1>2, TypeInvHolds, PTL DEF CPSpec

(***************************************************************************)
(* However deletions from the API and the command line, suspensions,       *)
(* adoptions, changes by hand, crashes and restarts interleave, a tenant   *)
(* without a row has no database role and no identity left that the        *)
(* control plane owns.                                                     *)
(***************************************************************************)
THEOREM CPNoOrphansHolds ==
  ASSUME NothingProvisions, "unrecorded" \notin Origins
  PROVE  CPSpec => []NoOrphans
<1>1. ApartInv => NoOrphans
  BY DEF ApartInv, PromisesKept
<1>. QED  BY <1>1, ApartInvHolds, PTL

(***************************************************************************)
(* And from db_revoked on delete_step claims no more than is true (of the  *)
(* namespace, as long as `kubectl get ns` is reliable).  It says nothing   *)
(* of access_disabled, which is recorded though both its calls failed.     *)
(***************************************************************************)
THEOREM CPStepTruthfulHolds ==
  ASSUME NothingProvisions, "unrecorded" \notin Origins
  PROVE  CPSpec => []DeleteStepTruthful
<1>1. ApartInv => DeleteStepTruthful
  BY DEF ApartInv, PromisesKept
<1>. QED  BY <1>1, ApartInvHolds, PTL

(***************************************************************************)
(* The control plane implements the abstract order: beside suspensions,    *)
(* adoptions, interrupts and restarts, deletions release the role, the     *)
(* namespace, the IRSA role, the secret and the row in that order, and     *)
(* only a row ever comes back.                                             *)
(***************************************************************************)
THEOREM CPImplementsOrderHolds ==
  ASSUME NothingProvisions, "unrecorded" \notin Origins, "drift" \notin Faults
  PROVE  CPSpec => ImplementsOrder
<1>1. CPInit => Order!Init
  BY HoldsType DEF Order!Init, Order!TypeOK
<1>2. TypeInv /\ ApartInv /\ [CPNext]_cpVars => [Order!Next]_Holds
  <2> SUFFICES ASSUME TypeInv, ApartInv, [CPNext]_cpVars  PROVE Ordered
    BY DEF Ordered
  <2>0. TypeOK /\ OwnerKnown /\ \A w \in Workers : FrameKnows(w)
    BY DEF TypeInv, CPTypeOK, ApartInv, PromisesKept
  <2>. QED  BY <2>0, NextHarmless, StepOrdered, DropJobOrdered DEF Ordered
<1>. QED
  BY <1>1, <1>2, TypeInvHolds, ApartInvHolds, PTL DEF CPSpec, ImplementsOrder, Order!Spec
=============================================================================
