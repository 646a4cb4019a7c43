--------------------------- MODULE ReadinessProofs ---------------------------
(***************************************************************************)
(* While tenants are created, deleted and resumed by overlapping requests, *)
(* ACTIVE means ready.  For every set of tenants, handlers and threads,    *)
(* with any failures and restarts; what the claim says of database roles   *)
(* takes one tenant, no restarts and no attempt at a revoke that fails     *)
(* while its pod runs on.                                                  *)
(***************************************************************************)
EXTENDS OwnershipProofs

LEMMA OnlyRequests == JobsOnly => RequestsOnly
BY DEF JobsOnly, RequestsOnly, JobKinds

\* Deletions and onboardings under way are of different tenants.
LEMMA Apart ==
  ASSUME JobsOnly, TypeInv, JobFrames, JobsSerialised, NEW w \in Workers
  PROVE  /\ del[w].pc # "idle" =>
              /\ del[w].tenant \in Targets
              /\ \A v \in Workers :
                   /\ onb[v].pc # "idle" => onb[v].tenant # del[w].tenant
                   /\ v # w /\ del[v].pc # "idle" => del[v].tenant # del[w].tenant
         /\ onb[w].pc # "idle" =>
              /\ onb[w].tenant \in Targets
              /\ \A v \in Workers :
                   /\ del[v].pc # "idle" => del[v].tenant # onb[w].tenant
                   /\ v # w /\ onb[v].pc # "idle" => onb[v].tenant # onb[w].tenant
<1>1. \A v \in Workers : del[v].pc # "idle" \/ onb[v].pc # "idle" => v \in Threads /\ Busied(v)
  BY DEF JobFrames, Busied, JobAt
<1>2. \A j \in Threads : Busied(j) => job[j].tenant \in Targets
  BY DEF JobsSerialised, TypeInv, CPTypeOK
<1>3. \A i, j \in Threads : Busied(i) /\ Busied(j) /\ i # j => job[i].tenant # job[j].tenant
  BY DEF JobsSerialised
<1>4. \A v \in Workers : ~(del[v].pc # "idle" /\ onb[v].pc # "idle")
  BY DEF JobFrames
<1>5. \A v \in Workers : /\ del[v].pc # "idle" => del[v].tenant = job[v].tenant
                         /\ onb[v].pc # "idle" => onb[v].tenant = job[v].tenant
  BY DEF JobFrames
<1>. QED  BY <1>1, <1>2, <1>3, <1>4, <1>5

\* So with one tenant there is one of them, or none.
LEMMA OneAtATime ==
  ASSUME JobsOnly, RolesKept, TypeInv, JobFrames, JobsSerialised, NEW w \in Workers
  PROVE  /\ del[w].pc # "idle" =>
              \A v \in Workers : onb[v].pc = "idle" /\ (v # w => del[v].pc = "idle")
         /\ onb[w].pc # "idle" =>
              \A v \in Workers : del[v].pc = "idle" /\ (v # w => onb[v].pc = "idle")
BY Apart DEF RolesKept

\* An upsert leaves the status it is given, whatever else it writes.
LEMMA StatusWritten ==
  ASSUME NEW r \in RowType \cup {NoRow}, NEW d \in DESIRED_STATUSES, NEW s \in STATUSES
  PROVE  /\ Upsert(r, d, s).status = s
         /\ \A o : [Upsert(r, d, s) EXCEPT !.owner = o].status = s
         /\ \A x : /\ [Upsert(r, d, s) EXCEPT !.step = x].status = s
                   /\ UpsertStep(r, s, x).status = s
<1>1. InferredDesired(s) \in DESIRED_STATUSES
  BY DEF InferredDesired, DESIRED_STATUSES, STATUSES
<1>2. Stored(r, s) \in RowType
  BY <1>1 DEF Stored, RowType, Owners, DeleteSteps
<1>. QED  BY <1>2 DEF Upsert, UpsertStep, RowType

-----------------------------------------------------------------------------
(* The part of ReadyInv that is about the world and who works on it.       *)

WorldReady ==
  /\ \A t \in Targets : StatusMeans(t)
  /\ k8s[Platform].ns
  /\ mig.st = "complete" => mig.todo = {}
  /\ \A w \in Workers : DeleteMarks(w) /\ ProvisionKnows(w) /\ ResumeKnows(w)
  /\ RolesKept => stray = NoStrays /\ \A w \in Workers : PodAwaited(w)

\* What is known of a worker stands while its tenant is left alone.
LEMMA LeftAlone ==
  ASSUME JobsOnly, TypeInv, JobFrames, JobsSerialised, WorldReady, NEW v \in Workers
  PROVE  /\ /\ del'[v] = del[v]
            /\ del[v].pc # "idle" => row'[del[v].tenant] = row[del[v].tenant]
            => DeleteMarks(v)'
         /\ /\ onb'[v] = onb[v] /\ (RolesKept => mig' = mig)
            /\ onb[v].pc # "idle" => /\ k8s'[onb[v].tenant] = k8s[onb[v].tenant]
                                     /\ aws'[onb[v].tenant] = aws[onb[v].tenant]
                                     /\ role'[onb[v].tenant] = role[onb[v].tenant]
            => ProvisionKnows(v)' /\ ResumeKnows(v)'
<1>1. DeleteMarks(v) /\ ProvisionKnows(v) /\ ResumeKnows(v)
  BY DEF WorldReady
<1>2. ASSUME del'[v] = del[v], del[v].pc # "idle" => row'[del[v].tenant] = row[del[v].tenant]
      PROVE  DeleteMarks(v)'
  BY <1>1, <1>2 DEF DeleteMarks, TakesApart, Busy, At
<1>3. ASSUME onb'[v] = onb[v], RolesKept => mig' = mig,
             onb[v].pc # "idle" => /\ k8s'[onb[v].tenant] = k8s[onb[v].tenant]
                                   /\ aws'[onb[v].tenant] = aws[onb[v].tenant]
                                   /\ role'[onb[v].tenant] = role[onb[v].tenant]
      PROVE  ProvisionKnows(v)' /\ ResumeKnows(v)'
  <2>1. CASE onb[v].pc = "idle"
    BY <1>3, <2>1 DEF ProvisionKnows, ResumeKnows
  <2>2. CASE onb[v].pc # "idle"
    <3>1. ProvisionKnows(v)'
      BY <1>1, <1>3, <2>2 DEF ProvisionKnows, WillMigrate, Edge
    <3>2. ResumeKnows(v)'
      BY <1>1, <1>3, <2>2 DEF ResumeKnows, Usable, Edge
    <3>. QED  BY <3>1, <3>2
  <2>. QED  BY <2>1, <2>2
<1>. QED  BY <1>2, <1>3

-----------------------------------------------------------------------------
(* Deletions.                                                              *)

\* Whatever delete_tenant writes, it is not ACTIVE or SUSPENDED; and it writes
\* before it takes anything apart.
LEMMA StepMarks ==
  ASSUME TypeOK, NEW w \in Workers, DeleteStep(w), DeleteMarks(w)
  PROVE  row'[del[w].tenant].status \notin {"ACTIVE", "SUSPENDED"}
<1>. DEFINE t == del[w].tenant
<1>0. t \in Tenants /\ row \in [Tenants -> RowType \cup {NoRow}] /\ row[t] \in RowType \cup {NoRow}
  BY DEF TypeOK, WorldTypeOK, FrameType
<1>1. \A d \in DESIRED_STATUSES, s \in STATUSES :
        /\ Upsert(row[t], d, s).status = s
        /\ \A x : /\ [Upsert(row[t], d, s) EXCEPT !.step = x].status = s
                  /\ UpsertStep(row[t], s, x).status = s
  BY <1>0, StatusWritten
<1>2. "GONE" \in DESIRED_STATUSES /\ {"DELETING", "DELETE_FAILED"} \subseteq STATUSES
  BY DEF DESIRED_STATUSES, STATUSES
<1>3. CASE MarkStarted(w) \/ RecordFailure(w)
  <2>1. /\ [Upsert(row[t], "GONE", "DELETING") EXCEPT !.step = "started"].status = "DELETING"
        /\ Upsert(row[t], "GONE", "DELETE_FAILED").status = "DELETE_FAILED"
    BY <1>1, <1>2
  <2>. QED  BY <1>0, <1>3, <2>1 DEF MarkStarted, RecordFailure
<1>4. CASE MarkDisabled(w) \/ MarkRevoked(w) \/ MarkK8s(w) \/ MarkIam(w) \/ MarkSecret(w)
  BY <1>0, <1>1, <1>2, <1>4 DEF Mark, MarkDisabled, MarkRevoked, MarkK8s, MarkIam, MarkSecret
<1>5. CASE Purge(w)
  BY <1>0, <1>5 DEF Purge, NoRow
<1>6. CASE row' = row /\ TakesApart(w)
  BY <1>6 DEF DeleteMarks
<1>7. TakesApart(w) \/ MarkStarted(w)
  BY StepKeepsFrame
     DEF TakesApart, At, DeleteStep, Mark, MarkDisabled, MarkRevoked, MarkK8s, MarkIam, MarkSecret,
         Purge, RecordFailure, Scale, Unroute, TofuOutputs, LaunchDropJob, PollDropJob, Uninstall,
         GetNs, DeleteNs, DeleteIrsa, DeleteSecret
<1>8. \/ row' = row \/ MarkStarted(w) \/ RecordFailure(w) \/ MarkDisabled(w) \/ MarkRevoked(w)
      \/ MarkK8s(w) \/ MarkIam(w) \/ MarkSecret(w) \/ Purge(w)
  BY DEF DeleteStep, Scale, Unroute, TofuOutputs, LaunchDropJob, PollDropJob, Uninstall,
         GetNs, DeleteNs, DeleteIrsa, DeleteSecret
<1>. QED  BY <1>3, <1>4, <1>5, <1>6, <1>7, <1>8

\* A deletion goes on from a revoke only when its pod has ended, or its Job has
\* been deleted.
LEMMA StepAwaits ==
  ASSUME PodsAwaited, TypeOK, NEW w \in Workers, DeleteStep(w), PodAwaited(w),
         del[w].tenant # Platform
  PROVE  PodAwaited(w)' /\ stray' = stray
<1>0. /\ del \in [Workers -> FrameType] /\ dropjob \in [Workers -> JobType]
      /\ del[w] \in FrameType
  BY DEF TypeOK
<1>1. ~Fails("lost_job")
  BY DEF PodsAwaited, Fails
<1>2. ASSUME dropjob'[w].st # "running"  PROVE PodAwaited(w)'
  BY <1>2 DEF PodAwaited
<1>3. CASE LaunchDropJob(w)
  <2>1. dropjob[w].st # "running"
    BY <1>3 DEF LaunchDropJob, PodAwaited, At
  <2>2. CASE CreatesDropJob(w) /\ Goto(w, "revoking")
    <3>1. stray' = stray
      BY <2>1, <2>2 DEF CreatesDropJob
    <3>2. dropjob'[w].tenant = del[w].tenant
      BY <1>0, <2>2 DEF CreatesDropJob
    <3>3. del'[w].pc = "revoking" /\ del'[w].tenant = del[w].tenant
      BY <1>0, <2>2 DEF Goto, FrameType
    <3>. QED  BY <3>1, <3>2, <3>3 DEF PodAwaited, At
  <2>3. CASE UNCHANGED <<dropjob, stray>>
    BY <1>2, <2>1, <2>3
  <2>. QED  BY <1>1, <1>3, <2>2, <2>3 DEF LaunchDropJob
<1>4. CASE PollDropJob(w)
  <2>1. dropjob' = [dropjob EXCEPT ![w] = NoJob] /\ stray' = stray
    BY <1>1, <1>4 DEF PollDropJob
  <2>2. dropjob'[w].st # "running"
    BY <1>0, <2>1 DEF NoJob
  <2>. QED  BY <1>2, <2>1, <2>2
<1>5. CASE ~LaunchDropJob(w) /\ ~PollDropJob(w)
  <2>1. UNCHANGED <<dropjob, stray>> /\ ~At(w, "revoking")
    BY <1>5 DEF DeleteStep, MarkStarted, Mark, MarkDisabled, MarkRevoked, MarkK8s, MarkIam,
                MarkSecret, Purge, RecordFailure, Scale, Unroute, TofuOutputs, Uninstall, GetNs,
                DeleteNs, RemoveNs, DeleteIrsa, DeleteSecret, At
  <2>. QED  BY <1>2, <2>1 DEF PodAwaited
<1>. QED  BY <1>3, <1>4, <1>5

\* A deletion only touches its own tenant; its tenant is not the platform's.
LEMMA StepElsewhere ==
  ASSUME TypeOK, NEW w \in Workers, DeleteStep(w), NEW u \in Tenants, u # del[w].tenant
  PROVE  k8s'[u] = k8s[u] /\ aws'[u] = aws[u] /\ role'[u] = role[u] /\ row'[u] = row[u]
<1>0. /\ del[w].tenant \in Tenants /\ row \in [Tenants -> RowType \cup {NoRow}]
      /\ k8s \in [Tenants -> K8sType] /\ aws \in [Tenants -> AwsType]
  BY DEF TypeOK, WorldTypeOK, FrameType
<1>1. row'[u] = row[u]
  <2>1. CASE Purge(w)
    BY <1>0, <2>1 DEF Purge
  <2>2. CASE \E r \in RowType : Rewrites(w, r)
    BY <1>0, <2>2 DEF Rewrites
  <2>. QED  BY <2>1, <2>2, StepRow
<1>2. CASE Scale(w) \/ Unroute(w) \/ Uninstall(w) \/ DeleteNs(w)
  BY <1>0, <1>1, <1>2 DEF Scale, Unroute, Uninstall, DeleteNs, RemoveNs
<1>3. CASE DeleteIrsa(w) \/ DeleteSecret(w)
  BY <1>0, <1>1, <1>3 DEF DeleteIrsa, DeleteSecret
<1>4. CASE UNCHANGED <<k8s, aws, role>>
  BY <1>1, <1>4
<1>. QED
  BY <1>2, <1>3, <1>4
     DEF DeleteStep, MarkStarted, Mark, MarkDisabled, MarkRevoked, MarkK8s, MarkIam, MarkSecret,
         Purge, RecordFailure, TofuOutputs, LaunchDropJob, PollDropJob, GetNs

LEMMA StepOtherJobs ==
  ASSUME TypeOK, NEW w \in Workers, DeleteStep(w), del[w].tenant # Platform,
         NEW v \in Workers, v # w
  PROVE  dropjob'[v] = dropjob[v]
BY DEF TypeOK, DeleteStep, MarkStarted, Mark, MarkDisabled, MarkRevoked, MarkK8s, MarkIam,
       MarkSecret, Purge, RecordFailure, Scale, Unroute, TofuOutputs, LaunchDropJob, CreatesDropJob,
       PollDropJob, Uninstall, GetNs, DeleteNs, RemoveNs, DeleteIrsa, DeleteSecret

\* A step of a deletion: it has recorded before that the tenant is not ready.
LEMMA DeleteReady ==
  ASSUME JobsOnly, TypeInv, JobFrames, JobsSerialised, WorldReady,
         NEW w \in Workers, DeleteStep(w), UNCHANGED <<onb, mig>>
  PROVE  WorldReady'
<1>. DEFINE t == del[w].tenant
<1>0. /\ TypeOK /\ del[w].pc # "idle" /\ t \in Targets /\ t \in Tenants /\ t # Platform
      /\ \A v \in Workers : /\ onb[v].pc # "idle" => onb[v].tenant \in Tenants \ {t}
                            /\ v # w /\ del[v].pc # "idle" => del[v].tenant \in Tenants \ {t}
  BY StepKeepsFrame, Apart, ScopeAssumption DEF TypeInv, CPTypeOK, JobsOnly, Busy
<1>1. row'[t].status \notin {"ACTIVE", "SUSPENDED"}
  BY <1>0, StepMarks DEF WorldReady
<1>2. ASSUME NEW u \in Targets  PROVE StatusMeans(u)'
  <2>1. CASE u = t
    BY <1>1, <2>1 DEF StatusMeans
  <2>2. CASE u # t
    BY <1>0, <2>2, StepElsewhere, ScopeAssumption DEF WorldReady, StatusMeans, Usable, Edge
  <2>. QED  BY <2>1, <2>2
<1>3. k8s'[Platform].ns
  BY <1>0, StepElsewhere, PlatformAssumption DEF WorldReady
<1>4. ASSUME NEW v \in Workers  PROVE DeleteMarks(v)'
  <2>1. CASE v = w
    <3>1. del'[w].tenant = t
      BY <1>0, StepKeepsFrame
    <3>. QED  BY <1>1, <2>1, <3>1 DEF DeleteMarks
  <2>2. CASE v # w
    BY <1>0, <2>2, OthersKeepFrames, StepElsewhere, LeftAlone
  <2>. QED  BY <2>1, <2>2
<1>5. ASSUME NEW v \in Workers  PROVE ProvisionKnows(v)' /\ ResumeKnows(v)'
  <2>1. onb[v].pc # "idle" => /\ k8s'[onb[v].tenant] = k8s[onb[v].tenant]
                              /\ aws'[onb[v].tenant] = aws[onb[v].tenant]
                              /\ role'[onb[v].tenant] = role[onb[v].tenant]
    BY <1>0, StepElsewhere
  <2>. QED  BY <2>1, LeftAlone
<1>6. ASSUME RolesKept, NEW v \in Workers  PROVE PodAwaited(v)' /\ stray' = NoStrays
  <2>0. PodAwaited(w)' /\ stray' = NoStrays
    BY <1>0, <1>6, StepAwaits DEF WorldReady, RolesKept
  <2>1. CASE v = w
    BY <2>0, <2>1
  <2>2. CASE v # w
    <3>1. del'[v] = del[v] /\ dropjob'[v] = dropjob[v] /\ del[v].pc = "idle"
      BY <1>0, <1>6, <2>2, OthersKeepFrames, StepOtherJobs, OneAtATime
    <3>2. dropjob[v].st # "running"
      BY <1>6, <3>1 DEF WorldReady, PodAwaited, At
    <3>. QED  BY <2>0, <3>1, <3>2 DEF PodAwaited
  <2>. QED  BY <2>1, <2>2
<1>. QED  BY <1>2, <1>3, <1>4, <1>5, <1>6 DEF WorldReady

\* A pod that nobody waits for is one that RolesKept does not allow for.
LEMMA DropPodReady ==
  ASSUME JobsOnly, TypeInv, JobFrames, JobsSerialised, WorldReady,
         NEW w \in Workers, RunDropJob(w), UNCHANGED <<onb, mig>>
  PROVE  WorldReady'
<1>. DEFINE t == del[w].tenant
<1>0. UNCHANGED <<row, k8s, aws, del, stray>> /\ dropjob \in [Workers -> JobType]
  BY DEF RunDropJob, TypeInv, CPTypeOK, TypeOK
<1>1. ASSUME NEW v \in Workers  PROVE DeleteMarks(v)'
  BY <1>0 DEF WorldReady, DeleteMarks, TakesApart, Busy, At
<1>2. CASE ~RolesKept
  <2>1. \A u \in Targets : StatusMeans(u)'
    BY <1>0, <1>2 DEF WorldReady, StatusMeans, Usable, Edge
  <2>2. \A v \in Workers : ProvisionKnows(v)' /\ ResumeKnows(v)'
    BY <1>0, <1>2 DEF WorldReady, ProvisionKnows, ResumeKnows, Usable, Edge
  <2>. QED  BY <1>0, <1>1, <1>2, <2>1, <2>2 DEF WorldReady
<1>3. CASE RolesKept
  <2>1. /\ del[w].pc = "revoking" /\ dropjob[w].tenant = t
        /\ TakesApart(w) /\ row[t].status \notin {"ACTIVE", "SUSPENDED"}
    BY <1>3 DEF RunDropJob, WorldReady, PodAwaited, DeleteMarks, TakesApart, Busy, At
  <2>2. /\ \A u \in Targets : u = t
        /\ \A v \in Workers : onb[v].pc = "idle" /\ (v # w => del[v].pc = "idle")
    BY <1>3, <2>1, Apart, OneAtATime DEF RolesKept
  <2>3. \A u \in Targets : StatusMeans(u)'
    BY <1>0, <2>1, <2>2 DEF StatusMeans
  <2>4. \A v \in Workers : ProvisionKnows(v)' /\ ResumeKnows(v)'
    BY <2>2 DEF ProvisionKnows, ResumeKnows
  <2>5. ASSUME NEW v \in Workers  PROVE PodAwaited(v)'
    <3>1. CASE v # w
      <4>1. dropjob'[v] = dropjob[v] /\ del[v].pc = "idle" /\ dropjob[v].st # "running"
        BY <1>0, <1>3, <2>2, <3>1 DEF RunDropJob, WorldReady, PodAwaited, At
      <4>. QED  BY <4>1 DEF PodAwaited
    <3>2. CASE v = w
      <4>1. dropjob'[w].st \in {"complete", "failed"}
        BY <1>0 DEF RunDropJob, JobType
      <4>. QED  BY <3>2, <4>1 DEF PodAwaited
    <3>. QED  BY <3>1, <3>2
  <2>. QED  BY <1>0, <1>1, <1>3, <2>3, <2>4, <2>5 DEF WorldReady
<1>. QED  BY <1>2, <1>3

\* And RolesKept allows for no pod of an earlier Job.
LEMMA StrayPodReady ==
  ASSUME WorldReady, NEW t \in Tenants, RunStrayPod(t), UNCHANGED <<onb, mig>>
  PROVE  WorldReady'
<1>1. ~RolesKept
  BY DEF WorldReady, RunStrayPod, NoStrays
<1>2. UNCHANGED <<row, k8s, aws, del>>
  BY DEF RunStrayPod
<1>3. \A u \in Targets : StatusMeans(u)'
  BY <1>1, <1>2 DEF WorldReady, StatusMeans, Usable, Edge
<1>4. \A v \in Workers : DeleteMarks(v)'
  BY <1>2 DEF WorldReady, DeleteMarks, TakesApart, Busy, At
<1>5. \A v \in Workers : ProvisionKnows(v)' /\ ResumeKnows(v)'
  BY <1>1, <1>2 DEF WorldReady, ProvisionKnows, ResumeKnows, Usable, Edge
<1>. QED  BY <1>1, <1>2, <1>3, <1>4, <1>5 DEF WorldReady

-----------------------------------------------------------------------------
(* Onboardings.                                                            *)

\* Only where control goes changes, or the onboarding has raised.
LEMMA OnbMovesTo ==
  ASSUME onb \in [Workers -> OnbFrame], NEW w \in Workers
  PROVE  /\ \A label : OnbTo(w, label) =>
              /\ onb'[w].pc = label /\ onb'[w].kind = onb[w].kind
              /\ onb'[w].tenant = onb[w].tenant /\ onb'[w].site = onb[w].site
              /\ onb'[w].map = onb[w].map
         /\ \A kind : OnbRaise(w, kind) =>
              /\ onb'[w].kind = onb[w].kind
              /\ \/ onb'[w].pc = "raised"
                 \/ onb'[w].pc = "except" /\ onb[w].kind = "provision"
BY DEF OnbTo, OnbRaise, OnbFrame

LEMMA OnbRaised ==
  ASSUME onb \in [Workers -> OnbFrame], NEW w \in Workers, NEW kind, OnbRaise(w, kind)
  PROVE  ProvisionKnows(w)' /\ ResumeKnows(w)'
BY OnbMovesTo DEF ProvisionKnows, ResumeKnows

\* What any step of an onboarding takes for granted: nobody else is at work on
\* its tenant, and the procedures take the ways they do.
OnbScene(w, t) ==
  /\ TypeOK /\ onb \in [Workers -> OnbFrame] /\ mig \in MigType
  /\ onb[w].tenant = t /\ t # Platform /\ StatusMeans(t)
  /\ k8s[Platform].ns
  /\ mig.st = "complete" => mig.todo = {}
  /\ ProvisionKnows(w) /\ ResumeKnows(w)

OnbReady(w, t) ==
  /\ StatusMeans(t)'
  /\ k8s'[Platform].ns
  /\ mig'.st = "complete" => mig'.todo = {}
  /\ ProvisionKnows(w)' /\ ResumeKnows(w)'

\* The steps that leave the cluster, AWS and the roles alone.
LEMMA OnbRegistryReady ==
  ASSUME NEW w \in Workers, NEW t \in Tenants, OnbScene(w, t),
         \/ MarkProvisioning(w) \/ ReadOutputs(w) \/ RecordIdentity(w) \/ Snapshot(w)
         \/ WaitMigrate(w) \/ WaitIngress(w) \/ Activate(w) \/ ProvisionFailed(w)
         \/ GetSuspended(w) \/ ClearMigrate(w)
  PROVE  OnbReady(w, t)
<1>0. /\ TypeOK /\ onb \in [Workers -> OnbFrame] /\ onb[w] \in OnbFrame /\ mig \in MigType
      /\ onb[w].tenant = t /\ t # Platform /\ onb[w].kind \in {"provision", "resume"}
      /\ StatusMeans(t) /\ k8s[Platform].ns
      /\ mig.st = "complete" => mig.todo = {}
      /\ ProvisionKnows(w) /\ ResumeKnows(w)
      /\ row \in [Tenants -> RowType \cup {NoRow}]
      /\ UNCHANGED <<k8s, aws, role>>
  BY DEF OnbScene, OnbFrame, OnbKinds, TypeOK, WorldTypeOK, MarkProvisioning, ReadOutputs, RecordIdentity,
         Snapshot, WaitMigrate, WaitIngress, Activate, ProvisionFailed, GetSuspended, ClearMigrate,
         world
<1>1. \A d \in DESIRED_STATUSES, s \in STATUSES :
        /\ Upsert(row[t], d, s).status = s
        /\ [Upsert(row[t], d, s) EXCEPT !.owner = "control_plane"].status = s
  <2>1. row[t] \in RowType \cup {NoRow}
    BY <1>0
  <2>. QED  BY <2>1, StatusWritten
<1>2. /\ "ACTIVE" \in DESIRED_STATUSES
      /\ "PROVISIONING" \in STATUSES /\ "FAILED" \in STATUSES /\ "ACTIVE" \in STATUSES
  BY DEF DESIRED_STATUSES, STATUSES
<1>3. /\ Upsert(row[t], "ACTIVE", "PROVISIONING").status = "PROVISIONING"
      /\ Upsert(row[t], "ACTIVE", "FAILED").status = "FAILED"
      /\ [Upsert(row[t], "ACTIVE", "PROVISIONING") EXCEPT !.owner = "control_plane"].status
           = "PROVISIONING"
      /\ Upsert(row[t], "ACTIVE", "ACTIVE").status = "ACTIVE"
      /\ [Upsert(row[t], "ACTIVE", "ACTIVE") EXCEPT !.owner = "control_plane"].status = "ACTIVE"
  BY <1>1, <1>2
<1>4. ASSUME \/ row'[t].status = row[t].status
             \/ row'[t].status \notin {"ACTIVE", "SUSPENDED"}
             \/ row'[t].status = "ACTIVE" /\ Edge(t) /\ Usable(t)
      PROVE  StatusMeans(t)'
  BY <1>0, <1>4 DEF StatusMeans, Edge, Usable
<1>5. ASSUME mig' = mig \/ mig' = NoMig
      PROVE  k8s'[Platform].ns /\ (mig'.st = "complete" => mig'.todo = {})
  BY <1>0, <1>5 DEF NoMig
<1>6. ASSUME NEW kind, OnbRaise(w, kind)  PROVE ProvisionKnows(w)' /\ ResumeKnows(w)'
  BY <1>0, <1>6, OnbRaised
<1>7. CASE MarkProvisioning(w)
  <2>1. StatusMeans(t)'
    BY <1>0, <1>3, <1>4, <1>7 DEF MarkProvisioning
  <2>2. onb[w].kind = "provision"
    BY <1>0, <1>7 DEF MarkProvisioning, Onb, ResumeKnows
  <2>3. ProvisionKnows(w)' /\ ResumeKnows(w)'
    BY <1>0, <1>7, <2>2, OnbMovesTo DEF MarkProvisioning, ProvisionKnows, ResumeKnows
  <2>. QED  BY <1>5, <1>7, <2>1, <2>3 DEF MarkProvisioning, OnbReady
<1>8. CASE ReadOutputs(w)
  <2>1. StatusMeans(t)'
    BY <1>4, <1>8 DEF ReadOutputs
  <2>2. ProvisionKnows(w)' /\ ResumeKnows(w)'
    <3>1. CASE OnbTo(w, IF onb[w].kind = "provision" THEN "secret" ELSE "snapshot")
      BY <1>0, <1>8, <3>1, OnbMovesTo DEF ReadOutputs, Onb, ProvisionKnows, ResumeKnows, Usable
    <3>. QED  BY <1>6, <1>8, <3>1 DEF ReadOutputs
  <2>. QED  BY <1>5, <1>8, <2>1, <2>2 DEF ReadOutputs, OnbReady
<1>9. CASE RecordIdentity(w)
  <2>1. StatusMeans(t)'
    BY <1>0, <1>3, <1>4, <1>9 DEF RecordIdentity
  <2>2. onb[w].kind = "provision" /\ aws[t] = FullAws
    BY <1>0, <1>9 DEF RecordIdentity, Onb, ResumeKnows, ProvisionKnows
  <2>3. ProvisionKnows(w)' /\ ResumeKnows(w)'
    BY <1>0, <1>9, <2>2, OnbMovesTo DEF RecordIdentity, ProvisionKnows, ResumeKnows
  <2>. QED  BY <1>5, <1>9, <2>1, <2>3 DEF RecordIdentity, OnbReady
<1>10. CASE Snapshot(w)
  <2>1. StatusMeans(t)'
    BY <1>4, <1>10 DEF Snapshot
  <2>2. ProvisionKnows(w)' /\ ResumeKnows(w)'
    <3>1. ASSUME NEW m \in SUBSET Tenants, t \in m,
                 onb' = [onb EXCEPT ![w].pc = "ns", ![w].map = m,
                                    ![w].site = IF onb[w].kind = "provision" THEN Platform ELSE t]
          PROVE  ProvisionKnows(w)' /\ ResumeKnows(w)'
      <4>1. /\ onb'[w].pc = "ns" /\ onb'[w].kind = onb[w].kind /\ onb'[w].tenant = t
            /\ onb'[w].map = m
            /\ onb'[w].site = IF onb[w].kind = "provision" THEN Platform ELSE t
        BY <1>0, <3>1 DEF OnbFrame
      <4>2. CASE onb[w].kind = "provision"
        <5>1. aws'[t] = FullAws
          BY <1>0, <1>10, <4>2 DEF Snapshot, Onb, ProvisionKnows
        <5>. QED  BY <1>0, <3>1, <4>1, <4>2, <5>1 DEF ProvisionKnows, ResumeKnows
      <4>3. CASE onb[w].kind = "resume"
        <5>1. Usable(t)'
          BY <1>0, <1>10, <4>3 DEF Snapshot, Onb, ResumeKnows, Usable
        <5>. QED  BY <1>0, <4>1, <4>3, <5>1 DEF ProvisionKnows, ResumeKnows
      <4>. QED  BY <1>0, <4>2, <4>3
    <3>. DEFINE m == TofuTenants \cup Recorded \cup (IF onb[w].kind = "provision" THEN {t} ELSE {})
    <3>2. m \in SUBSET Tenants
      BY <1>0, TofuAssumption DEF Recorded
    <3>3. \/ /\ t \in m
             /\ onb' = [onb EXCEPT ![w].pc = "ns", ![w].map = m,
                                   ![w].site = IF onb[w].kind = "provision" THEN Platform ELSE t]
          \/ OnbRaise(w, "other")
      BY <1>0, <1>10, Zenon DEF Snapshot
    <3>. QED
      <4>. HIDE DEF m
      <4>. QED  BY <1>6, <3>1, <3>2, <3>3
  <2>. QED  BY <1>5, <1>10, <2>1, <2>2 DEF Snapshot, OnbReady
<1>11. CASE WaitMigrate(w)
  <2>1. StatusMeans(t)'
    BY <1>4, <1>11 DEF WaitMigrate
  <2>2. onb[w].kind = "provision" /\ onb[w].site = Platform
    BY <1>0, <1>11 DEF WaitMigrate, Onb, ResumeKnows, ProvisionKnows
  <2>3. ProvisionKnows(w)' /\ ResumeKnows(w)'
    <3>1. CASE /\ mig.st = "complete"
               /\ onb' = [onb EXCEPT ![w].pc = "ns", ![w].site = t]
      <4>1. /\ onb'[w].pc = "ns" /\ onb'[w].kind = "provision" /\ onb'[w].tenant = t
            /\ onb'[w].map = onb[w].map /\ onb'[w].site = t
        BY <1>0, <2>2, <3>1 DEF OnbFrame
      <4>2. aws[t] = FullAws /\ t \in onb[w].map /\ (RolesKept => role[t] # "none")
        BY <1>0, <1>11, <2>2, <3>1 DEF WaitMigrate, Onb, ProvisionKnows, WillMigrate, NoMig
      <4>. QED  BY <1>0, <4>1, <4>2 DEF ProvisionKnows, ResumeKnows
    <3>. QED  BY <1>0, <1>6, <1>11, <2>2, <3>1 DEF WaitMigrate
  <2>. QED  BY <1>5, <1>11, <2>1, <2>3 DEF WaitMigrate, OnbReady
<1>12. CASE WaitIngress(w)
  <2>1. StatusMeans(t)'
    BY <1>4, <1>12 DEF WaitIngress
  <2>2. ProvisionKnows(w)' /\ ResumeKnows(w)'
    <3>1. CASE OnbTo(w, "activate")
      BY <1>0, <1>12, <3>1, OnbMovesTo
         DEF WaitIngress, Onb, ProvisionKnows, ResumeKnows, Usable, Edge
    <3>. QED  BY <1>6, <1>12, <3>1 DEF WaitIngress
  <2>. QED  BY <1>5, <1>12, <2>1, <2>2 DEF WaitIngress, OnbReady
<1>13. CASE Activate(w)
  <2>1. Edge(t) /\ Usable(t)
    BY <1>0, <1>13 DEF Activate, Onb, ProvisionKnows, ResumeKnows, Usable
  <2>2. StatusMeans(t)'
    BY <1>0, <1>3, <1>4, <1>13, <2>1 DEF Activate
  <2>3. ProvisionKnows(w)' /\ ResumeKnows(w)'
    BY <1>0, <1>13, OnbMovesTo DEF Activate, ProvisionKnows, ResumeKnows
  <2>. QED  BY <1>5, <1>13, <2>2, <2>3 DEF Activate, OnbReady
<1>14. CASE ProvisionFailed(w)
  <2>1. StatusMeans(t)'
    BY <1>0, <1>3, <1>4, <1>14 DEF ProvisionFailed
  <2>2. onb'[w].pc = "raised"
    BY <1>0, <1>14 DEF ProvisionFailed
  <2>3. ProvisionKnows(w)' /\ ResumeKnows(w)'
    BY <2>2 DEF ProvisionKnows, ResumeKnows
  <2>. QED  BY <1>5, <1>14, <2>1, <2>3 DEF ProvisionFailed, OnbReady
<1>15. CASE GetSuspended(w)
  <2>1. StatusMeans(t)'
    BY <1>4, <1>15 DEF GetSuspended, world
  <2>2. onb[w].kind = "resume"
    BY <1>0, <1>15 DEF GetSuspended, Onb, ProvisionKnows
  <2>3. ProvisionKnows(w)' /\ ResumeKnows(w)'
    <3>1. CASE row[t].status = "SUSPENDED" /\ OnbTo(w, "outputs")
      <4>1. Usable(t)'
        BY <1>0, <3>1 DEF StatusMeans, Usable
      <4>2. onb'[w].pc = "outputs" /\ onb'[w].kind = "resume" /\ onb'[w].tenant = t
        BY <1>0, <2>2, <3>1, OnbMovesTo
      <4>. QED  BY <4>1, <4>2 DEF ProvisionKnows, ResumeKnows
    <3>2. CASE OnbTo(w, "returned")
      BY <1>0, <2>2, <3>2, OnbMovesTo DEF ProvisionKnows, ResumeKnows
    <3>. QED  BY <1>0, <1>6, <1>15, <3>1, <3>2 DEF GetSuspended
  <2>. QED  BY <1>5, <1>15, <2>1, <2>3 DEF GetSuspended, OnbReady
<1>16. CASE ClearMigrate(w)
  <2>1. StatusMeans(t)'
    BY <1>4, <1>16 DEF ClearMigrate
  <2>2. onb[w].kind = "provision" /\ onb[w].site = Platform
    BY <1>0, <1>16 DEF ClearMigrate, Onb, ResumeKnows, ProvisionKnows
  <2>3. ProvisionKnows(w)' /\ ResumeKnows(w)'
    <3>1. CASE mig' = NoMig /\ OnbTo(w, "helm")
      BY <1>0, <1>16, <2>2, <3>1, OnbMovesTo DEF ClearMigrate, Onb, ProvisionKnows, ResumeKnows
    <3>. QED  BY <1>6, <1>16, <3>1 DEF ClearMigrate
  <2>. QED  BY <1>5, <1>16, <2>1, <2>3 DEF ClearMigrate, OnbReady
<1>. QED
  BY <1>7, <1>8, <1>9, <1>10, <1>11, <1>12, <1>13, <1>14, <1>15, <1>16

\* The steps that create the identity.
LEMMA OnbIdentityReady ==
  ASSUME NEW w \in Workers, NEW t \in Tenants, OnbScene(w, t), EnsureSecret(w) \/ EnsureIrsa(w)
  PROVE  OnbReady(w, t)
<1>0. /\ onb \in [Workers -> OnbFrame] /\ aws \in [Tenants -> AwsType] /\ aws[t] \in AwsType
      /\ onb[w].tenant = t /\ StatusMeans(t) /\ k8s[Platform].ns
      /\ mig.st = "complete" => mig.todo = {}
      /\ ProvisionKnows(w) /\ ResumeKnows(w)
      /\ UNCHANGED <<row, k8s, role, mig>>
  BY DEF OnbScene, TypeOK, WorldTypeOK, EnsureSecret, EnsureIrsa
<1>1. onb[w].kind = "provision"
  BY <1>0 DEF EnsureSecret, EnsureIrsa, Onb, ResumeKnows, OnbFrame, OnbKinds
<1>2. aws[t] = FullAws => aws'[t] = FullAws
  <2>1. \/ aws' = aws
        \/ aws' = [aws EXCEPT ![t].secret = "live"]
        \/ aws' = [aws EXCEPT ![t].irsa = TRUE]
        \/ aws[t].secret = "scheduled"
    BY <1>0 DEF EnsureSecret, EnsureIrsa
  <2>2. \/ aws'[t] = aws[t]
        \/ aws'[t] = [aws[t] EXCEPT !.secret = "live"]
        \/ aws'[t] = [aws[t] EXCEPT !.irsa = TRUE]
        \/ aws[t].secret = "scheduled"
    BY <1>0, <2>1
  <2>3. \A x \in AwsType : x = FullAws <=> x.secret = "live" /\ x.irsa = TRUE
    BY DEF AwsType, FullAws
  <2>4. \A x \in AwsType : x = FullAws => /\ [x EXCEPT !.secret = "live"] = FullAws
                                          /\ [x EXCEPT !.irsa = TRUE] = FullAws
    BY <2>3 DEF AwsType
  <2>. QED  BY <1>0, <2>2, <2>3, <2>4
<1>3. StatusMeans(t)'
  BY <1>0, <1>2 DEF StatusMeans, Usable, Edge
<1>4. ASSUME IdentityFails(w)  PROVE ProvisionKnows(w)' /\ ResumeKnows(w)'
  <2>1. CASE OnbTo(w, "secret")
    BY <1>0, <1>1, <2>1, OnbMovesTo DEF ProvisionKnows, ResumeKnows
  <2>. QED  BY <1>0, <1>4, <2>1, OnbRaised DEF IdentityFails
<1>5. CASE EnsureSecret(w)
  <2>1. ASSUME aws' = [aws EXCEPT ![t].secret = "live"], OnbTo(w, "irsa")
        PROVE  ProvisionKnows(w)' /\ ResumeKnows(w)'
    <3>1. aws'[t].secret = "live"
      BY <1>0, <2>1 DEF AwsType
    <3>. QED  BY <1>0, <1>1, <2>1, <3>1, OnbMovesTo DEF ProvisionKnows, ResumeKnows
  <2>. QED  BY <1>0, <1>3, <1>4, <1>5, <2>1 DEF EnsureSecret, OnbReady
<1>6. CASE EnsureIrsa(w)
  <2>1. ASSUME aws' = [aws EXCEPT ![t].irsa = TRUE], OnbTo(w, "record")
        PROVE  ProvisionKnows(w)' /\ ResumeKnows(w)'
    <3>1. aws[t].secret = "live"
      BY <1>0, <1>1, <1>6 DEF EnsureIrsa, Onb, ProvisionKnows
    <3>2. aws'[t] = FullAws
      BY <1>0, <2>1, <3>1 DEF AwsType, FullAws
    <3>. QED  BY <1>0, <1>1, <2>1, <3>2, OnbMovesTo DEF ProvisionKnows, ResumeKnows
  <2>. QED  BY <1>0, <1>3, <1>4, <1>6, <2>1 DEF EnsureIrsa, OnbReady
<1>. QED  BY <1>5, <1>6

\* The steps that work on the cluster.
LEMMA OnbClusterReady ==
  ASSUME NEW w \in Workers, NEW t \in Tenants, OnbScene(w, t),
         ApplyNs(w) \/ HelmUpgrade(w) \/ ScaleUp(w)
  PROVE  OnbReady(w, t)
<1>0. /\ onb \in [Workers -> OnbFrame] /\ onb[w].site \in Tenants
      /\ k8s \in [Tenants -> K8sType] /\ mig \in MigType
      /\ onb[w].tenant = t /\ t # Platform /\ onb[w].kind \in {"provision", "resume"}
      /\ StatusMeans(t) /\ k8s[Platform].ns
      /\ mig.st = "complete" => mig.todo = {}
      /\ ProvisionKnows(w) /\ ResumeKnows(w)
      /\ UNCHANGED <<row, aws, role>>
  BY DEF OnbScene, OnbFrame, OnbKinds, TypeOK, WorldTypeOK, ApplyNs, HelmUpgrade, ScaleUp
<1>1. ASSUME NEW s \in Tenants,
             \/ k8s' = k8s
             \/ k8s' = [k8s EXCEPT ![s].ns = TRUE]
             \/ \E i \in BOOLEAN : k8s' = [k8s EXCEPT ![s] = Installed(@, i)]
             \/ k8s' = [k8s EXCEPT ![s] = ScaledTo(@, 1)]
      PROVE  /\ StatusMeans(t)' /\ k8s'[Platform].ns
             /\ Edge(t) => Edge(t)'
  <2>1. k8s[t] \in K8sType /\ k8s[Platform] \in K8sType
    BY <1>0, PlatformAssumption
  <2>4. ASSUME NEW u \in Tenants
        PROVE  \/ k8s'[u] = k8s[u]
               \/ k8s'[u] = [k8s[u] EXCEPT !.ns = TRUE]
               \/ \E i \in BOOLEAN : k8s'[u] = Installed(k8s[u], i)
               \/ k8s'[u] = ScaledTo(k8s[u], 1)
    BY <1>0, <1>1
  <2>2. Edge(t) => Edge(t)'
    BY <2>1, <2>4 DEF Edge, Installed, ScaledTo, K8sType
  <2>3. k8s'[Platform].ns
    BY <1>0, <2>1, <2>4, PlatformAssumption DEF Installed, ScaledTo, K8sType
  <2>. QED  BY <1>0, <2>2, <2>3 DEF StatusMeans, Usable
<1>2. ASSUME NEW kind, OnbRaise(w, kind)  PROVE ProvisionKnows(w)' /\ ResumeKnows(w)'
  BY <1>0, <1>2, OnbRaised
<1>3. StartsMigrate(w) => \/ mig' = mig
                          \/ /\ onb[w].site = Platform /\ mig' = NewMig(onb[w].map)
  BY DEF StartsMigrate
<1>4. ASSUME StartsMigrate(w) \/ UNCHANGED mig  PROVE mig'.st = "complete" => mig'.todo = {}
  BY <1>0, <1>3, <1>4 DEF NewMig
<1>5. CASE ApplyNs(w)
  <2>1. StatusMeans(t)' /\ k8s'[Platform].ns /\ (Edge(t) => Edge(t)')
    BY <1>0, <1>1, <1>5 DEF ApplyNs
  <2>2. ASSUME OnbTo(w, IF onb[w].site = Platform THEN "clear" ELSE "helm")
        PROVE  ProvisionKnows(w)' /\ ResumeKnows(w)'
    <3>. DEFINE label == IF onb[w].site = Platform THEN "clear" ELSE "helm"
    <3>1. /\ onb'[w].pc = label /\ onb'[w].kind = onb[w].kind /\ onb'[w].tenant = t
          /\ onb'[w].site = onb[w].site /\ onb'[w].map = onb[w].map
      BY <1>0, <2>2, OnbMovesTo
    <3>2. CASE onb[w].kind = "provision"
      <4>1. /\ aws[t] = FullAws /\ t \in onb[w].map /\ onb[w].site \in {Platform, t}
            /\ RolesKept /\ onb[w].site = t => role[t] # "none"
        BY <1>0, <1>5, <3>2 DEF ApplyNs, Onb, ProvisionKnows
      <4>2. ProvisionKnows(w)'
        BY <1>0, <3>1, <3>2, <4>1 DEF ProvisionKnows
      <4>. QED  BY <3>1, <3>2, <4>2 DEF ResumeKnows
    <3>3. CASE onb[w].kind = "resume"
      <4>1. Usable(t)' /\ onb[w].site = t
        BY <1>0, <1>5, <3>3 DEF ApplyNs, Onb, ResumeKnows, Usable
      <4>2. ResumeKnows(w)'
        BY <1>0, <3>1, <3>3, <4>1 DEF ResumeKnows
      <4>. QED  BY <3>1, <3>3, <4>2 DEF ProvisionKnows
    <3>. QED  BY <1>0, <3>2, <3>3
  <2>. QED  BY <1>2, <1>4, <1>5, <2>1, <2>2 DEF ApplyNs, OnbReady
<1>6. CASE HelmUpgrade(w)
  <2>1. StatusMeans(t)' /\ k8s'[Platform].ns
    BY <1>0, <1>1, <1>6 DEF HelmUpgrade
  <2>2. ASSUME StartsMigrate(w),
               k8s' = [k8s EXCEPT ![onb[w].site] = Installed(@, TRUE)],
               OnbTo(w, IF onb[w].site = Platform THEN "wait" ELSE
                        IF onb[w].kind = "provision" THEN "edge" ELSE "scale")
        PROVE  ProvisionKnows(w)' /\ ResumeKnows(w)'
    <3>. DEFINE label == IF onb[w].site = Platform THEN "wait" ELSE
                         IF onb[w].kind = "provision" THEN "edge" ELSE "scale"
    <3>1. /\ onb'[w].pc = label /\ onb'[w].kind = onb[w].kind /\ onb'[w].tenant = t
          /\ onb'[w].site = onb[w].site /\ onb'[w].map = onb[w].map
      BY <1>0, <2>2, OnbMovesTo
    <3>2. onb[w].site = t => Edge(t)'
      BY <1>0, <2>2 DEF Edge, Installed, K8sType
    <3>3. CASE onb[w].kind = "provision"
      <4>1. /\ aws[t] = FullAws /\ t \in onb[w].map /\ onb[w].site \in {Platform, t}
            /\ RolesKept /\ onb[w].site = t => role[t] # "none"
            /\ RolesKept /\ onb[w].site = Platform => mig = NoMig
        BY <1>0, <1>6, <3>3 DEF HelmUpgrade, Onb, ProvisionKnows
      <4>2. RolesKept /\ onb[w].site = Platform => WillMigrate(t)'
        BY <1>0, <2>2, <4>1 DEF StartsMigrate, NewMig, NoMig, WillMigrate
      <4>3. ProvisionKnows(w)'
        BY <1>0, <3>1, <3>2, <3>3, <4>1, <4>2 DEF ProvisionKnows
      <4>. QED  BY <3>1, <3>3, <4>3 DEF ResumeKnows
    <3>4. CASE onb[w].kind = "resume"
      <4>1. Usable(t)' /\ onb[w].site = t
        BY <1>0, <1>6, <3>4 DEF HelmUpgrade, Onb, ResumeKnows, Usable
      <4>2. ResumeKnows(w)'
        BY <1>0, <3>1, <3>2, <3>4, <4>1 DEF ResumeKnows
      <4>. QED  BY <3>1, <3>4, <4>2 DEF ProvisionKnows
    <3>. QED  BY <1>0, <3>3, <3>4
  <2>3. StartsMigrate(w) \/ UNCHANGED mig
    BY <1>6 DEF HelmUpgrade
  <2>4. ProvisionKnows(w)' /\ ResumeKnows(w)'
    BY <1>2, <1>6, <2>2 DEF HelmUpgrade
  <2>. QED  BY <1>4, <2>1, <2>3, <2>4 DEF OnbReady
<1>7. CASE ScaleUp(w)
  <2>1. StatusMeans(t)' /\ k8s'[Platform].ns /\ (Edge(t) => Edge(t)')
    BY <1>0, <1>1, <1>7 DEF ScaleUp
  <2>2. ASSUME OnbTo(w, "edge")
        PROVE  ProvisionKnows(w)' /\ ResumeKnows(w)'
    <3>1. /\ onb'[w].pc = "edge" /\ onb'[w].kind = onb[w].kind /\ onb'[w].tenant = t
      BY <1>0, <2>2, OnbMovesTo
    <3>2. onb[w].kind = "resume" /\ Usable(t)' /\ Edge(t)
      BY <1>0, <1>7 DEF ScaleUp, Onb, ProvisionKnows, ResumeKnows, Usable
    <3>. QED  BY <2>1, <3>1, <3>2 DEF ProvisionKnows, ResumeKnows
  <2>3. UNCHANGED mig
    BY <1>7 DEF ScaleUp
  <2>4. ProvisionKnows(w)' /\ ResumeKnows(w)'
    BY <1>2, <1>7, <2>2 DEF ScaleUp
  <2>. QED  BY <1>4, <2>1, <2>3, <2>4 DEF OnbReady
<1>. QED  BY <1>5, <1>6, <1>7

\* An onboarding works on its own tenant and on the platform's.
LEMMA OnbElsewhere ==
  ASSUME TypeOK, onb \in [Workers -> OnbFrame], NEW w \in Workers, OnboardingStep(w),
         NEW u \in Tenants, u \notin {onb[w].tenant, onb[w].site}
  PROVE  row'[u] = row[u] /\ k8s'[u] = k8s[u] /\ aws'[u] = aws[u] /\ role'[u] = role[u]
<1>0. /\ row \in [Tenants -> RowType \cup {NoRow}]
      /\ k8s \in [Tenants -> K8sType] /\ aws \in [Tenants -> AwsType]
  BY DEF TypeOK, WorldTypeOK
<1>1. CASE MarkProvisioning(w) \/ RecordIdentity(w) \/ Activate(w) \/ ProvisionFailed(w)
  BY <1>0, <1>1 DEF MarkProvisioning, RecordIdentity, Activate, ProvisionFailed
<1>2. CASE EnsureSecret(w) \/ EnsureIrsa(w)
  BY <1>0, <1>2 DEF EnsureSecret, EnsureIrsa
<1>3. CASE ApplyNs(w) \/ HelmUpgrade(w) \/ ScaleUp(w)
  BY <1>0, <1>3 DEF ApplyNs, HelmUpgrade, ScaleUp
<1>4. CASE ReadOutputs(w) \/ Snapshot(w) \/ ClearMigrate(w) \/ WaitMigrate(w) \/ WaitIngress(w)
           \/ GetSuspended(w)
  BY <1>4 DEF ReadOutputs, Snapshot, ClearMigrate, WaitMigrate, WaitIngress, GetSuspended, world
<1>. QED  BY <1>1, <1>2, <1>3, <1>4 DEF OnboardingStep

\* A step of an onboarding: it knows what its last write will claim.
LEMMA OnbStepReady ==
  ASSUME JobsOnly, TypeInv, JobFrames, JobsSerialised, WorldReady,
         NEW w \in Workers, OnboardingStep(w), UNCHANGED <<del, dropjob, stray>>
  PROVE  WorldReady'
<1>. DEFINE t == onb[w].tenant
<1>0. /\ TypeOK /\ onb \in [Workers -> OnbFrame] /\ mig \in MigType
  BY DEF TypeInv, CPTypeOK, OnboardingTypeOK
<1>1. /\ onb[w].pc # "idle" /\ onb[w].site \in {Platform, t}
      /\ \A v \in Workers \ {w} : onb'[v] = onb[v]
  BY <1>0, OnbKeepsFrame DEF JobFrames
<1>2. /\ t \in Targets /\ t \in Tenants /\ t # Platform
      /\ \A v \in Workers : /\ del[v].pc # "idle" => del[v].tenant \in Targets \ {t}
                            /\ v # w /\ onb[v].pc # "idle" => onb[v].tenant \in Targets \ {t}
  BY <1>1, Apart, ScopeAssumption DEF JobsOnly
<1>3. \A u \in Targets \ {t} :
        row'[u] = row[u] /\ k8s'[u] = k8s[u] /\ aws'[u] = aws[u] /\ role'[u] = role[u]
  BY <1>0, <1>1, OnbElsewhere, ScopeAssumption DEF JobsOnly
<1>4. PICK u \in Tenants : u = t
  BY <1>2
<1>5. OnbScene(w, u)
  BY <1>0, <1>2, <1>4 DEF OnbScene, WorldReady
<1>6. OnbReady(w, u)
  BY <1>5, OnbRegistryReady, OnbIdentityReady, OnbClusterReady DEF OnboardingStep
<1>7. ASSUME NEW v \in Workers  PROVE DeleteMarks(v)'
  BY <1>2, <1>3, LeftAlone
<1>8. ASSUME NEW v \in Workers  PROVE ProvisionKnows(v)' /\ ResumeKnows(v)'
  <2>1. CASE v = w
    BY <1>6, <2>1 DEF OnbReady
  <2>2. CASE v # w /\ onb[v].pc = "idle"
    BY <1>1, <2>2 DEF ProvisionKnows, ResumeKnows
  <2>3. CASE v # w /\ onb[v].pc # "idle"
    <3>1. ~RolesKept
      BY <1>1, <2>3, OneAtATime
    <3>. QED  BY <1>1, <1>2, <1>3, <2>3, <3>1, LeftAlone
  <2>. QED  BY <2>1, <2>2, <2>3
<1>9. ASSUME RolesKept, NEW v \in Workers  PROVE PodAwaited(v)'
  <2>1. del[v].pc = "idle" /\ dropjob[v].st # "running"
    BY <1>1, <1>9, OneAtATime DEF WorldReady, PodAwaited, At
  <2>. QED  BY <2>1 DEF PodAwaited
<1>10. ASSUME NEW x \in Targets  PROVE StatusMeans(x)'
  <2>1. CASE x = t
    BY <1>4, <1>6, <2>1 DEF OnbReady
  <2>2. CASE x # t
    BY <1>3, <2>2 DEF WorldReady, StatusMeans, Usable, Edge
  <2>. QED  BY <2>1, <2>2
<1>. QED  BY <1>6, <1>7, <1>8, <1>9, <1>10 DEF WorldReady, OnbReady

\* The migrate Job's pod only ever creates roles.
LEMMA MigrateReady ==
  ASSUME TypeInv, WorldReady, MigrateStep, UNCHANGED <<del, dropjob, stray>>
  PROVE  WorldReady'
<1>0. /\ mig \in MigType /\ role \in [Tenants -> RoleType] /\ onb \in [Workers -> OnbFrame]
  BY DEF TypeInv, CPTypeOK, TypeOK, WorldTypeOK, OnboardingTypeOK
<1>1. UNCHANGED <<row, k8s, aws, onb>> /\ mig # NoMig
  <2>1. UNCHANGED <<row, k8s, aws, onb>>
    BY DEF MigrateStep, LoadCredentials, CreateRole, MigrateError, MigrateDone, MigrateGone, world
  <2>3. mig.st = "running" \/ mig # NoMig
    BY DEF MigrateStep, LoadCredentials, CreateRole, MigrateError, MigrateDone, MigrateGone
  <2>. QED  BY <2>1, <2>3 DEF NoMig
<1>2. \A t \in Tenants : role[t] # "none" => role'[t] # "none"
  <2>1. CASE CreateRole
    <3>1. PICK u \in mig.held : role' = [role EXCEPT ![u] = IF @ = "none" THEN "login" ELSE @]
      BY <2>1 DEF CreateRole
    <3>. QED  BY <1>0, <3>1
  <2>. QED
    BY <2>1 DEF MigrateStep, LoadCredentials, MigrateError, MigrateDone, MigrateGone, world
<1>3. mig'.st = "complete" => mig'.todo = {}
  <2>1. CASE LoadCredentials \/ CreateRole
    <3>1. mig.st = "running" /\ mig'.st \in {"running", "failed"}
      BY <1>0, <2>1 DEF LoadCredentials, CreateRole, MigType
    <3>. QED  BY <3>1
  <2>2. CASE MigrateError
    <3>1. \/ mig' = [st |-> "running", map |-> mig.map, todo |-> mig.map, held |-> {}]
          \/ mig' = [mig EXCEPT !.st = "failed", !.held = {}]
      BY <2>2 DEF MigrateError, NewMig
    <3>2. CASE mig' = [mig EXCEPT !.st = "failed", !.held = {}]
      <4>1. mig'.st = "failed"
        BY <1>0, <3>2 DEF MigType
      <4>. QED  BY <4>1
    <3>. QED  BY <3>1, <3>2
  <2>3. CASE MigrateDone
    BY <1>0, <2>3 DEF MigrateDone, MigType
  <2>4. CASE MigrateGone
    BY <2>4 DEF MigrateGone, NoMig
  <2>. QED  BY <2>1, <2>2, <2>3, <2>4 DEF MigrateStep
<1>4. ASSUME NEW t \in Tenants, WillMigrate(t)  PROVE mig' = NoMig \/ WillMigrate(t)'
  <2>1. CASE CreateRole
    <3>1. PICK u \in mig.held : /\ role' = [role EXCEPT ![u] = IF @ = "none" THEN "login" ELSE @]
                                /\ mig' = [mig EXCEPT !.held = {}, !.todo = @ \ {u}]
      BY <2>1 DEF CreateRole
    <3>2. mig'.map = mig.map /\ mig'.todo = mig.todo \ {u}
      BY <1>0, <3>1 DEF MigType
    <3>3. t = u => role'[t] # "none"
      BY <1>0, <3>1
    <3>. QED  BY <1>2, <1>4, <3>2, <3>3 DEF WillMigrate
  <2>2. CASE LoadCredentials \/ MigrateDone
    <3>1. mig'.map = mig.map /\ mig'.todo = mig.todo
      BY <1>0, <2>2 DEF LoadCredentials, MigrateDone, MigType
    <3>. QED  BY <1>2, <1>4, <3>1 DEF WillMigrate
  <2>3. CASE MigrateError
    <3>1. \/ mig' = [st |-> "running", map |-> mig.map, todo |-> mig.map, held |-> {}]
          \/ mig' = [mig EXCEPT !.st = "failed", !.held = {}]
      BY <2>3 DEF MigrateError, NewMig
    <3>2. mig'.map = mig.map /\ (mig'.todo = mig.map \/ mig'.todo = mig.todo)
      <4>1. CASE mig' = [mig EXCEPT !.st = "failed", !.held = {}]
        BY <1>0, <4>1 DEF MigType
      <4>. QED  BY <3>1, <4>1
    <3>. QED  BY <1>2, <1>4, <3>2 DEF WillMigrate
  <2>4. CASE MigrateGone
    BY <2>4 DEF MigrateGone
  <2>. QED  BY <2>1, <2>2, <2>3, <2>4 DEF MigrateStep
<1>5. \A t \in Targets : StatusMeans(t)'
  BY <1>1, <1>2, ScopeAssumption DEF WorldReady, StatusMeans, Usable, Edge
<1>6. ASSUME NEW v \in Workers  PROVE DeleteMarks(v)' /\ (RolesKept => PodAwaited(v)')
  BY <1>1 DEF WorldReady, DeleteMarks, TakesApart, PodAwaited, Busy, At
<1>7. ASSUME NEW v \in Workers  PROVE ProvisionKnows(v)' /\ ResumeKnows(v)'
  <2>1. onb[v].tenant \in Tenants /\ ProvisionKnows(v) /\ ResumeKnows(v)
    BY <1>0 DEF WorldReady, OnbFrame
  <2>2. PICK t \in Tenants : t = onb[v].tenant
    BY <2>1
  <2>3. /\ Edge(t) <=> Edge(t)'
        /\ Usable(t) => Usable(t)'
        /\ role[t] # "none" => role'[t] # "none"
    BY <1>1, <1>2 DEF Edge, Usable
  <2>4. ProvisionKnows(v)'
    BY <1>1, <1>4, <2>1, <2>2, <2>3 DEF ProvisionKnows
  <2>5. ResumeKnows(v)'
    BY <1>1, <2>1, <2>2, <2>3 DEF ResumeKnows
  <2>. QED  BY <2>4, <2>5
<1>. QED  BY <1>1, <1>3, <1>5, <1>6, <1>7 DEF WorldReady

-----------------------------------------------------------------------------
(* Requests and jobs.                                                      *)

\* A step that leaves cluster, AWS and roles alone, writes no ACTIVE and no
\* SUSPENDED, and only starts or leaves procedures.
LEMMA QuietReady ==
  ASSUME TypeInv, WorldReady,
         UNCHANGED <<k8s, aws, role, dropjob, stray, mig>>,
         \A u \in Targets : row'[u] = row[u] \/ row'[u].status \notin {"ACTIVE", "SUSPENDED"},
         \A w \in Workers : del[w].pc # "idle" => del[w].tenant \in Targets,
         \A w \in Workers :
           \/ del'[w] = del[w]
           \/ /\ del'[w].pc \in {"idle", "mark_started"}
              /\ RolesKept => del[w].pc # "revoking",
         \A w \in Workers :
           \/ onb'[w] = onb[w] \/ onb'[w].pc = "idle"
           \/ onb'[w].kind = "provision" /\ onb'[w].pc = "mark"
           \/ onb'[w].kind = "resume" /\ onb'[w].pc = "get"
  PROVE  WorldReady'
<1>1. \A t \in Targets : StatusMeans(t)'
  BY DEF WorldReady, StatusMeans, Usable, Edge
<1>2. ASSUME NEW w \in Workers  PROVE DeleteMarks(w)'
  <2>1. CASE del'[w] = del[w]
    <3>1. TakesApart(w)' => TakesApart(w) /\ del[w].tenant \in Targets
      BY <2>1 DEF TakesApart, Busy, At
    <3>. QED  BY <2>1, <3>1 DEF WorldReady, DeleteMarks
  <2>2. CASE del'[w].pc \in {"idle", "mark_started"}
    BY <2>2 DEF DeleteMarks, TakesApart, Busy, At
  <2>. QED  BY <2>1, <2>2
<1>4. ASSUME RolesKept, NEW w \in Workers  PROVE PodAwaited(w)'
  BY <1>4 DEF WorldReady, PodAwaited, At
<1>3. ASSUME NEW w \in Workers  PROVE ProvisionKnows(w)' /\ ResumeKnows(w)'
  <2>1. CASE onb'[w] = onb[w]
    BY <2>1 DEF WorldReady, ProvisionKnows, ResumeKnows, Usable, Edge, WillMigrate
  <2>2. CASE \/ onb'[w].pc = "idle"
             \/ onb'[w].kind = "provision" /\ onb'[w].pc = "mark"
             \/ onb'[w].kind = "resume" /\ onb'[w].pc = "get"
    BY <2>2 DEF ProvisionKnows, ResumeKnows
  <2>. QED  BY <2>1, <2>2
<1>. QED  BY <1>1, <1>2, <1>3, <1>4 DEF WorldReady

\* What Leave and Call do is quiet when nobody waits for a revoke.
LEMMA LeaveQuiet ==
  ASSUME NEW W, Leave(W), \A w \in Workers : sus[w].pc = "idle"
  PROVE  /\ \A w \in Workers : sus'[w].pc = "idle"
         /\ \A w \in Workers : \/ del'[w] = del[w]
                               \/ w \in W /\ del'[w].pc = "idle"
         /\ \A w \in Workers : onb'[w] = onb[w] \/ onb'[w].pc = "idle"
<1>1. ASSUME NEW w \in Workers
      PROVE  /\ sus'[w] = IF w \in W THEN IdleSus ELSE sus[w]
             /\ del'[w] = IF w \in W THEN NoFrame ELSE del[w]
             /\ onb'[w] = IF w \in W THEN IdleOnb ELSE onb[w]
  BY DEF Leave
<1>2. IdleSus.pc = "idle" /\ NoFrame.pc = "idle" /\ IdleOnb.pc = "idle"
  BY DEF NoFrame, IdleOnb, IdleSus
<1>3. ASSUME NEW w \in Workers
      PROVE  /\ sus'[w].pc = "idle"
             /\ del'[w] = del[w] \/ (w \in W /\ del'[w].pc = "idle")
             /\ onb'[w] = onb[w] \/ onb'[w].pc = "idle"
  <2>1. CASE w \in W
    BY <1>1, <1>2, <2>1
  <2>2. CASE w \notin W
    BY <1>1, <2>2
  <2>. QED  BY <2>1, <2>2
<1>. QED  BY <1>3

LEMMA CallQuiet ==
  ASSUME TypeInv, NEW w \in Workers, NEW t \in Tenants, NEW op \in JobKinds, Call(w, t, op)
  PROVE  /\ UNCHANGED <<world, dropjob, stray, mig, sus>>
         /\ \A v \in Workers : \/ del'[v] = del[v]
                               \/ /\ del'[v].pc = "mark_started"
                                  /\ del[v].pc = "idle"
         /\ \A v \in Workers : \/ onb'[v] = onb[v]
                               \/ onb'[v].kind = "provision" /\ onb'[v].pc = "mark"
                               \/ onb'[v].kind = "resume" /\ onb'[v].pc = "get"
<1>1. del \in [Workers -> FrameType] /\ onb \in [Workers -> OnbFrame]
  BY DEF TypeInv, CPTypeOK, TypeOK, OnboardingTypeOK
<1>2. CASE Begin(w, t) /\ UNCHANGED <<onb, mig, sus, rec, adp>>
  <2>1. /\ UNCHANGED <<world, dropjob, stray>> /\ del[w].pc = "idle"
        /\ \A v \in Workers \ {w} : del'[v] = del[v]
        /\ del'[w].pc = "mark_started"
    BY <1>1, <1>2 DEF Begin, At
  <2>2. \A v \in Workers : \/ del'[v] = del[v]
                           \/ /\ del'[v].pc = "mark_started"
                              /\ del[v].pc = "idle"
    BY <2>1
  <2>. QED  BY <1>2, <2>1, <2>2
<1>3. CASE /\ \E kind \in OnbKinds : StartOnboarding(w, t, kind)
           /\ UNCHANGED <<world, del, dropjob, stray, mig, sus, rec, adp>>
  <2>1. /\ \A v \in Workers \ {w} : onb'[v] = onb[v]
        /\ \/ onb'[w].kind = "provision" /\ onb'[w].pc = "mark"
           \/ onb'[w].kind = "resume" /\ onb'[w].pc = "get"
    BY <1>1, <1>3 DEF StartOnboarding, OnbKinds
  <2>2. \A v \in Workers : \/ onb'[v] = onb[v]
                           \/ onb'[v].kind = "provision" /\ onb'[v].pc = "mark"
                           \/ onb'[v].kind = "resume" /\ onb'[v].pc = "get"
    BY <2>1
  <2>. QED  BY <1>3, <2>2
<1>. QED  BY <1>2, <1>3 DEF Call, JobKinds, OnbKinds

\* The status a request or a job records is neither ACTIVE nor SUSPENDED.
LEMMA RecordQuiet ==
  ASSUME TypeInv, NEW t \in Tenants, NEW d \in DESIRED_STATUSES, NEW s \in STATUSES,
         row' = [row EXCEPT ![t] = Upsert(@, d, s)], s \notin {"ACTIVE", "SUSPENDED"}
  PROVE  \A u \in Targets : row'[u] = row[u] \/ row'[u].status \notin {"ACTIVE", "SUSPENDED"}
<1>1. row \in [Tenants -> RowType \cup {NoRow}]
  BY DEF TypeInv, CPTypeOK, TypeOK, WorldTypeOK
<1>2. Upsert(row[t], d, s).status = s
  BY <1>1, StatusWritten
<1>3. \A u \in Tenants : row'[u] = IF u = t THEN Upsert(row[t], d, s) ELSE row[u]
  BY <1>1
<1>. QED  BY <1>2, <1>3, ScopeAssumption

LEMMA HandlerReady ==
  ASSUME JobsOnly, TypeInv, ReadyInv, NEW h \in Handlers, HandlerStep(h)
  PROVE  WorldReady' /\ \A w \in Workers : sus'[w].pc = "idle"
<1>0. /\ req \in [Handlers -> ReqType] /\ req[h].tenant \in Tenants /\ h \in Workers
      /\ JobOps /\ JobFrames /\ JobsSerialised /\ WorldReady
      /\ \A w \in Workers : sus[w].pc = "idle"
  BY WorkersAssumption DEF TypeInv, CPTypeOK, ReqType, ReadyInv, WorldReady
<1>1. \A w \in Workers : del[w].pc # "idle" => del[w].tenant \in Targets
  BY <1>0, Apart
<1>2. /\ {"ACTIVE", "GONE"} \subseteq DESIRED_STATUSES
      /\ {"PROVISIONING", "DELETING"} \subseteq STATUSES
  BY DEF DESIRED_STATUSES, STATUSES
<1>3. ASSUME \A u \in Targets : row'[u] = row[u] \/ row'[u].status \notin {"ACTIVE", "SUSPENDED"},
             UNCHANGED <<k8s, aws, role, faults, procVars>>
      PROVE  WorldReady' /\ \A w \in Workers : sus'[w].pc = "idle"
  <2>1. UNCHANGED <<dropjob, stray, mig, sus, del, onb>>
    BY <1>3 DEF procVars
  <2>2. WorldReady'
    BY <1>0, <1>1, <1>3, <2>1, QuietReady
  <2>. QED  BY <1>0, <2>1, <2>2
<1>4. CASE UpsertForCreate(h)
  <2>1. \A u \in Targets : row'[u] = row[u] \/ row'[u].status \notin {"ACTIVE", "SUSPENDED"}
    BY <1>0, <1>2, <1>4, RecordQuiet DEF UpsertForCreate
  <2>. QED  BY <1>3, <1>4, <2>1 DEF UpsertForCreate
<1>5. CASE InsertForDelete(h) \/ UpsertForDelete(h)
  <2>1. \A u \in Targets : row'[u] = row[u] \/ row'[u].status \notin {"ACTIVE", "SUSPENDED"}
    BY <1>0, <1>2, <1>5, RecordQuiet DEF InsertForDelete, UpsertForDelete, MarkDeleting
  <2>. QED  BY <1>3, <1>5, <2>1 DEF InsertForDelete, UpsertForDelete, MarkDeleting
<1>6. CASE \/ GetForCreate(h) \/ GetForResume(h) \/ GetForDelete(h) \/ CheckInflight(h)
           \/ StartJob(h)
  BY <1>3, <1>6 DEF GetForCreate, GetForResume, GetForDelete, CheckInflight, StartJob, world
<1>7. CASE CallInRequest(h)
  BY <1>0, <1>7 DEF CallInRequest, Synchronous, JobOps, JobsOnly, JobKinds, ReqAt
<1>8. CASE AnswerRequest(h)
  <2>1. del[h].pc = "idle"
    BY <1>0, WorkersAssumption DEF JobFrames
  <2>2. /\ Leave({h}) /\ UNCHANGED <<row, k8s, aws, role, faults, dropjob, stray, mig>>
    BY <1>8 DEF AnswerRequest, world
  <2>. QED  BY <1>0, <1>1, <2>1, <2>2, LeaveQuiet, QuietReady
<1>. QED  BY <1>4, <1>5, <1>6, <1>7, <1>8 DEF HandlerStep

LEMMA ThreadReady ==
  ASSUME JobsOnly, TypeInv, ReadyInv, NEW j \in Threads, ThreadStep(j)
  PROVE  WorldReady' /\ \A w \in Workers : sus'[w].pc = "idle"
<1>0. /\ job \in [Threads -> JobFrame] /\ job[j].tenant \in Tenants /\ j \in Workers
      /\ JobOps /\ JobFrames /\ JobsSerialised /\ WorldReady
      /\ \A w \in Workers : sus[w].pc = "idle"
  BY WorkersAssumption DEF TypeInv, CPTypeOK, JobFrame, ReadyInv, WorldReady
<1>1. \A w \in Workers : del[w].pc # "idle" => del[w].tenant \in Targets
  BY <1>0, Apart
<1>2. CASE RunJob(j)
  <2>1. job[j].op \in JobKinds
    BY <1>0, <1>2 DEF RunJob, JobOps, Busied, JobAt
  <2>2. /\ UNCHANGED <<row, k8s, aws, role, faults, dropjob, stray, mig, sus>>
        /\ \A v \in Workers : \/ del'[v] = del[v]
                              \/ /\ del'[v].pc = "mark_started"
                                 /\ del[v].pc = "idle"
        /\ \A v \in Workers : \/ onb'[v] = onb[v]
                              \/ onb'[v].kind = "provision" /\ onb'[v].pc = "mark"
                              \/ onb'[v].kind = "resume" /\ onb'[v].pc = "get"
    BY <1>0, <1>2, <2>1, CallQuiet DEF RunJob, world
  <2>. QED  BY <1>0, <1>1, <2>2, QuietReady
<1>3. CASE DeleteEnds(j) \/ OnboardingEnds(j)
  <2>1. del[j].pc \notin {"revoke", "revoking"}
    BY <1>0, <1>3 DEF DeleteEnds, OnboardingEnds, JobFrames
  <2>2. Leave({j}) /\ UNCHANGED <<row, k8s, aws, role, faults, dropjob, stray, mig>>
    BY <1>3 DEF DeleteEnds, OnboardingEnds, world
  <2>. QED  BY <1>0, <1>1, <2>1, <2>2, LeaveQuiet, QuietReady
<1>4. CASE CheckRow(j) \/ Discard(j)
  <2>1. UNCHANGED <<row, k8s, aws, role, faults, dropjob, stray, mig, sus, del, onb>>
    BY <1>4 DEF CheckRow, Discard, world, procVars
  <2>. QED  BY <1>0, <1>1, <2>1, QuietReady
<1>5. CASE RecordJobFailure(j)
  <2>1. UNCHANGED <<k8s, aws, role, faults, dropjob, stray, mig, sus, del, onb>>
    BY <1>5 DEF RecordJobFailure, procVars
  <2>2. \A u \in Targets : row'[u] = row[u] \/ row'[u].status \notin {"ACTIVE", "SUSPENDED"}
    <3>1. /\ {"ACTIVE", "GONE"} \subseteq DESIRED_STATUSES
          /\ {"DELETE_FAILED", "FAILED"} \subseteq STATUSES
      BY DEF DESIRED_STATUSES, STATUSES
    <3>2. \/ row' = [row EXCEPT ![job[j].tenant] = Upsert(@, "GONE", "DELETE_FAILED")]
          \/ row' = [row EXCEPT ![job[j].tenant] = Upsert(@, "ACTIVE", "FAILED")]
      BY <1>5 DEF RecordJobFailure
    <3>. QED  BY <1>0, <3>1, <3>2, RecordQuiet
  <2>. QED  BY <1>0, <1>1, <2>1, <2>2, QuietReady
<1>. QED  BY <1>2, <1>3, <1>4, <1>5 DEF ThreadStep

-----------------------------------------------------------------------------
(* The invariant.                                                          *)

LEMMA InitReady == ASSUME JobsOnly, CPInit PROVE ReadyInv
<1>1. /\ del = [w \in Workers |-> NoFrame] /\ dropjob = [w \in Workers |-> NoJob]
      /\ onb = [w \in Workers |-> IdleOnb] /\ sus = [w \in Workers |-> IdleSus] /\ mig = NoMig
      /\ stray = NoStrays
  BY DEF CPInit
<1>2. JobOps /\ JobFrames /\ JobsSerialised
  BY OnlyRequests, InitOwned DEF OwnedInv
<1>3. \A w \in Workers : sus[w].pc = "idle"
  BY <1>1 DEF IdleSus
<1>4. k8s[Platform].ns
  BY PlatformAssumption DEF CPInit, JobsOnly, Active, FullK8s
<1>5. ASSUME NEW t \in Targets  PROVE StatusMeans(t)
  <2>1. PICK o \in Origins : StartsIn(t, o)
    BY ScopeAssumption DEF CPInit
  <2>. QED
    BY <2>1 DEF StartsIn, Absent, Active, Suspended, Failed, Unrecorded, Registered, NoRow,
                StatusMeans, Edge, Usable, FullK8s
<1>6. ASSUME NEW w \in Workers
      PROVE  DeleteMarks(w) /\ PodAwaited(w) /\ ProvisionKnows(w) /\ ResumeKnows(w)
  <2>1. DeleteMarks(w) /\ PodAwaited(w)
    BY <1>1 DEF DeleteMarks, PodAwaited, TakesApart, Busy, At, NoFrame, NoJob
  <2>2. ProvisionKnows(w) /\ ResumeKnows(w)
    BY <1>1 DEF ProvisionKnows, ResumeKnows, IdleOnb
  <2>. QED  BY <2>1, <2>2
<1>. QED  BY <1>1, <1>2, <1>3, <1>4, <1>5, <1>6 DEF ReadyInv, NoMig

\* The invariant is inductive, given the types.
LEMMA NextReady ==
  ASSUME JobsOnly, TypeInv, ReadyInv, [CPNext]_cpVars
  PROVE  ReadyInv'
<1>. DEFINE Good == WorldReady' /\ \A w \in Workers : sus'[w].pc = "idle"
<1>0. /\ Shells = {} /\ JobOps /\ JobFrames /\ JobsSerialised /\ WorldReady
      /\ \A w \in Workers : sus[w].pc = "idle"
  BY DEF JobsOnly, ReadyInv, WorldReady
<1>1. JobOps' /\ JobFrames' /\ JobsSerialised'
  BY <1>0, OnlyRequests, NextJobOps, NextJobFrames, NextJobs DEF JobsInv, TypeInv, CPTypeOK
<1>2. ASSUME UNCHANGED <<world, dropjob, stray, mig, sus, del, onb>>  PROVE Good
  <2>1. \A w \in Workers : del[w].pc # "idle" => del[w].tenant \in Targets
    BY <1>0, Apart
  <2>. QED  BY <1>0, <1>2, <2>1, QuietReady DEF world
<1>3. ASSUME UNCHANGED cpVars  PROVE Good
  BY <1>2, <1>3 DEF cpVars
<1>4. ASSUME NEW h \in Handlers, NEW t \in Targets, NEW op \in Ops, Receive(h, t, op)
      PROVE  Good
  BY <1>2, <1>4 DEF Receive, procVars
<1>5. ASSUME NEW h \in Handlers, HandlerStep(h)  PROVE Good
  BY <1>5, HandlerReady
<1>6. ASSUME NEW j \in Threads, ThreadStep(j)  PROVE Good
  BY <1>6, ThreadReady
<1>7. ASSUME NEW w \in Workers, DeleteStep(w) \/ RunDropJob(w),
             UNCHANGED <<onb, mig, sus, rec, adp, apiVars>>
      PROVE  Good
  BY <1>0, <1>7, DeleteReady, DropPodReady
<1>8. ASSUME NEW w \in Workers, OnboardingStep(w),
             UNCHANGED <<del, dropjob, stray, sus, rec, adp, apiVars>>
      PROVE  Good
  BY <1>0, <1>8, OnbStepReady
<1>9. ASSUME NEW w \in Workers, SuspensionStep(w)  PROVE Good
  BY <1>0, <1>9 DEF SuspensionStep, GetStatus, ScaleDown, DropIngress, MarkSuspended, Sus
<1>10. ASSUME MigratePod  PROVE Good
  BY <1>0, <1>10, MigrateReady DEF MigratePod
<1>11. ~DriftByHand
  BY DEF DriftByHand, Fails, JobsOnly
<1>12. ASSUME Restart  PROVE Good
  <2>1. /\ Leave(Handlers \cup Threads) /\ ~RolesKept
        /\ UNCHANGED <<row, k8s, aws, role, dropjob, stray, mig>>
    BY <1>12 DEF Restart, Fails, RolesKept, PodsAwaited
  <2>2. \A w \in Workers : del[w].pc # "idle" => del[w].tenant \in Targets
    BY <1>0, Apart
  <2>. QED  BY <1>0, <2>1, <2>2, LeaveQuiet, QuietReady
<1>14. ASSUME NEW t \in Tenants, StrayPod(t)  PROVE Good
  BY <1>0, <1>14, StrayPodReady DEF StrayPod
<1>13. Good
  BY <1>0, <1>3, <1>4, <1>5, <1>6, <1>7, <1>8, <1>9, <1>10, <1>11, <1>12, <1>14, RequestSteps
<1>. QED  BY <1>1, <1>13 DEF ReadyInv, WorldReady

\* What the registry says of a tenant is what cluster and AWS hold, and with
\* RolesKept Postgres, between any two steps of any overlapping requests to
\* create, delete and resume it: whoever takes a tenant apart has recorded that
\* first, and an onboarding records ACTIVE last.
THEOREM ReadyInvHolds ==
  ASSUME JobsOnly
  PROVE  CPSpec => []ReadyInv
<1>1. CPInit => ReadyInv
  BY InitReady
<1>2. TypeInv /\ ReadyInv /\ [CPNext]_cpVars => ReadyInv'
  BY NextReady
<1>. QED  BY <1>1, <1>2, TypeInvHolds, PTL DEF CPSpec

\* A tenant that nobody is working on and that the registry calls ACTIVE runs,
\* has its Ingress, its secret and its IRSA role: for any number of tenants,
\* handlers and threads, any failures of the calls and any restarts.
THEOREM ActiveIsUpHolds ==
  ASSUME JobsOnly
  PROVE  CPSpec => []ActiveIsUp
<1>1. ReadyInv => ActiveIsUp
  BY DEF ReadyInv, StatusMeans, Usable, ActiveIsUp
<1>. QED  BY <1>1, ReadyInvHolds, PTL

\* It has its database role as well with one tenant, no restart and no attempt
\* at a revoke that fails with its pod running on, whatever other calls fail: for
\* any number of requests, handlers and threads.
THEOREM ActiveIsReadyHolds ==
  ASSUME JobsOnly, RolesKept
  PROVE  CPSpec => []ActiveIsReady
<1>1. ReadyInv => ActiveIsReady
  BY DEF ReadyInv, StatusMeans, Usable, ActiveIsReady
<1>. QED  BY <1>1, ReadyInvHolds, PTL
=============================================================================
