--------------------------- MODULE TeardownProofs ---------------------------
(***************************************************************************)
(* What one step of delete_tenant, or of a drop-role Job, does and keeps,  *)
(* whoever else is at work: the lemmas the proofs about Deletion and about *)
(* ControlPlane share.                                                     *)
(***************************************************************************)
EXTENDS Promises, Situations, TLAPS

-----------------------------------------------------------------------------
(* Types.                                                                  *)

\* Every upsert of delete_tenant writes a row.
LEMMA UpsertType ==
  ASSUME NEW r \in RowType \cup {NoRow}, NEW s \in STATUSES,
         NEW d \in DESIRED_STATUSES, NEW x \in DeleteSteps
  PROVE  /\ Upsert(r, d, s) \in RowType
         /\ [Upsert(r, d, s) EXCEPT !.step = x] \in RowType
         /\ UpsertStep(r, s, x) \in RowType
<1>1. Stored(r, s) \in RowType
  <2>1. InferredDesired(s) \in DESIRED_STATUSES
    BY DEF InferredDesired, DESIRED_STATUSES, STATUSES
  <2>. QED  BY <2>1 DEF Stored, RowType, Owners, DeleteSteps
<1>. QED  BY <1>1 DEF Upsert, UpsertStep, RowType

\* Every call of the world leaves a well-formed tenant record.
LEMMA EffectType ==
  ASSUME NEW k \in K8sType, NEW s \in {"absent", "live", "scheduled"}
  PROVE  /\ ScaledTo(k, 0) \in K8sType
         /\ WithoutIngress(k) \in K8sType
         /\ Uninstalled(k) \in K8sType
         /\ NoK8s \in K8sType
         /\ DeletedSecret(s) \in {"absent", "live", "scheduled"}
<1>1. ScaledTo(k, 0) \in K8sType
  BY DEF ScaledTo, K8sType
<1>2. WithoutIngress(k) \in K8sType
  BY DEF WithoutIngress, K8sType
<1>3. Uninstalled(k) \in K8sType
  BY DEF Uninstalled, K8sType
<1>4. NoK8s \in K8sType
  BY DEF NoK8s, K8sType
<1>5. DeletedSecret(s) \in {"absent", "live", "scheduled"}
  BY DEF DeletedSecret
<1>. QED  BY <1>1, <1>2, <1>3, <1>4, <1>5

LEMMA FailsType ==
  ASSUME faults \in 0..MaxFaults, NEW kind, Fails(kind) \/ Succeeds
  PROVE  faults' \in 0..MaxFaults
BY FaultAssumption DEF Fails, Succeeds

LEMMA GotoType ==
  ASSUME del \in [Workers -> FrameType], NEW w \in Workers,
         NEW label \in DeletePC, Goto(w, label)
  PROVE  del' \in [Workers -> FrameType]
BY DEF Goto, FrameType

LEMMA RaiseType ==
  ASSUME del \in [Workers -> FrameType], NEW w \in Workers,
         NEW kind \in ErrorKinds, Raise(w, kind)
  PROVE  del' \in [Workers -> FrameType]
BY DEF Raise, FrameType, DeletePC

LEMMA AttemptType ==
  ASSUME del \in [Workers -> FrameType], NEW w \in Workers,
         AttemptFailed(w)
  PROVE  del' \in [Workers -> FrameType]
<1>1. CASE del[w].tries + 1 < Attempts
  BY <1>1 DEF AttemptFailed, FrameType, DeletePC, CallPC, Attempts
<1>2. CASE ~(del[w].tries + 1 < Attempts)
  BY <1>2, RaiseType DEF AttemptFailed, ErrorKinds
<1>. QED  BY <1>1, <1>2

\* One step of delete_tenant, whichever it is, keeps every variable typed.
LEMMA StepTypeOK ==
  ASSUME TypeOK, NEW w \in Workers, DeleteStep(w)
  PROVE  TypeOK'
<1>. USE DEF TypeOK, WorldTypeOK
<1>. DEFINE t == del[w].tenant
<1>0. del[w] \in FrameType /\ t \in Tenants /\ row[t] \in RowType \cup {NoRow}
      /\ k8s[t] \in K8sType /\ aws[t] \in AwsType /\ dropjob[w] \in JobType
  BY DEF FrameType
<1>1. ASSUME NEW label \in DeletePC, NEW step \in DeleteSteps, NEW next \in DeletePC,
             Mark(w, label, step, next)
      PROVE  TypeOK'
  <2>1. UpsertStep(row[t], "DELETING", step) \in RowType
    BY <1>0, UpsertType DEF STATUSES, DESIRED_STATUSES
  <2>2. row' \in [Tenants -> RowType \cup {NoRow}]
    BY <1>0, <1>1, <2>1 DEF Mark
  <2>3. del' \in [Workers -> FrameType]
    BY <1>1, GotoType DEF Mark
  <2>. QED  BY <1>1, <2>2, <2>3 DEF Mark
<1>2. CASE MarkStarted(w)
  <2>1. [Upsert(row[t], "GONE", "DELETING") EXCEPT !.step = "started"] \in RowType
    BY <1>0, UpsertType DEF STATUSES, DESIRED_STATUSES, DeleteSteps
  <2>2. row' \in [Tenants -> RowType \cup {NoRow}]
    BY <1>0, <1>2, <2>1 DEF MarkStarted
  <2>3. del' \in [Workers -> FrameType]
    BY <1>2, GotoType DEF MarkStarted, DeletePC, CallPC
  <2>. QED  BY <1>2, <2>2, <2>3 DEF MarkStarted
<1>3. CASE MarkDisabled(w) \/ MarkRevoked(w) \/ MarkIam(w) \/ MarkSecret(w)
  BY <1>1, <1>3 DEF MarkDisabled, MarkRevoked, MarkIam, MarkSecret, DeletePC, MarkPC, CallPC,
                    DeleteSteps
<1>4. CASE MarkK8s(w)
  BY <1>1, <1>4 DEF MarkK8s, DeletePC, MarkPC, CallPC, DeleteSteps
<1>5. CASE Purge(w)
  BY <1>0, <1>5, GotoType DEF Purge, DeletePC
<1>6. CASE RecordFailure(w)
  <2>1. Upsert(row[t], "GONE", "DELETE_FAILED") \in RowType
    BY <1>0, UpsertType DEF STATUSES, DESIRED_STATUSES, DeleteSteps
  <2>2. row' \in [Tenants -> RowType \cup {NoRow}]
    BY <1>0, <1>6, <2>1 DEF RecordFailure
  <2>3. del' \in [Workers -> FrameType]
    BY <1>6, GotoType DEF RecordFailure, DeletePC
  <2>. QED  BY <1>6, <2>2, <2>3 DEF RecordFailure
<1>7. CASE Scale(w) \/ Unroute(w) \/ Uninstall(w)
  <2>1. k8s' \in [Tenants -> K8sType]
    BY <1>0, <1>7, EffectType DEF Scale, Unroute, Uninstall
  <2>2. del' \in [Workers -> FrameType]
    BY <1>7, GotoType DEF Scale, Unroute, Uninstall, DeletePC, CallPC, MarkPC
  <2>. QED  BY <1>7, <2>1, <2>2, FailsType DEF Scale, Unroute, Uninstall
<1>8. CASE TofuOutputs(w)
  <2>1. del' \in [Workers -> FrameType]
    BY <1>8, GotoType, RaiseType DEF TofuOutputs, DeletePC, CallPC, ErrorKinds
  <2>. QED  BY <1>8, <2>1, FailsType DEF TofuOutputs
<1>9. CASE LaunchDropJob(w)
  <2>1. del' \in [Workers -> FrameType]
    BY <1>9, GotoType, AttemptType DEF LaunchDropJob, DeletePC, CallPC
  <2>2. dropjob' \in [Workers -> JobType] /\ stray' \in [Tenants -> Nat]
    BY <1>0, <1>9 DEF LaunchDropJob, CreatesDropJob, JobType
  <2>. QED  BY <1>9, <2>1, <2>2, FailsType DEF LaunchDropJob
<1>10. CASE PollDropJob(w)
  <2>1. del' \in [Workers -> FrameType]
    BY <1>10, GotoType, AttemptType DEF PollDropJob, DeletePC, MarkPC
  <2>2. dropjob' \in [Workers -> JobType]
    BY <1>10, PlatformAssumption DEF PollDropJob, NoJob, JobType
  <2>. QED  BY <1>10, <2>1, <2>2, FailsType DEF PollDropJob
<1>11. CASE GetNs(w)
  <2>1. del' \in [Workers -> FrameType]
    BY <1>11, GotoType DEF GetNs, DeletePC, CallPC, MarkPC
  <2>. QED  BY <1>11, <2>1, FailsType DEF GetNs
<1>12. CASE DeleteNs(w)
  <2>1. del' \in [Workers -> FrameType]
    BY <1>12, GotoType, RaiseType DEF DeleteNs, DeletePC, MarkPC, ErrorKinds
  <2>2. k8s' \in [Tenants -> K8sType] /\ dropjob' \in [Workers -> JobType]
        /\ stray' \in [Tenants -> Nat]
    <3>1. CASE UNCHANGED <<k8s, dropjob, stray>>
      BY <3>1
    <3>2. CASE RemoveNs(t)
      <4>1. k8s' \in [Tenants -> K8sType] /\ dropjob' \in [Workers -> JobType]
        BY <3>2, PlatformAssumption, EffectType, <1>0 DEF RemoveNs, JobType, NoJob
      <4>2. stray' \in [Tenants -> Nat]
        BY <3>2 DEF RemoveNs, NoStrays
      <4>. QED  BY <4>1, <4>2
    <3>. QED  BY <1>12, <3>1, <3>2 DEF DeleteNs
  <2>. QED  BY <1>12, <2>1, <2>2, FailsType DEF DeleteNs
<1>13. CASE DeleteIrsa(w)
  <2>1. del' \in [Workers -> FrameType]
    BY <1>13, GotoType, RaiseType DEF DeleteIrsa, DeletePC, MarkPC, ErrorKinds
  <2>2. aws' \in [Tenants -> AwsType]
    <3>1. [aws[t] EXCEPT !.irsa = FALSE] \in AwsType
      BY <1>0 DEF AwsType
    <3>2. CASE UNCHANGED aws
      BY <3>2
    <3>3. CASE aws' = [aws EXCEPT ![t].irsa = FALSE]
      BY <1>0, <3>1, <3>3
    <3>. QED  BY <1>13, <3>2, <3>3 DEF DeleteIrsa
  <2>. QED  BY <1>13, <2>1, <2>2, FailsType DEF DeleteIrsa
<1>14. CASE DeleteSecret(w)
  <2>1. del' \in [Workers -> FrameType]
    BY <1>14, GotoType, RaiseType DEF DeleteSecret, DeletePC, MarkPC, ErrorKinds
  <2>2. aws' \in [Tenants -> AwsType]
    <3>1. DeletedSecret(aws[t].secret) \in {"absent", "live", "scheduled"}
      BY <1>0, EffectType DEF AwsType
    <3>. QED  BY <1>0, <1>14, <3>1 DEF DeleteSecret, AwsType
  <2>. QED  BY <1>14, <2>1, <2>2, FailsType DEF DeleteSecret
<1>. QED
  BY <1>2, <1>3, <1>4, <1>5, <1>6, <1>7, <1>8, <1>9, <1>10, <1>11, <1>12, <1>13, <1>14
     DEF DeleteStep

\* The pods of drop-role Jobs keep every variable typed, too.
LEMMA ScriptType ==
  ASSUME role \in [Tenants -> RoleType], faults \in 0..MaxFaults, NEW t \in Tenants,
         ScriptDrops(t) \/ ScriptFails(t)
  PROVE  role' \in [Tenants -> RoleType] /\ faults' \in 0..MaxFaults
BY FailsType DEF ScriptDrops, ScriptFails, RoleType

LEMMA StrayPodTypeOK ==
  ASSUME TypeOK, NEW t \in Tenants, RunStrayPod(t)
  PROVE  TypeOK'
<1>. USE DEF TypeOK, WorldTypeOK
<1>1. stray' \in [Tenants -> Nat]
  BY DEF RunStrayPod
<1>. QED  BY <1>1, ScriptType DEF RunStrayPod

LEMMA DropJobTypeOK ==
  ASSUME TypeOK, NEW w \in Workers, RunDropJob(w)
  PROVE  TypeOK'
<1>. USE DEF TypeOK, WorldTypeOK
<1>1. dropjob[w].tenant \in Tenants
  BY DEF JobType
<1>2. role' \in [Tenants -> RoleType] /\ faults' \in 0..MaxFaults
  BY <1>1, ScriptType DEF RunDropJob
<1>3. dropjob' \in [Workers -> JobType]
  <2>1. dropjob \in [Workers -> JobType]
    OBVIOUS
  <2>2. \E st \in {"complete", "failed"} : dropjob' = [dropjob EXCEPT ![w].st = st]
    BY DEF RunDropJob
  <2>. QED  BY <2>1, <2>2 DEF JobType
<1>. QED  BY <1>2, <1>3 DEF RunDropJob

LEMMA BeginTypeOK ==
  ASSUME TypeOK, NEW w \in Workers, NEW t \in Tenants, Begin(w, t)
  PROVE  TypeOK'
<1>. USE DEF TypeOK, WorldTypeOK
<1>1. row[t].owner \in Owners
  BY DEF RowType, NoRow, Owners
<1>2. [pc |-> "mark_started", tenant |-> t, owner |-> row[t].owner,
       tries |-> 0, exc |-> "none"] \in FrameType
  BY <1>1 DEF FrameType, DeletePC, MarkPC, ErrorKinds, Attempts
<1>. QED  BY <1>2 DEF Begin, world

LEMMA NoFrameType ==
  NoFrame \in FrameType /\ NoJob \in JobType /\ NoStrays \in [Tenants -> Nat]
BY PlatformAssumption DEF NoFrame, NoJob, NoStrays, FrameType, JobType, DeletePC, Owners,
                          ErrorKinds, Attempts

-----------------------------------------------------------------------------
(* Nothing a deletion removed ever comes back while only deletions run.    *)

NothingReturns ==
  \A t \in Tenants :
    /\ role[t] = "none" => role'[t] = "none"
    /\ ~k8s[t].ns => ~k8s'[t].ns
    /\ ~aws[t].irsa => ~aws'[t].irsa
    /\ aws[t].secret # "live" => aws'[t].secret # "live"

\* No step of a deletion brings back what one has released, but a row.
LEMMA StepReturnsNothing ==
  ASSUME TypeOK, NEW w \in Workers, DeleteStep(w)
  PROVE  NothingReturns
<1>. USE DEF TypeOK, WorldTypeOK
<1>5. ASSUME UNCHANGED <<k8s, aws, role>>  PROVE NothingReturns
  BY <1>5 DEF NothingReturns
<1>0. del[w].tenant \in Tenants
  BY DEF FrameType
<1>1. CASE Scale(w) \/ Unroute(w) \/ Uninstall(w)
  <2>1. \A t \in Tenants : /\ ScaledTo(k8s[t], 0).ns = k8s[t].ns
                           /\ WithoutIngress(k8s[t]).ns = k8s[t].ns
                           /\ Uninstalled(k8s[t]).ns = k8s[t].ns
    BY DEF ScaledTo, WithoutIngress, Uninstalled, K8sType
  <2>2. \A t \in Tenants : k8s'[t].ns = k8s[t].ns
    BY <1>0, <1>1, <2>1 DEF Scale, Unroute, Uninstall
  <2>. QED  BY <1>1, <2>2 DEF Scale, Unroute, Uninstall, NothingReturns
<1>2. CASE DeleteNs(w)
  <2>1. UNCHANGED <<aws, role>> /\ k8s' \in {k8s, [k8s EXCEPT ![del[w].tenant] = NoK8s]}
    BY <1>2 DEF DeleteNs, RemoveNs
  <2>. QED  BY <1>0, <2>1 DEF NoK8s, NothingReturns, K8sType
<1>3. CASE DeleteIrsa(w)
  BY <1>0, <1>3 DEF DeleteIrsa, NothingReturns, AwsType
<1>4. CASE DeleteSecret(w)
  <2>1. DeletedSecret(aws[del[w].tenant].secret) # "live"
    BY DEF DeletedSecret
  <2>2. UNCHANGED <<k8s, role>>
    BY <1>4 DEF DeleteSecret
  <2>3. ASSUME NEW t \in Tenants, aws # aws'
        PROVE  aws'[t].irsa = aws[t].irsa
               /\ (aws[t].secret # "live" => aws'[t].secret # "live")
    <3>1. aws' = [aws EXCEPT ![del[w].tenant].secret = DeletedSecret(@)]
      BY <1>4, <2>3 DEF DeleteSecret
    <3>2. aws[t] \in AwsType
      OBVIOUS
    <3>. QED  BY <1>0, <2>1, <3>1, <3>2 DEF AwsType
  <2>. QED  BY <2>2, <2>3 DEF NothingReturns
<1>6. CASE LaunchDropJob(w) \/ PollDropJob(w)
  BY <1>5, <1>6 DEF LaunchDropJob, PollDropJob
<1>. QED
  BY <1>5, <1>1, <1>2, <1>3, <1>4, <1>6
     DEF DeleteStep, MarkStarted, Mark, MarkDisabled, MarkRevoked, MarkK8s, MarkIam, MarkSecret,
         Purge, RecordFailure, TofuOutputs, GetNs

\* Nor does a pod.
LEMMA ScriptReturnsNothing ==
  ASSUME TypeOK, NEW t \in Tenants, ScriptDrops(t) \/ ScriptFails(t), UNCHANGED <<row, k8s, aws>>
  PROVE  NothingReturns
BY DEF ScriptDrops, ScriptFails, NothingReturns, TypeOK, WorldTypeOK

LEMMA DropJobReturnsNothing ==
  ASSUME TypeOK, NEW w \in Workers, RunDropJob(w)
  PROVE  NothingReturns
<1>1. dropjob[w].tenant \in Tenants
  BY DEF TypeOK, JobType
<1>. QED  BY <1>1, ScriptReturnsNothing DEF RunDropJob

-----------------------------------------------------------------------------
(* What a worker's program counter promises.                               *)

LEMMA OthersKeepFrames ==
  ASSUME TypeOK, NEW w \in Workers, DeleteStep(w), NEW v \in Workers, v # w
  PROVE  del'[v] = del[v]
BY DEF TypeOK, DeleteStep, MarkStarted, Mark, MarkDisabled, MarkRevoked, MarkK8s, MarkIam,
       MarkSecret, Purge, RecordFailure, Scale, Unroute, TofuOutputs, LaunchDropJob, PollDropJob,
       Uninstall, GetNs, DeleteNs, DeleteIrsa, DeleteSecret, Goto, Raise, AttemptFailed

\* Control moves, or the step raises; the frame's tenant and owner stay.
LEMMA FrameMoves ==
  ASSUME del \in [Workers -> FrameType], NEW w \in Workers
  PROVE  /\ \A label : Goto(w, label) =>
              del'[w].pc = label /\ del'[w].tenant = del[w].tenant /\ del'[w].owner = del[w].owner
         /\ \A kind : Raise(w, kind) =>
              del'[w].pc = "except" /\ del'[w].tenant = del[w].tenant /\ del'[w].owner = del[w].owner
         /\ AttemptFailed(w) =>
              del'[w].pc \in {"revoke", "except"} /\ del'[w].tenant = del[w].tenant
              /\ del'[w].owner = del[w].owner
BY DEF Goto, Raise, AttemptFailed, FrameType

\* A frame is busy until its last step, and keeps its tenant and owner.
LEMMA StepKeepsFrame ==
  ASSUME TypeOK, NEW w \in Workers, DeleteStep(w)
  PROVE  /\ Busy(w)
         /\ del'[w].tenant = del[w].tenant /\ del'[w].owner = del[w].owner
         /\ del'[w].pc \notin {"idle", "mark_started"}
<1>1. del \in [Workers -> FrameType]
  BY DEF TypeOK
<1>. QED
  BY <1>1, FrameMoves
     DEF Busy, At, DeleteStep, MarkStarted, Mark, MarkDisabled, MarkRevoked, MarkK8s, MarkIam,
         MarkSecret, Purge, RecordFailure, Scale, Unroute, TofuOutputs, LaunchDropJob, PollDropJob,
         Uninstall, GetNs, DeleteNs, DeleteIrsa, DeleteSecret

\* Nothing a worker knows is undone by another worker.
LEMMA ReleasedStands ==
  ASSUME NothingReturns, NEW pc, NEW owner, NEW t \in Tenants, Released(pc, owner, t)
  PROVE  Released(pc, owner, t)'
BY DEF Released, NothingReturns

LEMMA FrameStands ==
  ASSUME TypeOK, NothingReturns, NEW v \in Workers, FrameKnows(v), del'[v] = del[v]
  PROVE  FrameKnows(v)'
<1>1. del[v].tenant \in Tenants
  BY DEF TypeOK, FrameType
<1>2. Released(del[v].pc, del[v].owner, del[v].tenant)'
  BY <1>1, ReleasedStands DEF FrameKnows, FrameReleased
<1>. QED  BY <1>1, <1>2 DEF FrameKnows, FrameReleased, NothingReturns

\* Each release is made before the program counter claims it.
LEMMA StepReleases ==
  ASSUME TypeOK, NEW w \in Workers, DeleteStep(w), FrameReleased(w)
  PROVE  FrameReleased(w)'
<1>0. /\ del \in [Workers -> FrameType] /\ del[w] \in FrameType
      /\ k8s \in [Tenants -> K8sType] /\ aws \in [Tenants -> AwsType]
  BY DEF TypeOK, WorldTypeOK
<1> SUFFICES ASSUME NEW pc, pc = del[w].pc, NEW o, o = del[w].owner,
                    NEW t \in Tenants, t = del[w].tenant
             PROVE  FrameReleased(w)'
  BY <1>0 DEF FrameType
<1>1. Released(pc, o, t)' /\ Released(pc, o, t)
  BY StepReturnsNothing, ReleasedStands DEF FrameReleased
<1>2. ASSUME NEW label, Goto(w, label), Released(label, o, t)'  PROVE FrameReleased(w)'
  BY <1>0, <1>2, FrameMoves DEF FrameReleased
<1>. USE DEF Released, AfterK8s, OwnerOnly, AfterIrsa, AfterSecret
<1>3. ASSUME NEW kind, Raise(w, kind)  PROVE FrameReleased(w)'
  BY <1>0, <1>3, FrameMoves DEF FrameReleased
<1>4. CASE AttemptFailed(w)
  BY <1>0, <1>4, FrameMoves DEF FrameReleased
<1>. USE DEF At
<1>5. CASE MarkStarted(w) \/ MarkDisabled(w) \/ RecordFailure(w) \/ Scale(w) \/ Unroute(w)
  BY <1>1, <1>2, <1>5 DEF MarkStarted, Mark, MarkDisabled, RecordFailure, Scale, Unroute
<1>6. CASE TofuOutputs(w)
  BY <1>1, <1>2, <1>3, <1>6 DEF TofuOutputs
<1>7. CASE LaunchDropJob(w)
  BY <1>1, <1>2, <1>4, <1>7 DEF LaunchDropJob
<1>8. CASE MarkRevoked(w) \/ MarkIam(w) \/ MarkSecret(w) \/ Purge(w)
  BY <1>1, <1>2, <1>8 DEF Mark, MarkRevoked, MarkIam, MarkSecret, Purge
<1>9. CASE MarkK8s(w)
  BY <1>1, <1>2, <1>9 DEF Mark, MarkK8s
<1>10. CASE PollDropJob(w)
  BY <1>1, <1>2, <1>4, <1>10 DEF PollDropJob
<1>11. CASE Uninstall(w)
  BY <1>1, <1>2, <1>11 DEF Uninstall
<1>12. CASE GetNs(w)
  BY <1>1, <1>2, <1>12 DEF GetNs, Fails, NsReliable
<1>13. CASE DeleteNs(w)
  BY <1>0, <1>1, <1>2, <1>3, <1>13 DEF DeleteNs, RemoveNs, NoK8s
<1>14. CASE DeleteIrsa(w)
  BY <1>0, <1>1, <1>2, <1>3, <1>14 DEF DeleteIrsa, AwsType
<1>15. CASE DeleteSecret(w)
  <2>1. DeletedSecret(aws[t].secret) # "live"
    BY DEF DeletedSecret
  <2>. QED  BY <1>0, <1>1, <1>2, <1>3, <1>15, <2>1 DEF DeleteSecret, AwsType
<1>. QED
  BY <1>5, <1>6, <1>7, <1>8, <1>9, <1>10, <1>11, <1>12, <1>13, <1>14, <1>15 DEF DeleteStep

\* The one step past the revoke is the poll that has seen the Job complete.
LEMMA RevokePassed ==
  ASSUME TypeOK, NEW w \in Workers, DeleteStep(w), del'[w].pc \in AfterRevoke
  PROVE  \/ del[w].pc \in AfterRevoke
         \/ At(w, "revoking") /\ dropjob[w].st = "complete"
<1>1. del \in [Workers -> FrameType]
  BY DEF TypeOK
<1>. QED
  BY <1>1, FrameMoves
     DEF AfterRevoke, At, DeleteStep, MarkStarted, Mark, MarkDisabled, MarkRevoked, MarkK8s, MarkIam,
         MarkSecret, Purge, RecordFailure, Scale, Unroute, TofuOutputs, LaunchDropJob, PollDropJob,
         Uninstall, GetNs, DeleteNs, DeleteIrsa, DeleteSecret

LEMMA StepFrameKnows ==
  ASSUME TypeOK, NEW w \in Workers, FrameKnows(w), JobKnows(w), DeleteStep(w)
  PROVE  FrameKnows(w)'
<1>1. /\ del[w].tenant \in Tenants
      /\ del'[w].tenant = del[w].tenant
  BY StepKeepsFrame DEF TypeOK, FrameType
<1>2. del'[w].pc \in AfterRevoke => role'[del'[w].tenant] = "none"
  BY <1>1, RevokePassed, StepReturnsNothing DEF FrameKnows, JobKnows, NothingReturns
<1>. QED  BY <1>2, StepReleases DEF FrameKnows

-----------------------------------------------------------------------------
(* The drop-role Jobs.                                                     *)

\* Nobody who leaves the Job alone, or ends it, disturbs what is known of it.
LEMMA JobStands ==
  ASSUME TypeOK, NothingReturns, NEW v \in Workers, JobKnows(v),
         \/ dropjob'[v] = dropjob[v]
         \/ dropjob'[v] = IF dropjob[v].st = "none" THEN dropjob[v]
                          ELSE [dropjob[v] EXCEPT !.st = "failed"],
         del'[v].pc = "revoking" => del'[v] = del[v]
  PROVE  JobKnows(v)'
<1>1. dropjob[v] \in JobType /\ dropjob[v].tenant \in Tenants
  BY DEF TypeOK, JobType
<1>2. \/ dropjob'[v] = dropjob[v]
      \/ dropjob'[v].st = "failed" /\ dropjob'[v].tenant = dropjob[v].tenant
  BY <1>1 DEF JobType
<1>. QED  BY <1>1, <1>2 DEF JobKnows, NothingReturns, At

LEMMA DropJobJobKnows ==
  ASSUME TypeOK, NEW w \in Workers, RunDropJob(w), NEW v \in Workers, JobKnows(v)
  PROVE  JobKnows(v)'
<1>1. /\ del' = del /\ dropjob \in [Workers -> JobType] /\ role \in [Tenants -> RoleType]
      /\ dropjob[v].tenant \in Tenants
  BY DEF RunDropJob, TypeOK, WorldTypeOK, JobType
<1>2. CASE w = v
  BY <1>1, <1>2 DEF RunDropJob, ScriptDrops, JobKnows, JobType, At
<1>3. CASE w # v
  <2>1. dropjob'[v] = dropjob[v]
    BY <1>1, <1>3 DEF RunDropJob
  <2>. QED  BY <1>1, <2>1, JobStands, DropJobReturnsNothing
<1>. QED  BY <1>2, <1>3

LEMMA StepJobKnows ==
  ASSUME TypeOK, NEW w \in Workers, DeleteStep(w), NEW v \in Workers, JobKnows(v)
  PROVE  JobKnows(v)'
<1>0. /\ del \in [Workers -> FrameType] /\ dropjob \in [Workers -> JobType]
      /\ role \in [Tenants -> RoleType] /\ dropjob[v].tenant \in Tenants
  BY DEF TypeOK, WorldTypeOK, JobType
<1>1. NothingReturns
  BY StepReturnsNothing
<1>2. v # w => del'[v] = del[v]
  BY OthersKeepFrames
<1>3. CASE LaunchDropJob(w)
  <2>1. CASE w = v
    <3>1. CASE AttemptFailed(w) /\ UNCHANGED <<dropjob, stray>>
      BY <1>0, <1>1, <2>1, <3>1, FrameMoves, JobStands
    <3>2. CASE CreatesDropJob(w) /\ (Goto(w, "revoking") \/ AttemptFailed(w))
      BY <1>0, <2>1, <3>2, FrameMoves DEF JobKnows, CreatesDropJob, At
    <3>. QED  BY <1>3, <3>1, <3>2 DEF LaunchDropJob
  <2>2. CASE w # v
    <3>1. dropjob'[v] = dropjob[v]
      BY <1>0, <1>3, <2>2 DEF LaunchDropJob, CreatesDropJob
    <3>. QED  BY <1>1, <1>2, <2>2, <3>1, JobStands
  <2>. QED  BY <2>1, <2>2
<1>4. CASE PollDropJob(w)
  <2>1. CASE w = v
    BY <1>0, <1>4, <2>1, FrameMoves DEF PollDropJob, JobKnows, NoJob, At
  <2>2. CASE w # v
    <3>1. dropjob'[v] = dropjob[v]
      BY <1>0, <1>4, <2>2 DEF PollDropJob
    <3>. QED  BY <1>1, <1>2, <2>2, <3>1, JobStands
  <2>. QED  BY <2>1, <2>2
<1>5. CASE DeleteNs(w)
  <2>1. del'[v].pc = "revoking" => del'[v] = del[v]
    BY <1>0, <1>2, <1>5, FrameMoves DEF DeleteNs
  <2>2. \/ dropjob' = dropjob
        \/ dropjob' = [x \in Workers |-> IF dropjob[x].st = "none" THEN dropjob[x]
                                         ELSE [dropjob[x] EXCEPT !.st = "failed"]]
    BY <1>5 DEF DeleteNs, RemoveNs
  <2>. QED  BY <1>1, <2>1, <2>2, JobStands
<1>6. CASE MarkStarted(w) \/ MarkDisabled(w) \/ MarkRevoked(w) \/ MarkK8s(w) \/ MarkIam(w)
           \/ MarkSecret(w) \/ Purge(w) \/ RecordFailure(w)
  <2>1. dropjob' = dropjob /\ del'[w].pc # "revoking"
    BY <1>0, <1>6, FrameMoves
       DEF MarkStarted, Mark, MarkDisabled, MarkRevoked, MarkK8s, MarkIam, MarkSecret,
           Purge, RecordFailure
  <2>. QED  BY <1>1, <1>2, <2>1, JobStands
<1>7. CASE Scale(w) \/ Unroute(w) \/ TofuOutputs(w) \/ Uninstall(w) \/ GetNs(w)
           \/ DeleteIrsa(w) \/ DeleteSecret(w)
  <2>1. dropjob' = dropjob /\ del'[w].pc # "revoking"
    BY <1>0, <1>7, FrameMoves
       DEF Scale, Unroute, TofuOutputs, Uninstall, GetNs, DeleteIrsa, DeleteSecret
  <2>. QED  BY <1>1, <1>2, <2>1, JobStands
<1>. QED  BY <1>3, <1>4, <1>5, <1>6, <1>7 DEF DeleteStep

-----------------------------------------------------------------------------
(* The registry writes of a deletion.                                      *)

\* An upsert keeps the owner, and delete_step unless it is given one.
LEMMA UpsertKeeps ==
  ASSUME NEW r \in RowType \cup {NoRow}, NEW s, NEW d, NEW x
  PROVE  /\ Upsert(r, d, s).owner = r.owner /\ Upsert(r, d, s).step = r.step
         /\ [Upsert(r, d, s) EXCEPT !.step = x].owner = r.owner
         /\ [Upsert(r, d, s) EXCEPT !.step = x].step = x
         /\ UpsertStep(r, s, x).owner = r.owner /\ UpsertStep(r, s, x).step = x
<1>1. Stored(r, s).owner = r.owner /\ Stored(r, s).step = r.step
  BY DEF Stored, NoRow
<1>2. \/ Stored(r, s) \in RowType
      \/ Stored(r, s) = [desired |-> InferredDesired(s), status |-> s, owner |-> "none", step |-> "none"]
  BY DEF Stored
<1>. QED  BY <1>1, <1>2 DEF Upsert, UpsertStep, RowType

\* The delete_step a worker at a mark writes.
MarkOf(pc) ==
  CASE pc = "mark_started" -> "started"
    [] pc = "mark_disabled" -> "access_disabled"
    [] pc = "mark_revoked" -> "db_revoked"
    [] pc = "mark_k8s" -> "k8s_deleted"
    [] pc = "mark_iam" -> "iam_deleted"
    [] OTHER -> "secret_deleted"

\* What a step that is not the purge does to the registry.
Rewrites(w, r) ==
  /\ row' = [row EXCEPT ![del[w].tenant] = r]
  /\ r.owner = row[del[w].tenant].owner
  /\ \/ At(w, "except") /\ r.step = row[del[w].tenant].step
     \/ del[w].pc \in MarkPC /\ r.step = MarkOf(del[w].pc)

\* What one step of a deletion may do to a row.
LEMMA StepRow ==
  ASSUME TypeOK, NEW w \in Workers, DeleteStep(w)
  PROVE  \/ row' = row
         \/ Purge(w)
         \/ \E r \in RowType : Rewrites(w, r)
<1>. DEFINE t == del[w].tenant
<1>0. t \in Tenants /\ row[t] \in RowType \cup {NoRow}
  BY DEF TypeOK, WorldTypeOK, FrameType
<1>1. ASSUME NEW label \in MarkPC, NEW step \in DeleteSteps, NEW next,
             Mark(w, label, step, next), step = MarkOf(label)
      PROVE  \E r \in RowType : Rewrites(w, r)
  <2>1. UpsertStep(row[t], "DELETING", step) \in RowType
    BY <1>0, UpsertType DEF STATUSES, DESIRED_STATUSES
  <2>2. Rewrites(w, UpsertStep(row[t], "DELETING", step))
    BY <1>0, <1>1, UpsertKeeps DEF Rewrites, Mark, At
  <2>. QED  BY <2>1, <2>2
<1>2. CASE MarkStarted(w)
  <2>. DEFINE r == [Upsert(row[t], "GONE", "DELETING") EXCEPT !.step = "started"]
  <2>1. r \in RowType
    BY <1>0, UpsertType DEF STATUSES, DESIRED_STATUSES, DeleteSteps
  <2>2. Rewrites(w, r)
    BY <1>0, <1>2, UpsertKeeps DEF Rewrites, MarkStarted, At, MarkPC, MarkOf
  <2>. QED  BY <2>1, <2>2
<1>3. CASE RecordFailure(w)
  <2>1. Upsert(row[t], "GONE", "DELETE_FAILED") \in RowType
    BY <1>0, UpsertType DEF STATUSES, DESIRED_STATUSES, DeleteSteps
  <2>2. Rewrites(w, Upsert(row[t], "GONE", "DELETE_FAILED"))
    BY <1>0, <1>3, UpsertKeeps DEF Rewrites, RecordFailure, At
  <2>. QED  BY <2>1, <2>2
<1>4. CASE MarkDisabled(w) \/ MarkRevoked(w) \/ MarkK8s(w) \/ MarkIam(w) \/ MarkSecret(w)
  BY <1>1, <1>4 DEF MarkDisabled, MarkRevoked, MarkK8s, MarkIam, MarkSecret, MarkPC, MarkOf, DeleteSteps
<1>. QED
  BY <1>2, <1>3, <1>4
     DEF DeleteStep, Scale, Unroute, TofuOutputs, LaunchDropJob, PollDropJob,
         Uninstall, GetNs, DeleteNs, DeleteIrsa, DeleteSecret

-----------------------------------------------------------------------------
(* A deletion keeps all of it.                                             *)

\* A write keeps the owner and takes no row away; a purge finds the identity gone.
LEMMA StepOwnerKnown ==
  ASSUME TypeOK, NEW w \in Workers, DeleteStep(w), OwnerKnown, FrameKnows(w)
  PROVE  OwnerKnown'
<1>0. del \in [Workers -> FrameType] /\ row \in [Tenants -> RowType \cup {NoRow}]
  BY DEF TypeOK, WorldTypeOK
<1> SUFFICES ASSUME NEW t \in Tenants, OwnedByCP(t), HasIdentity(t)'
             PROVE  /\ row'[t].owner = "control_plane"
                    /\ \A v \in Workers : Busy(v)' /\ del'[v].tenant = t
                                            => del'[v].owner = "control_plane"
  BY DEF OwnerKnown, OwnedByCP
<1>1. HasIdentity(t)
  BY StepReturnsNothing DEF HasIdentity, NothingReturns
<1>2. /\ row[t].owner = "control_plane"
      /\ \A v \in Workers : Busy(v) /\ del[v].tenant = t => del[v].owner = "control_plane"
  BY <1>1 DEF OwnerKnown
<1>3. Busy(w) /\ del'[w].tenant = del[w].tenant /\ del'[w].owner = del[w].owner
  BY StepKeepsFrame
<1>4. \A v \in Workers : v # w => del'[v] = del[v]
  BY OthersKeepFrames
<1>5. row'[t].owner = row[t].owner
  <2>1. del[w].tenant = t => ~Purge(w)
    BY <1>1, <1>2, <1>3 DEF FrameKnows, FrameReleased, Released, HasIdentity, Purge, At, AfterIrsa,
                            AfterSecret
  <2>2. CASE Purge(w)
    BY <1>0, <2>1, <2>2 DEF Purge
  <2>3. CASE \E r \in RowType : Rewrites(w, r)
    BY <1>0, <2>3 DEF Rewrites
  <2>. QED  BY <2>2, <2>3, StepRow
<1>. QED  BY <1>2, <1>3, <1>4, <1>5 DEF Busy

LEMMA StepNoOrphans ==
  ASSUME TypeOK, NEW w \in Workers, DeleteStep(w), OwnerKnown, NoOrphans, FrameKnows(w)
  PROVE  NoOrphans'
<1>0. del \in [Workers -> FrameType] /\ row \in [Tenants -> RowType \cup {NoRow}]
  BY DEF TypeOK, WorldTypeOK
<1> SUFFICES ASSUME NEW t \in Tenants, row'[t] = NoRow
             PROVE  /\ role[t] = "none"
                    /\ OwnedByCP(t) => ~aws[t].irsa /\ aws[t].secret # "live"
                    /\ NsReliable => ~k8s[t].ns
  BY StepReturnsNothing DEF NoOrphans, NothingReturns, OwnedByCP, NsReliable
<1>1. CASE row[t] = NoRow
  BY <1>1 DEF NoOrphans
<1>2. CASE Purge(w) /\ del[w].tenant = t
  BY <1>2 DEF Purge, At, FrameKnows, FrameReleased, Released, AfterRevoke, AfterK8s, AfterIrsa,
              AfterSecret, OwnerKnown, Busy, HasIdentity
<1>3. ASSUME row[t] # NoRow  PROVE Purge(w) /\ del[w].tenant = t
  <2>1. CASE \E r \in RowType : Rewrites(w, r)
    BY <1>0, <1>3, <2>1 DEF Rewrites, RowType, NoRow, STATUSES
  <2>. QED  BY <1>0, <1>3, <2>1, StepRow DEF Purge
<1>. QED  BY <1>1, <1>2, <1>3

\* A mark says what the program counter knows.
LEMMA StepTruthful ==
  ASSUME TypeOK, NEW w \in Workers, DeleteStep(w), DeleteStepTruthful, FrameKnows(w)
  PROVE  DeleteStepTruthful'
<1>0. del \in [Workers -> FrameType] /\ row \in [Tenants -> RowType \cup {NoRow}]
  BY DEF TypeOK, WorldTypeOK
<1>. DEFINE Truth(t, step) ==
       /\ step \in RevokedSteps => role[t] = "none"
       /\ step \in K8sSteps /\ NsReliable => ~k8s[t].ns
       /\ step \in IamSteps => ~aws[t].irsa
       /\ step \in SecretSteps => aws[t].secret # "live"
<1> SUFFICES ASSUME NEW t \in Tenants  PROVE Truth(t, row'[t].step)
  BY StepReturnsNothing DEF DeleteStepTruthful, NothingReturns, NsReliable
<1>1. Truth(t, row[t].step)
  BY DEF DeleteStepTruthful
<1>2. Truth(t, "none")
  BY DEF RevokedSteps, K8sSteps, IamSteps, SecretSteps
<1>3. ASSUME NEW r \in RowType, Rewrites(w, r), del[w].tenant = t
      PROVE  Truth(t, r.step)
  <2>1. CASE r.step = row[t].step
    BY <1>1, <2>1
  <2>2. CASE del[w].pc \in MarkPC /\ r.step = MarkOf(del[w].pc)
    BY <1>3, <2>2 DEF FrameKnows, FrameReleased, Released, MarkPC, MarkOf, AfterRevoke, AfterK8s,
                      OwnerOnly, AfterIrsa, AfterSecret, RevokedSteps, K8sSteps, IamSteps,
                      SecretSteps
  <2>. QED  BY <1>3, <2>1, <2>2 DEF Rewrites
<1>4. CASE Purge(w)
  BY <1>0, <1>1, <1>2, <1>4 DEF Purge, NoRow
<1>5. CASE \E r \in RowType : Rewrites(w, r)
  BY <1>0, <1>1, <1>3, <1>5 DEF Rewrites
<1>. QED  BY <1>1, <1>4, <1>5, StepRow

\* A step of a deletion keeps everybody's promises.
LEMMA StepKeepsPromises ==
  ASSUME TypeOK, PromisesKept, NEW w \in Workers, DeleteStep(w)
  PROVE  PromisesKept'
<1>1. ASSUME NEW v \in Workers  PROVE FrameKnows(v)' /\ JobKnows(v)'
  <2>1. FrameKnows(v) /\ JobKnows(v)
    BY DEF PromisesKept
  <2>2. JobKnows(v)'
    BY <2>1, StepJobKnows
  <2>3. FrameKnows(v)'
    BY <2>1, StepFrameKnows, OthersKeepFrames, StepReturnsNothing, FrameStands
  <2>. QED  BY <2>2, <2>3
<1>. QED  BY <1>1, StepOwnerKnown, StepNoOrphans, StepTruthful DEF PromisesKept

-----------------------------------------------------------------------------
(* So does everybody who brings nothing back, takes no row away and leaves *)
(* delete_step and an owner alone, whatever deletions begin or end.        *)

Harmless ==
  /\ NothingReturns
  /\ \A t \in Tenants :
       \/ row'[t] = row[t]
       \/ /\ row'[t] # NoRow /\ row'[t].step = row[t].step
          /\ row'[t].owner \in {row[t].owner, "control_plane"}
  /\ \A v \in Workers :
       \/ del'[v] = del[v]
       \/ del'[v].pc = "idle"
       \/ del'[v].pc = "mark_started" /\ del'[v].owner = row[del'[v].tenant].owner

\* So does any harmless step.
LEMMA HarmlessKeepsPromises ==
  ASSUME TypeOK, PromisesKept, Harmless, \A v \in Workers : JobKnows(v)'
  PROVE  PromisesKept'
<1>0. row \in [Tenants -> RowType \cup {NoRow}]
  BY DEF TypeOK, WorldTypeOK
<1>1. ASSUME NEW v \in Workers  PROVE FrameKnows(v)'
  <2>1. CASE del'[v] = del[v]
    BY <2>1, FrameStands DEF Harmless, PromisesKept
  <2>2. CASE del'[v].pc \in {"idle", "mark_started"}
    BY <2>2 DEF FrameKnows, FrameReleased, Released, AfterRevoke, AfterK8s, OwnerOnly, AfterIrsa,
                AfterSecret
  <2>. QED  BY <2>1, <2>2 DEF Harmless
<1>2. ASSUME NEW t \in Tenants, OwnedByCP(t), HasIdentity(t)'
      PROVE  /\ row'[t].owner = "control_plane"
             /\ \A v \in Workers : Busy(v)' /\ del'[v].tenant = t => del'[v].owner = "control_plane"
  <2>1. HasIdentity(t)
    BY <1>2 DEF HasIdentity, Harmless, NothingReturns
  <2>2. /\ row[t].owner = "control_plane"
        /\ \A v \in Workers : Busy(v) /\ del[v].tenant = t => del[v].owner = "control_plane"
    BY <1>2, <2>1 DEF PromisesKept, OwnerKnown
  <2>. QED  BY <2>2 DEF Harmless, Busy
<1>3. NoOrphans'
  BY DEF Harmless, NothingReturns, PromisesKept, NoOrphans, OwnedByCP, NsReliable
<1>4. \A t \in Tenants : row'[t].step = row[t].step
  BY DEF Harmless
<1>5. DeleteStepTruthful'
  BY <1>4 DEF Harmless, NothingReturns, PromisesKept, DeleteStepTruthful, NsReliable
<1>. QED  BY <1>1, <1>2, <1>3, <1>5 DEF PromisesKept, OwnerKnown, OwnedByCP

LEMMA StrayPodKeepsPromises ==
  ASSUME TypeOK, PromisesKept, NEW t \in Tenants, RunStrayPod(t)
  PROVE  PromisesKept'
<1>1. Harmless
  BY ScriptReturnsNothing DEF Harmless, RunStrayPod
<1>2. \A v \in Workers : JobKnows(v)'
  BY <1>1, JobStands DEF PromisesKept, Harmless, RunStrayPod
<1>. QED  BY <1>1, <1>2, HarmlessKeepsPromises

LEMMA DropJobKeepsPromises ==
  ASSUME TypeOK, PromisesKept, NEW w \in Workers, RunDropJob(w)
  PROVE  PromisesKept'
<1>1. Harmless
  BY DropJobReturnsNothing DEF Harmless, RunDropJob
<1>2. \A v \in Workers : JobKnows(v)'
  BY DropJobJobKnows DEF PromisesKept
<1>. QED  BY <1>1, <1>2, HarmlessKeepsPromises

-----------------------------------------------------------------------------
(* Where every owner is recorded and nobody deletes yet, all of it holds.  *)

LEMMA StartsKept ==
  ASSUME \A t \in Tenants : Absent(t) \/ Active(t) \/ Suspended(t) \/ Failed(t),
         \A w \in Workers : del[w] = NoFrame /\ dropjob[w] = NoJob
  PROVE  PromisesKept
<1>1. \A w \in Workers : FrameKnows(w) /\ JobKnows(w) /\ ~Busy(w)
  BY DEF NoFrame, NoJob, FrameKnows, JobKnows, Busy, At, FrameReleased, Released, AfterRevoke,
         AfterK8s, OwnerOnly, AfterIrsa, AfterSecret
<1>2. ASSUME NEW t \in Tenants
      PROVE  \/ Absent(t)
             \/ row[t] # NoRow /\ row[t].owner = Owner(t) /\ row[t].step = "none"
  <2>1. ASSUME NEW d \in DESIRED_STATUSES, NEW s
        PROVE  /\ Registered(t, d, s) # NoRow
               /\ Registered(t, d, s).owner = Owner(t) /\ Registered(t, d, s).step = "none"
    BY DEF Registered, NoRow, DESIRED_STATUSES
  <2>. QED  BY <2>1 DEF Active, Suspended, Failed, DESIRED_STATUSES
<1>3. OwnerKnown
  BY <1>1, <1>2 DEF OwnerKnown, Owner, OwnedByCP, Absent, HasIdentity, NoAws
<1>4. NoOrphans
  BY <1>2 DEF NoOrphans, Absent, NoAws, NoK8s
<1>5. DeleteStepTruthful
  <2>1. \A t \in Tenants : row[t].step = "none"
    BY <1>2 DEF Absent, NoRow
  <2>. QED  BY <2>1 DEF DeleteStepTruthful, RevokedSteps, K8sSteps, IamSteps, SecretSteps
<1>. QED  BY <1>1, <1>3, <1>4, <1>5 DEF PromisesKept

-----------------------------------------------------------------------------
(* A deletion follows the order.                                           *)

LEMMA HoldsType == Holds \in [Tenants -> SUBSET Things]
BY DEF Holds

\* A step that takes one thing from one tenant, after what must go before it.
LEMMA ReleaseStep ==
  ASSUME NEW t \in Tenants, NEW x \in Things,
         \A u \in Tenants : u # t => Holds'[u] = Holds[u],
         Holds'[t] = Holds[t] \ {x},
         Holds[t] \cap GoneFirst[t][x] = {}
  PROVE  Order!Next
<1>1. Holds' = [Holds EXCEPT ![t] = @ \ {x}]
  BY DEF Holds
<1>. QED  BY <1>1 DEF Order!Next, Order!Release

\* Steps that change nothing a tenant holds.
LEMMA HoldsSame ==
  ASSUME TypeOK, row' = row \/ \A t \in Tenants : row'[t] = NoRow <=> row[t] = NoRow,
         \A t \in Tenants : role'[t] = "none" <=> role[t] = "none",
         \A t \in Tenants : k8s'[t].ns <=> k8s[t].ns,
         aws' = aws
  PROVE  Holds' = Holds
BY DEF Holds, TypeOK, WorldTypeOK, K8sType

\* A step of a deletion releases what may go, records a row, or is a stutter.
LEMMA StepOrdered ==
  ASSUME TypeOK, NEW w \in Workers, DeleteStep(w), FrameKnows(w), OwnerKnown
  PROVE  Order!Next \/ Holds' = Holds
<1>0. /\ del[w] \in FrameType /\ del[w].tenant \in Tenants
      /\ row \in [Tenants -> RowType \cup {NoRow}] /\ k8s \in [Tenants -> K8sType]
      /\ aws \in [Tenants -> AwsType]
  BY DEF TypeOK, WorldTypeOK, FrameType
<1> SUFFICES ASSUME NEW t \in Tenants, t = del[w].tenant
             PROVE  Order!Next \/ Holds' = Holds
  BY <1>0
<1>1. CASE Scale(w) \/ Unroute(w) \/ Uninstall(w)
  <2>1. \A u \in Tenants : /\ ScaledTo(k8s[u], 0).ns = k8s[u].ns
                           /\ WithoutIngress(k8s[u]).ns = k8s[u].ns
                           /\ Uninstalled(k8s[u]).ns = k8s[u].ns
    BY <1>0 DEF ScaledTo, WithoutIngress, Uninstalled, K8sType
  <2>2. \A u \in Tenants : k8s'[u].ns = k8s[u].ns
    BY <1>0, <1>1, <2>1 DEF Scale, Unroute, Uninstall
  <2>. QED  BY <1>1, <2>2, HoldsSame DEF Scale, Unroute, Uninstall
<1>2. CASE TofuOutputs(w) \/ LaunchDropJob(w) \/ PollDropJob(w) \/ GetNs(w)
  BY <1>2, HoldsSame DEF TofuOutputs, LaunchDropJob, PollDropJob, GetNs
<1>3. CASE DeleteNs(w)
  <2>1. CASE UNCHANGED k8s
    BY <1>3, <2>1, HoldsSame DEF DeleteNs
  <2>2. CASE RemoveNs(t)
    <3>1. /\ \A u \in Tenants : u # t => Holds'[u] = Holds[u]
          /\ Holds'[t] = Holds[t] \ {"ns"}
      BY <1>0, <1>3, <2>2 DEF DeleteNs, RemoveNs, NoK8s, Holds, Things
    <3>2. Holds[t] \cap GoneFirst[t]["ns"] = {}
      BY <1>3 DEF DeleteNs, At, FrameKnows, FrameReleased, Released, AfterRevoke, Holds, GoneFirst,
                 Things
    <3>. QED  BY <3>1, <3>2, ReleaseStep DEF Things
  <2>. QED  BY <1>3, <2>1, <2>2 DEF DeleteNs
<1>4. CASE DeleteIrsa(w)
  <2>1. CASE UNCHANGED aws
    BY <1>4, <2>1, HoldsSame DEF DeleteIrsa
  <2>2. CASE aws' = [aws EXCEPT ![t].irsa = FALSE]
    <3>0. /\ aws'[t].irsa = FALSE /\ aws'[t].secret = aws[t].secret
          /\ \A u \in Tenants : u # t => aws'[u] = aws[u]
      BY <1>0, <2>2 DEF AwsType
    <3>1. /\ \A u \in Tenants : u # t => Holds'[u] = Holds[u]
          /\ Holds'[t] = Holds[t] \ {"irsa"}
      BY <1>4, <3>0 DEF DeleteIrsa, Holds, Things
    <3>2. Holds[t] \cap GoneFirst[t]["irsa"] = {}
      BY <1>4 DEF DeleteIrsa, At, FrameKnows, FrameReleased, Released, AfterRevoke, AfterK8s,
                 Holds, GoneFirst, Things
    <3>. QED  BY <3>1, <3>2, ReleaseStep DEF Things
  <2>. QED  BY <1>4, <2>1, <2>2 DEF DeleteIrsa
<1>5. CASE DeleteSecret(w)
  <2>1. CASE UNCHANGED aws
    BY <1>5, <2>1, HoldsSame DEF DeleteSecret
  <2>2. CASE aws' = [aws EXCEPT ![t].secret = DeletedSecret(@)]
    <3>0. /\ aws'[t].irsa = aws[t].irsa /\ aws'[t].secret # "live"
          /\ \A u \in Tenants : u # t => aws'[u] = aws[u]
      BY <1>0, <2>2 DEF AwsType, DeletedSecret
    <3>1. /\ \A u \in Tenants : u # t => Holds'[u] = Holds[u]
          /\ Holds'[t] = Holds[t] \ {"secret"}
      BY <1>5, <3>0 DEF DeleteSecret, Holds, Things
    <3>2. Holds[t] \cap GoneFirst[t]["secret"] = {}
      BY <1>5 DEF DeleteSecret, At, FrameKnows, FrameReleased, Released, AfterRevoke, AfterK8s,
                 AfterIrsa, OwnerOnly,
                  Holds, GoneFirst, Things
    <3>. QED  BY <3>1, <3>2, ReleaseStep DEF Things
  <2>. QED  BY <1>5, <2>1, <2>2 DEF DeleteSecret
<1>6. CASE Purge(w)
  <2>1. /\ \A u \in Tenants : u # t => Holds'[u] = Holds[u]
        /\ Holds'[t] = Holds[t] \ {"record"}
    BY <1>0, <1>6 DEF Purge, Holds, Things
  <2>2. Holds[t] \cap GoneFirst[t]["record"] = {}
    BY <1>6 DEF Purge, At, FrameKnows, FrameReleased, Released, AfterRevoke, AfterK8s, AfterIrsa,
               AfterSecret,
                OwnerKnown, Busy, HasIdentity, Holds, GoneFirst, Things
  <2>. QED  BY <2>1, <2>2, ReleaseStep DEF Things
<1>7. ASSUME NEW r \in RowType, Rewrites(w, r), UNCHANGED <<k8s, aws, role>>
      PROVE  Order!Next
  <2>1. r # NoRow
    BY DEF RowType, NoRow, STATUSES
  <2>2. row' = [row EXCEPT ![t] = r]
    BY <1>7 DEF Rewrites
  <2>3. /\ \A u \in Tenants : u # t => Holds'[u] = Holds[u]
        /\ Holds'[t] = Holds[t] \cup {"record"}
    BY <1>0, <1>7, <2>1, <2>2 DEF Holds, Things
  <2>4. Holds' = [Holds EXCEPT ![t] = @ \cup {"record"}]
    BY <2>3 DEF Holds
  <2>. QED  BY <2>4 DEF Order!Next, Order!Record
<1>8. CASE \/ MarkStarted(w) \/ MarkDisabled(w) \/ MarkRevoked(w) \/ MarkK8s(w)
           \/ MarkIam(w) \/ MarkSecret(w) \/ RecordFailure(w)
  <2>1. UNCHANGED <<k8s, aws, role>>
    BY <1>8 DEF MarkStarted, Mark, MarkDisabled, MarkRevoked, MarkK8s, MarkIam, MarkSecret,
                RecordFailure
  <2>2. CASE row' = row
    BY <2>1, <2>2, HoldsSame
  <2>3. ~Purge(w)
    BY <1>8 DEF MarkStarted, Mark, MarkDisabled, MarkRevoked, MarkK8s, MarkIam, MarkSecret,
                RecordFailure, Purge, At
  <2>. QED  BY <1>7, <2>1, <2>2, <2>3, StepRow
<1>. QED  BY <1>1, <1>2, <1>3, <1>4, <1>5, <1>6, <1>8 DEF DeleteStep

LEMMA ScriptOrdered ==
  ASSUME TypeOK, NEW t \in Tenants, ScriptDrops(t) \/ ScriptFails(t), UNCHANGED <<row, k8s, aws>>
  PROVE  Order!Next \/ Holds' = Holds
<1>0. role \in [Tenants -> RoleType]
  BY DEF TypeOK, WorldTypeOK
<1>1. CASE role' = [role EXCEPT ![t] = "none"]
  <2>1. /\ \A u \in Tenants : u # t => Holds'[u] = Holds[u]
        /\ Holds'[t] = Holds[t] \ {"role"}
    BY <1>0, <1>1 DEF Holds, Things
  <2>2. Holds[t] \cap GoneFirst[t]["role"] = {}
    BY DEF GoneFirst, Things
  <2>. QED  BY <2>1, <2>2, ReleaseStep DEF Things
<1>2. CASE role' = role \/ (role[t] = "login" /\ role' = [role EXCEPT ![t] = "nologin"])
  BY <1>0, <1>2, HoldsSame
<1>. QED  BY <1>1, <1>2 DEF ScriptDrops, ScriptFails

LEMMA DropJobOrdered ==
  ASSUME TypeOK, NEW w \in Workers, RunDropJob(w)
  PROVE  Order!Next \/ Holds' = Holds
<1>1. dropjob[w].tenant \in Tenants
  BY DEF TypeOK, JobType
<1>. QED  BY <1>1, ScriptOrdered DEF RunDropJob

LEMMA StrayPodOrdered ==
  ASSUME TypeOK, NEW t \in Tenants, RunStrayPod(t)
  PROVE  Order!Next \/ Holds' = Holds
BY ScriptOrdered DEF RunStrayPod
=============================================================================
