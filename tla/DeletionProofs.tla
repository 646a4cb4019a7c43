--------------------------- MODULE DeletionProofs ---------------------------
(***************************************************************************)
(* Proofs about Deletion, for every set of tenants and workers, every      *)
(* choice and number of failures.  What a single step keeps is proved in   *)
(* TeardownProofs.                                                         *)
(***************************************************************************)
EXTENDS Deletion, TeardownProofs

-----------------------------------------------------------------------------
(* Types.                                                                  *)

LEMMA InitTypeOK == Init => TypeOK
<1> SUFFICES ASSUME Init PROVE TypeOK
  OBVIOUS
<1>1. row \in [Tenants -> RowType \cup {NoRow}]
  <2>1. ASSUME NEW t \in Tenants  PROVE  RowStarts(t) \subseteq RowType \cup {NoRow}
    <3>1. ASSUME NEW d \in DESIRED_STATUSES, NEW s \in STATUSES
          PROVE  /\ Registered(t, d, s) \in RowType
                 /\ [Registered(t, d, s) EXCEPT !.owner = "none"] \in RowType
      BY DEF Registered, Owner, RowType, Owners, DeleteSteps
    <3>. QED  BY <3>1 DEF RowStarts, STATUSES, DESIRED_STATUSES
  <2>. QED  BY <2>1 DEF Init
<1>2. k8s \in [Tenants -> K8sType]
  <2>1. /\ NoK8s \in K8sType
        /\ FullK8s \in K8sType
        /\ BareNs \in K8sType
        /\ IdleK8s \in K8sType
    BY DEF NoK8s, FullK8s, BareNs, IdleK8s, K8sType
  <2>. QED  BY <2>1 DEF Init
<1>3. aws \in [Tenants -> AwsType]
  <2>1. NoAws \in AwsType /\ FullAws \in AwsType /\ [NoAws EXCEPT !.secret = "live"] \in AwsType
    BY DEF NoAws, FullAws, AwsType
  <2>. QED  BY <2>1 DEF Init
<1>4. role \in [Tenants -> RoleType]
  BY DEF Init, RoleType
<1>5. faults \in 0..MaxFaults
  BY FaultAssumption DEF Init
<1>6. del \in [Workers -> FrameType]
  BY PlatformAssumption DEF Init, NoFrame, FrameType, DeletePC, Owners, ErrorKinds, Attempts
<1>7. dropjob \in [Workers -> JobType] /\ stray \in [Tenants -> Nat]
  BY NoFrameType DEF Init
<1>. QED  BY <1>1, <1>2, <1>3, <1>4, <1>5, <1>6, <1>7 DEF TypeOK, WorldTypeOK

LEMMA NextTypeOK == TypeOK /\ [Next]_vars => TypeOK'
<1> SUFFICES ASSUME TypeOK, [Next]_vars  PROVE TypeOK'
  OBVIOUS
<1>1. ASSUME NEW w \in Workers, NEW t \in Targets, Begin(w, t)  PROVE TypeOK'
  BY <1>1, TargetAssumption, BeginTypeOK
<1>2. ASSUME NEW w \in Workers, DeleteStep(w)  PROVE TypeOK'
  BY <1>2, StepTypeOK
<1>3. ASSUME NEW w \in Workers, Finish(w) \/ CrashDelete(w)  PROVE TypeOK'
  <2>1. del' \in [Workers -> FrameType]
    BY <1>3, NoFrameType DEF Finish, CrashDelete, TypeOK
  <2>2. faults' \in 0..MaxFaults
    BY <1>3, FailsType DEF Finish, CrashDelete, world, TypeOK, WorldTypeOK
  <2>3. UNCHANGED <<row, k8s, aws, role, dropjob, stray>>
    BY <1>3 DEF Finish, CrashDelete, world
  <2>. QED  BY <2>1, <2>2, <2>3 DEF TypeOK, WorldTypeOK
<1>4. ASSUME NEW w \in Workers, RunDropJob(w)  PROVE TypeOK'
  BY <1>4, DropJobTypeOK
<1>5. CASE UNCHANGED vars
  BY <1>5 DEF vars, world, TypeOK, WorldTypeOK
<1>. QED  BY <1>1, <1>2, <1>3, <1>4, <1>5, StrayPodTypeOK DEF Next, WorkerStep

(***************************************************************************)
(* Every variable keeps its type, however the deletions interleave, fail   *)
(* and crash.                                                              *)
(***************************************************************************)
THEOREM TypeCorrect == Spec => []TypeOK
BY InitTypeOK, NextTypeOK, PTL DEF Spec

-----------------------------------------------------------------------------
(* The invariant is inductive.                                             *)

LEMMA InitIInv ==
  ASSUME "unrecorded" \notin Origins, Init
  PROVE  IInv
<1>1. ASSUME NEW t \in Tenants
      PROVE  Absent(t) \/ Active(t) \/ Suspended(t) \/ Failed(t)
  <2>1. CASE t \in Targets
    BY <2>1, OriginAssumption DEF Init, StartsIn, Situations
  <2>. QED  BY <2>1 DEF Init
<1>2. \A w \in Workers : del[w] = NoFrame /\ dropjob[w] = NoJob
  BY DEF Init
<1>. QED  BY <1>1, <1>2, InitTypeOK, StartsKept DEF IInv

\* Starts, steps, pods, crashes and ends keep the promises.
LEMMA NextIInv == IInv /\ [Next]_vars => IInv'
<1> SUFFICES ASSUME TypeOK, PromisesKept, [Next]_vars  PROVE PromisesKept'
  BY NextTypeOK DEF IInv
<1>0. del \in [Workers -> FrameType]
  BY DEF TypeOK
<1>1. ASSUME UNCHANGED <<row, k8s, aws, role, dropjob, stray>>,
             \A v \in Workers :
               \/ del'[v] = del[v]
               \/ del'[v].pc = "idle"
               \/ del'[v].pc = "mark_started" /\ del'[v].owner = row[del'[v].tenant].owner
      PROVE  PromisesKept'
  <2>1. Harmless
    BY <1>1 DEF Harmless, NothingReturns
  <2>2. \A v \in Workers : JobKnows(v)'
    BY <1>1, <2>1, JobStands DEF PromisesKept, Harmless
  <2>. QED  BY <2>1, <2>2, HarmlessKeepsPromises
<1>2. ASSUME NEW w \in Workers, NEW t \in Targets, Begin(w, t)  PROVE PromisesKept'
  BY <1>0, <1>1, <1>2 DEF Begin, world
<1>3. ASSUME NEW w \in Workers, Finish(w) \/ CrashDelete(w)  PROVE PromisesKept'
  BY <1>0, <1>1, <1>3 DEF Finish, CrashDelete, NoFrame, world
<1>4. CASE UNCHANGED vars
  BY <1>1, <1>4 DEF vars, world
<1>. QED
  BY <1>2, <1>3, <1>4, StepKeepsPromises, DropJobKeepsPromises, StrayPodKeepsPromises
     DEF Next, WorkerStep

(***************************************************************************)
(* From tenants whose identity the registry records (see Unrecorded), the  *)
(* strengthened invariant holds in every state.                            *)
(***************************************************************************)
THEOREM InvariantHolds ==
  ASSUME "unrecorded" \notin Origins
  PROVE  Spec => []IInv
<1>1. Init => IInv
  BY InitIInv
<1>. QED  BY <1>1, NextIInv, PTL DEF Spec

(***************************************************************************)
(* A tenant that has lost its registry row has lost everything only the    *)
(* row knew of, however many deletions overlapped, failed or crashed.      *)
(***************************************************************************)
THEOREM NoOrphansHolds ==
  ASSUME "unrecorded" \notin Origins
  PROVE  Spec => []NoOrphans
<1>1. IInv => NoOrphans
  BY DEF IInv, PromisesKept
<1>. QED  BY <1>1, InvariantHolds, PTL

(***************************************************************************)
(* From db_revoked on, delete_step claims no more than is true (of the     *)
(* namespace, if kubectl get ns is reliable), whichever of the overlapping *)
(* deletions wrote it last.                                                *)
(***************************************************************************)
THEOREM DeleteStepTruthfulHolds ==
  ASSUME "unrecorded" \notin Origins
  PROVE  Spec => []DeleteStepTruthful
<1>1. IInv => DeleteStepTruthful
  BY DEF IInv, PromisesKept
<1>. QED  BY <1>1, InvariantHolds, PTL

-----------------------------------------------------------------------------
(* Deletion implements OrderedRelease.                                     *)

\* Every step releases what may go, records a row, or is a stutter.
LEMMA NextOrdered == IInv /\ [Next]_vars => [Order!Next]_Holds
<1> SUFFICES ASSUME IInv, [Next]_vars  PROVE Order!Next \/ Holds' = Holds
  OBVIOUS
<1>0. TypeOK /\ OwnerKnown /\ \A w \in Workers : FrameKnows(w)
  BY DEF IInv, PromisesKept
<1>1. ASSUME NEW w \in Workers, NEW t \in Targets, Begin(w, t)  PROVE Holds' = Holds
  BY <1>0, <1>1, HoldsSame DEF Begin, world
<1>2. ASSUME NEW w \in Workers, Finish(w) \/ CrashDelete(w)  PROVE Holds' = Holds
  BY <1>0, <1>2, HoldsSame DEF Finish, CrashDelete, world
<1>3. ASSUME NEW w \in Workers, RunDropJob(w)  PROVE Order!Next \/ Holds' = Holds
  BY <1>0, <1>3, DropJobOrdered
<1>4. ASSUME NEW w \in Workers, DeleteStep(w)  PROVE Order!Next \/ Holds' = Holds
  BY <1>0, <1>4, StepOrdered
<1>5. CASE UNCHANGED vars
  BY <1>0, <1>5, HoldsSame DEF vars, world
<1>6. ASSUME NEW t \in Tenants, RunStrayPod(t)  PROVE Order!Next \/ Holds' = Holds
  BY <1>0, <1>6, StrayPodOrdered
<1>. QED  BY <1>1, <1>2, <1>3, <1>4, <1>5, <1>6 DEF Next, WorkerStep

(***************************************************************************)
(* Deletion implements the abstract order: role, namespace, IRSA role,     *)
(* secret, registry row, and nothing released comes back.                  *)
(***************************************************************************)
THEOREM ImplementsOrderHolds ==
  ASSUME "unrecorded" \notin Origins
  PROVE  Spec => ImplementsOrder
<1>1. Init => Order!Init
  BY HoldsType DEF Order!Init, Order!TypeOK
<1>. QED
  BY <1>1, NextOrdered, InvariantHolds, PTL DEF Spec, ImplementsOrder, Order!Spec
=============================================================================
