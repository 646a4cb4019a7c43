------------------------- MODULE ControlPlaneProofs -------------------------
(***************************************************************************)
(* For any number of tenants, handlers, threads and processes: _inflight   *)
(* is exactly the set of tenants with a background job, and no tenant has  *)
(* two.  The procedures a job runs do not matter, only that each way a job *)
(* can end passes through `finally`.                                       *)
(***************************************************************************)
EXTENDS ControlPlane, TLAPS

\* Requests and jobs are what they look like; JobsSerialised needs this of
\* them and is then inductive.
JobsInv ==
  /\ req \in [Handlers -> ReqType]
  /\ job \in [Threads -> JobFrame]
  /\ JobsSerialised

LEMMA InitJobs == CPInit => JobsInv
<1>. SUFFICES ASSUME CPInit PROVE JobsInv
  OBVIOUS
<1>1. NoReq \in ReqType /\ NoTask \in JobFrame
  BY PlatformAssumption DEF NoReq, NoTask, ReqType, JobFrame, AllOps
<1>2. \A j \in Threads : ~Busied(j)
  BY DEF CPInit, Busied, NoTask
<1>3. inflight = {} /\ req = [h \in Handlers |-> NoReq] /\ job = [j \in Threads |-> NoTask]
  BY DEF CPInit
<1>. QED  BY <1>1, <1>2, <1>3 DEF JobsInv, JobsSerialised

-----------------------------------------------------------------------------
(* The three things a step can do to jobs.                                 *)

\* It leaves them alone.
LEMMA JobsStay ==
  ASSUME JobsInv, job' = job, inflight' = inflight, req' \in [Handlers -> ReqType]
  PROVE  JobsInv'
BY DEF JobsInv, JobsSerialised, Busied

\* One job goes from one of its steps to the next.
LEMMA JobMoves ==
  ASSUME JobsInv, NEW j \in Threads, Busied(j),
         NEW label \in {"run", "get", "upsert", "finally"},
         JobTo(j, label), inflight' = inflight, req' = req
  PROVE  JobsInv'
<1>1. job' \in [Threads -> JobFrame]
  BY DEF JobsInv, JobTo, JobFrame
<1>2. \A i \in Threads : job'[i].tenant = job[i].tenant /\ (Busied(i)' <=> Busied(i))
  BY DEF JobsInv, JobTo, JobFrame, Busied
<1>. QED  BY <1>1, <1>2 DEF JobsInv, JobsSerialised

\* A job is started, or the request is answered without one.
LEMMA JobStarts ==
  ASSUME JobsInv, NEW h \in Handlers, StartJob(h)
  PROVE  JobsInv'
<1>. DEFINE t == req[h].tenant
<1>1. req' \in [Handlers -> ReqType]
  BY PlatformAssumption DEF JobsInv, StartJob, Answer, NoReq, ReqType, AllOps
<1>2. CASE t \in inflight
  BY <1>1, <1>2, JobsStay DEF StartJob
<1>3. CASE t \notin inflight
  <2>1. PICK j \in Threads :
          /\ job[j].pc = "idle"
          /\ job' = [job EXCEPT ![j] = [pc |-> "spawned", op |-> req[h].op, tenant |-> t]]
    BY <1>3 DEF StartJob
  <2>2. req[h].op \in AllOps /\ t \in Tenants
    BY DEF JobsInv, ReqType
  <2>3. job' \in [Threads -> JobFrame]
    BY <2>1, <2>2 DEF JobsInv, JobFrame
  <2>4. job'[j].tenant = t /\ Busied(j)' /\ \A i \in Threads \ {j} : job'[i] = job[i]
    BY <2>1 DEF JobsInv, Busied
  <2>5. \A i \in Threads : Busied(i) => i # j /\ job[i].tenant # t
    BY <1>3, <2>1 DEF JobsInv, JobsSerialised, Busied
  <2>6. inflight' = inflight \cup {t}
    BY <1>3 DEF StartJob
  <2>7. \A i \in Threads \ {j} : job'[i].tenant = job[i].tenant /\ (Busied(i)' <=> Busied(i))
    BY <2>4 DEF Busied
  <2>8. inflight' = {job'[i].tenant : i \in {i \in Threads : Busied(i)'}}
    BY <2>4, <2>5, <2>6, <2>7 DEF JobsInv, JobsSerialised
  <2>9. \A i, k \in Threads : Busied(i)' /\ Busied(k)' /\ i # k => job'[i].tenant # job'[k].tenant
    BY <2>4, <2>5, <2>7 DEF JobsInv, JobsSerialised
  <2>. QED  BY <1>1, <2>3, <2>8, <2>9 DEF JobsInv, JobsSerialised
<1>. QED  BY <1>2, <1>3

\* A job leaves _inflight with its thread.
LEMMA JobEnds ==
  ASSUME JobsInv, NEW j \in Threads, Discard(j)
  PROVE  JobsInv'
<1>1. NoTask \in JobFrame /\ NoTask.pc = "idle"
  BY PlatformAssumption DEF NoTask, JobFrame, AllOps
<1>2. job' \in [Threads -> JobFrame] /\ req' = req
  BY <1>1 DEF JobsInv, Discard
<1>3. ~Busied(j)' /\ Busied(j) /\ \A i \in Threads \ {j} : job'[i] = job[i]
  BY <1>1 DEF JobsInv, Discard, Busied, JobAt
<1>4. \A i \in Threads \ {j} : job'[i].tenant = job[i].tenant /\ (Busied(i)' <=> Busied(i))
  BY <1>3 DEF Busied
<1>5. inflight' = inflight \ {job[j].tenant}
  BY DEF Discard
<1>6. inflight' = {job'[i].tenant : i \in {i \in Threads : Busied(i)'}}
  BY <1>3, <1>4, <1>5 DEF JobsInv, JobsSerialised
<1>7. \A i, k \in Threads : Busied(i)' /\ Busied(k)' /\ i # k => job'[i].tenant # job'[k].tenant
  BY <1>3, <1>4 DEF JobsInv, JobsSerialised
<1>. QED  BY <1>2, <1>6, <1>7 DEF JobsInv, JobsSerialised

-----------------------------------------------------------------------------
(* Every step is one of these.                                             *)

LEMMA ReceiveKeepsJobs ==
  ASSUME JobsInv, NEW h \in Handlers, NEW t \in Targets, NEW op \in Ops, Receive(h, t, op)
  PROVE  JobsInv'
<1>1. [pc |-> "get", op |-> op, tenant |-> t] \in ReqType
  BY ScopeAssumption DEF ReqType
<1>2. req' \in [Handlers -> ReqType]
  BY <1>1 DEF JobsInv, Receive
<1>. QED  BY <1>2, JobsStay DEF Receive

LEMMA HandlerKeepsJobs ==
  ASSUME JobsInv, NEW h \in Handlers, HandlerStep(h)
  PROVE  JobsInv'
<1>1. NoReq \in ReqType
  BY PlatformAssumption DEF NoReq, ReqType, AllOps
<1>2. ASSUME Answer(h)  PROVE req' \in [Handlers -> ReqType]
  BY <1>1, <1>2 DEF Answer, JobsInv
<1>3. ASSUME NEW label \in {"insert", "check", "upsert", "start", "answer"}, ReqTo(h, label)
      PROVE  req' \in [Handlers -> ReqType]
  BY <1>3 DEF ReqTo, JobsInv, ReqType
<1>4. CASE StartJob(h)
  BY <1>4, JobStarts
<1>5. CASE GetForCreate(h)
  BY <1>2, <1>3, <1>5, JobsStay DEF GetForCreate
<1>6. CASE UpsertForCreate(h)
  BY <1>3, <1>6, JobsStay DEF UpsertForCreate
<1>7. CASE GetForResume(h)
  BY <1>2, <1>3, <1>7, JobsStay DEF GetForResume
<1>8. CASE GetForDelete(h)
  BY <1>3, <1>8, JobsStay DEF GetForDelete
<1>9. CASE InsertForDelete(h) \/ UpsertForDelete(h)
  BY <1>3, <1>9, JobsStay DEF InsertForDelete, UpsertForDelete, MarkDeleting
<1>10. CASE CheckInflight(h)
  BY <1>2, <1>3, <1>10, JobsStay DEF CheckInflight
<1>11. CASE CallInRequest(h)
  BY <1>3, <1>11, JobsStay DEF CallInRequest
<1>12. CASE AnswerRequest(h)
  BY <1>2, <1>12, JobsStay DEF AnswerRequest
<1>. QED  BY <1>4, <1>5, <1>6, <1>7, <1>8, <1>9, <1>10, <1>11, <1>12 DEF HandlerStep

LEMMA ThreadKeepsJobs ==
  ASSUME JobsInv, NEW j \in Threads, ThreadStep(j)
  PROVE  JobsInv'
<1>1. CASE RunJob(j)
  BY <1>1, JobMoves DEF RunJob, JobAt, Busied
<1>2. CASE DeleteEnds(j)
  BY <1>2, JobMoves DEF DeleteEnds, JobAt, Busied
<1>3. CASE OnboardingEnds(j)
  BY <1>3, JobMoves DEF OnboardingEnds, JobAt, Busied
<1>4. CASE CheckRow(j)
  BY <1>4, JobMoves DEF CheckRow, JobAt, Busied
<1>5. CASE RecordJobFailure(j)
  BY <1>5, JobMoves DEF RecordJobFailure, JobAt, Busied
<1>6. CASE Discard(j)
  BY <1>6, JobEnds
<1>. QED  BY <1>1, <1>2, <1>3, <1>4, <1>5, <1>6 DEF ThreadStep

LEMMA RestartKeepsJobs ==
  ASSUME JobsInv, Restart
  PROVE  JobsInv'
<1>1. NoReq \in ReqType /\ NoTask \in JobFrame /\ NoTask.pc = "idle"
  BY PlatformAssumption DEF NoReq, NoTask, ReqType, JobFrame, AllOps
<1>2. req' \in [Handlers -> ReqType] /\ job' \in [Threads -> JobFrame] /\ inflight' = {}
  BY <1>1 DEF Restart
<1>3. \A j \in Threads : ~Busied(j)'
  BY <1>1 DEF Restart, Busied
<1>. QED  BY <1>2, <1>3 DEF JobsInv, JobsSerialised

LEMMA NextJobs == JobsInv /\ [CPNext]_cpVars => JobsInv'
<1>. SUFFICES ASSUME JobsInv, [CPNext]_cpVars  PROVE JobsInv'
  OBVIOUS
<1>1. ASSUME UNCHANGED apiVars  PROVE JobsInv'
  BY <1>1, JobsStay DEF apiVars, JobsInv
<1>2. CASE UNCHANGED cpVars
  BY <1>1, <1>2 DEF cpVars, apiVars
<1>3. CASE \E h \in Handlers, t \in Targets, op \in Ops : Receive(h, t, op)
  BY <1>3, ReceiveKeepsJobs
<1>4. CASE \E h \in Handlers : HandlerStep(h)
  BY <1>4, HandlerKeepsJobs
<1>5. CASE \E j \in Threads : ThreadStep(j)
  BY <1>5, ThreadKeepsJobs
<1>6. CASE \E s \in Shells, t \in Targets, op \in Ops : Command(s, t, op)
  BY <1>1, <1>6 DEF Command
<1>7. CASE \E s \in Shells : Exit(s) \/ Interrupt(s)
  BY <1>1, <1>7 DEF Exit, Interrupt, apiVars
<1>8. CASE (\E w \in Workers : Procedure(w) \/ DropPod(w)) \/ \E t \in Tenants : StrayPod(t)
  BY <1>1, <1>8 DEF Procedure, DropPod, StrayPod, apiVars
<1>9. CASE MigratePod
  BY <1>1, <1>9 DEF MigratePod, apiVars
<1>10. CASE DriftByHand
  BY <1>1, <1>10 DEF DriftByHand
<1>11. CASE Restart
  BY <1>11, RestartKeepsJobs
<1>. QED  BY <1>2, <1>3, <1>4, <1>5, <1>6, <1>7, <1>8, <1>9, <1>10, <1>11 DEF CPNext

LEMMA JobsInvHolds == CPSpec => []JobsInv
BY InitJobs, NextJobs, PTL DEF CPSpec

\* _inflight of app.py and its background threads always agree, and no tenant
\* ever has two jobs: _start_job's lock and its finally clause are enough,
\* whatever requests, failures and restarts come in between.
THEOREM JobsSerialisedHolds == CPSpec => []JobsSerialised
<1>1. JobsInv => JobsSerialised
  BY DEF JobsInv
<1>. QED  BY <1>1, JobsInvHolds, PTL
=============================================================================
