----------------------------- MODULE Invariants -----------------------------
(***************************************************************************)
(* The inductive invariants behind the properties of ControlPlane: what    *)
(* the registers of each actor say of the rest.  TLC checks them beside    *)
(* the properties they carry, the proof modules prove them.                *)
(***************************************************************************)
EXTENDS ControlPlane

-----------------------------------------------------------------------------
(* Types: CPTypeOK needs to know what the reconciler and the handlers hold *)
(* when they write it.                                                     *)

\* In a pass the reconciler has the status of each tenant it visits or has
\* still to visit; and it has a status by the time it records one.
RecKnows(w) ==
  LET f == rec[w] IN
  /\ f.pass => \A t \in f.todo : f.was[t] \in STATUSES
  /\ f.pass /\ f.pc \notin {"idle", "list", "next", "returned", "raised"} =>
       f.was[f.tenant] \in STATUSES /\ f.tenant \notin f.todo
  /\ f.pc = "absorb" => f.pass
  /\ f.pc = "settle" => f.status \in STATUSES
  /\ f.pc = "record" /\ f.plan = "none" => f.status \in STATUSES
  /\ f.pc \in {"ns", "deploy", "edge", "record", "purge", "settle", "call", "wait", "except"} =>
       f.desired \in DESIRED_STATUSES

\* Requests are about the tenants operators work on.
Requested(h) == ReqAt(h, "idle") \/ req[h].tenant \in Targets

\* Every variable has its type, and what is read now and written later is a
\* value the registry accepts.
TypeInv ==
  /\ CPTypeOK
  /\ \A w \in Workers : RecKnows(w)
  /\ \A h \in Handlers : Requested(h)

-----------------------------------------------------------------------------
(* While requests are all there is, and none of them reconciles: who runs  *)
(* a deletion or an onboarding is the background thread that has the job,  *)
(* so that JobsSerialised keeps two of them apart.                         *)

RequestsOnly == Shells = {} /\ Ops \subseteq {"create", "delete", "suspend", "resume"}

JobKinds == {"create", "delete", "resume"}

JobOps ==
  /\ \A h \in Handlers : /\ ReqAt(h, "idle") \/ req[h].op \in Ops
                         /\ ReqAt(h, "start") => req[h].op \in JobKinds
  /\ \A j \in Threads : Busied(j) => job[j].op \in JobKinds

JobFrames ==
  \A w \in Workers :
    /\ rec[w].pc = "idle" /\ adp[w].pc = "idle"
    /\ del[w].pc # "idle" => /\ w \in Threads /\ JobAt(w, "run") /\ job[w].op = "delete"
                             /\ del[w].tenant = job[w].tenant
    /\ onb[w].pc # "idle" => /\ w \in Threads /\ JobAt(w, "run")
                             /\ job[w].op \in {"create", "resume"}
                             /\ onb[w].tenant = job[w].tenant
    /\ onb[w].site \in {Platform, onb[w].tenant}

\* The owner a deletion has read is still the owner, and what its program
\* counter says it has released stays released.
OwnerHeld(w) ==
  Busy(w) /\ row[del[w].tenant].owner = "control_plane" => del[w].owner = "control_plane"

OwnedInv ==
  /\ JobOps
  /\ JobFrames
  /\ JobsSerialised
  /\ \A w \in Workers : OwnerHeld(w) /\ FrameReleased(w)

-----------------------------------------------------------------------------
(* The same while nothing is suspended or changed by hand: ACTIVE means    *)
(* ready at any time, since whoever takes a tenant apart has written       *)
(* DELETING before, and only an onboarding writes ACTIVE.                  *)

JobsOnly ==
  /\ Shells = {} /\ Ops \subseteq JobKinds
  /\ Platform \notin Targets /\ "drift" \notin Faults

\* No restart and no attempt at a revoke that fails with its Job's pod running on:
\* both leave pods nobody waits for.
PodsAwaited == {"crash", "lost_job"} \cap Faults = {}

\* What holds of the database role as well takes one tenant: an onboarding waits
\* for the migrate Job by its name, be it the one another onboarding has started.
RolesKept == PodsAwaited /\ \A t, u \in Targets : t = u

Usable(t) == aws[t] = FullAws /\ (RolesKept => role[t] # "none")

StatusMeans(t) ==
  /\ row[t].status = "ACTIVE" => Edge(t) /\ Usable(t)
  /\ row[t].status = "SUSPENDED" => Usable(t)

\* A deletion past its first write.
TakesApart(w) == Busy(w) /\ ~At(w, "mark_started")

DeleteMarks(w) ==
  TakesApart(w) => row[del[w].tenant].status \notin {"ACTIVE", "SUSPENDED"}

\* A pod that may still drop a role has its deletion waiting for it.
PodAwaited(w) ==
  dropjob[w].st = "running" => At(w, "revoking") /\ dropjob[w].tenant = del[w].tenant

\* The migrate Job on the map of `t` creates the role of `t` before it ends.
WillMigrate(t) == t \in mig.map /\ (t \in mig.todo \/ role[t] # "none")

ProvisionKnows(w) ==
  LET f == onb[w]
      t == onb[w].tenant
  IN
  f.kind = "provision" =>
    /\ f.pc \notin {"get", "scale"}
    /\ f.pc = "irsa" => aws[t].secret = "live"
    /\ f.pc \in {"record", "snapshot", "ns", "clear", "helm", "wait", "edge", "activate"} =>
         aws[t] = FullAws
    /\ f.pc \in {"ns", "clear", "helm", "wait"} => t \in f.map /\ f.site \in {Platform, t}
    /\ f.pc \in {"clear", "wait"} => f.site = Platform
    /\ f.pc \in {"edge", "activate"} => Edge(t)
    /\ RolesKept =>
         /\ f.pc = "helm" /\ f.site = Platform => mig = NoMig
         /\ f.pc = "wait" => mig = NoMig \/ WillMigrate(t)
         /\ f.pc \in {"ns", "helm"} /\ f.site = t => role[t] # "none"
         /\ f.pc \in {"edge", "activate"} => role[t] # "none"

ResumeKnows(w) ==
  LET f == onb[w]
      t == onb[w].tenant
  IN
  f.kind = "resume" =>
    /\ f.pc \in {"idle", "get", "outputs", "snapshot", "ns", "helm", "scale", "edge",
                 "activate", "returned", "raised"}
    /\ f.pc \in {"outputs", "snapshot", "ns", "helm", "scale", "edge", "activate"} => Usable(t)
    /\ f.pc \in {"ns", "helm", "scale"} => f.site = t
    /\ f.pc \in {"scale", "edge", "activate"} => Edge(t)

ReadyInv ==
  /\ JobOps
  /\ JobFrames
  /\ JobsSerialised
  /\ \A w \in Workers : sus[w].pc = "idle"
  /\ \A t \in Targets : StatusMeans(t)
  /\ k8s[Platform].ns
  /\ mig.st = "complete" => mig.todo = {}
  /\ \A w \in Workers : DeleteMarks(w) /\ ProvisionKnows(w) /\ ResumeKnows(w)
  /\ RolesKept => stray = NoStrays /\ \A w \in Workers : PodAwaited(w)

\* ActiveIsReady but for the database role.
ActiveIsUp ==
  \A t \in Targets : row[t].status = "ACTIVE" /\ ~Working(t) => Edge(t) /\ aws[t] = FullAws

-----------------------------------------------------------------------------
(* While nobody provisions, resumes or reconciles, deletions keep their    *)
(* promises whoever runs them: nothing brings back what one has removed.   *)

NothingProvisions == Ops \cap {"create", "resume", "reconcile", "reconcile_all"} = {}

OpsAsked ==
  /\ \A h \in Handlers : ReqAt(h, "idle") \/ req[h].op \in Ops
  /\ \A j \in Threads : Busied(j) => job[j].op \in Ops

ApartInv ==
  /\ OpsAsked
  /\ \A w \in Workers : onb[w].pc = "idle" /\ rec[w].pc = "idle"
  /\ mig = NoMig
  /\ PromisesKept
=============================================================================
