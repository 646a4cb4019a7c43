# A formal model of the tenant control plane

These TLA+ modules model the part of this repository that decides what happens
to a tenant: the control plane in `control-plane/`, the `onboard()` of
`helm/test-app/onboard_tenant.py` it calls, and the migrate and drop-role Jobs
it starts. TLC checks them on small instances; TLAPS proves for every instance
every safety property that a passing run checks: of deletion, alone and in the
whole control plane, of the job table, of what ACTIVE and an owner in the
registry mean, and of the registry itself. Liveness is model-checked only.

    tlc -config MCDeletion_safe.cfg MCDeletion        # one run per .cfg
    tlapm DeletionProofs.tla                          # the proofs

## 1. The system

A *tenant* is a namespace with a Helm release and an Ingress, a Secrets Manager
secret, an IRSA role, a Postgres role, and a row in a SQLite registry. One
tenant, the *platform tenant*, also hosts the Jobs that create and drop every
tenant's Postgres role. Operators use a Flask API (`app.py`) or a command line
(`cli.py`); both drive the same procedures and share only the registry file.

| Part | State | Operations | Interacts through |
|---|---|---|---|
| Registry `store.py` | one row per tenant: desired and actual status, owner of the identity, delete step, version | get, list, upsert, delete, each a transaction; import of `tenants.json` | read and written by everyone |
| API `app.py` | `_inflight`, one daemon thread per job | create, suspend, resume, remove, reconcile | starts jobs; suspends and reconciles in the request thread |
| CLI `cli.py` | none | the same, plus adopt | runs the procedure in its own process |
| Provisioning `provisioner.py`, `aws_identity.py` | the identity maps it read | provision | AWS, `onboard()` on the platform tenant, then on the tenant |
| Onboarding `onboard_tenant.py`, `migrate.py` (chart) | Job `test-app-migrate` | onboard, the Job's pod | kubectl, helm, Postgres |
| Lifecycle `lifecycle.py`, `pg_admin.py` | the row it read first | suspend, resume, delete; the drop-role Job | kubectl, helm, tofu, AWS, Postgres |
| Reconciler `reconcile.py`, `observe.py`, `contract_check.py` | the row and the observation it plans from | reconcile one, reconcile all | observes, then calls the procedures above |
| Adoption `adopt.py` | what it read of a row | adopt | reads AWS, writes the registry |
| Tenant application (chart) | a database connection pool | request handlers | Postgres |
| Charts, OpenTofu, `infra.py`, ids, bind and token checks | — | — | declarative, or stateless |

What is hard in it:

- *Two of everything.* `_inflight` keeps one job per tenant inside one Flask
  process. It does not see the CLI, suspensions, reconciliations, or pods. Two
  deletions, or a deletion and a provisioning, of one tenant can overlap, and
  the provisioning of one tenant works on another (the platform tenant) and on
  the database roles of all.
- *Every step can fail or be the last one.* Each procedure is a sequence of
  external calls with a registry write after some of them; some failures are
  raised, some recorded, some ignored; a process can die anywhere.
- *What outlives its starter.* The Jobs' pods run on when the worker that
  created them has given up, gone on to the next attempt, or died.
- *Read once, used later.* The owner of an identity, the status before a
  suspension, the map of secrets for the migrate Job, the row and the
  observation a reconciliation decides from.
- *A repair must end.* The reconciler only repeats procedures that read the
  registry themselves; whether every combination of row and cluster leaves it a
  plan that makes progress is nowhere written down.

What makes each part correct:

| Part | Property | Where |
|---|---|---|
| Deletion | the order of the deletion state machine; nothing is left that only the row knew of; `delete_step` is true from `db_revoked` on; deletions end when retried | `ImplementsOrder`, `NoOrphans`, `DeleteStepTruthful`, `EventuallyGone` |
| API | one job per tenant; a tenant never stays in `_inflight`; accepted requests have an effect | `JobsSerialised`, `InflightDrains`; `GoneStays` does not hold |
| Provisioning | ACTIVE means ready, with identity and role; an identity that is owned is released with the row | `ActiveIsReady` (`ReadyInv`), `OwnedReleased` (`OwnedInv`); `NoOrphanedAccess` does not hold |
| Reconciler | a tenant that is wanted gets ACTIVE with workload and Ingress up, one that is not disappears, a suspended one is down; only commands change what is desired | `ActiveConverges`, `GoneConverges`; `SuspendedConverges`, `DesiredByCommand` and (after a crash) `OwnedReleased` do not hold |
| Suspension, adoption | part of the above, as commands in `drain`, `mixed` and `converge` | `ActiveConverges`, `TypeInv`, `ApartInv`, … |
| Registry | each call is one step on a table; a checked write replaces what its caller saw; the lock is let go | `ImplementsRegistry`, `NoLostUpdate`, `LockFreed` |

`PROJECT.json` lists the hazards one by one, at their lines.

## 2. The modules

    module           extends
    Registry         -
    RegistryStore    Registry                     implements AtomicRegistry
    World            Registry
    Planning         Registry
    Teardown         World
    Onboarding       World
    Suspension       World
    Adoption         World
    Situations       World
    Promises         Teardown                     takes OrderedRelease
    Deletion         Teardown, Situations, Promises
    Reconciler       Teardown, Onboarding, Suspension, Planning
    ControlPlane     Reconciler, Adoption, Situations, Promises
    Invariants       ControlPlane

    MCRegistryStore, MCDeletion, MCControlPlane instantiate RegistryStore,
    Deletion and Invariants (with ControlPlane) for TLC.

The proofs are in modules of their own:

    RegistryStoreProofs  RegistryStore
    TeardownProofs       Promises, Situations
    DeletionProofs       Deletion, TeardownProofs
    ControlPlaneProofs   ControlPlane
    ControlPlaneTypes    Invariants, TeardownProofs, ControlPlaneProofs
    OwnershipProofs      ControlPlaneTypes
    ReadinessProofs      OwnershipProofs
    OrphanProofs         ControlPlaneTypes

**Registry** — one row and the upserts on it, as operators. A row is a record
of the columns control flow reads: `desired`, `status`, `owner`, `step`.
`owner` also stands for `secret_name` and `irsa_role_arn`, which the same
upserts write. Free text and timestamps are left out; nothing reads them.
`Written` is `upsert` with any fields, the others are the calls that occur.

**RegistryStore** — `store.py` statement by statement, for the processes and
threads that share `tenants.db`: opening it, the import of `tenants.json`,
`get`, `upsert` with and without `expected_version`, `delete`; `BEGIN
IMMEDIATE`, waiting for the lock and giving up, the refused write and its
rollback, a process that dies at any statement. `conn[c]` is one connection
with the call it is in, `writer` the holder of SQLite's write lock, `file` the
committed table. It implements **AtomicRegistry**, a table on which each call
is one step. That is what every other module takes the registry for, and why
they need no lock.

**World** — the registry (`row`) and the systems it describes (`k8s`, `aws`,
`role`). Kubernetes, AWS and Postgres are external: only the effects of the
calls the code makes are modelled. Every call either succeeds (`Succeeds`) or
uses one of the behaviour's failures (`Fails(kind)`); whether a failed call had
its effect is left open where the real one may (a timed-out `kubectl delete
ns`, an apply whose answer is lost).

**Teardown** — `delete_tenant`. A worker's activation is `del[w]`, with a
program counter named after the call it is about to make; a mark is a registry
transaction. The revoke is three attempts, each with a Job of its own name:
`dropjob[w]` is the last one the worker created, `stray[t]` counts the pods of
earlier ones for tenant `t` that still run. A Job has a life of its own: it can
be there though the apply failed, and its pod run on though the poll failed and
the Job was deleted (`lost_job`); nothing waits for it, neither the next
attempt nor the rest of the deletion. `_delete_kubernetes`,
`delete_tenant_irsa` and `delete_tenant_secret` are one action per call that
matters. The two IAM calls of `delete_tenant_irsa` are one: the role stands for
its policy as well.

**Onboarding** — `provision`, `resume_tenant`, the `onboard()` they share and
the Job `test-app-migrate`, whose name all provisionings share. `onb[w].site`
is the tenant `onboard()` is working on. The Job's pod loads a secret and
creates or alters a role, tenant by tenant, in two steps each.

**Suspension** — `suspend_tenant`.

**Planning** — `Observed` and its predicates, `plan_action`, the contract gate,
and the status `reconcile_one` records, as operators without state. Service,
network policy, quota and service account of an observation are one field,
since they come and go with the Helm release and are only asked for together.

**Reconciler** — `reconcile_one` and `reconcile_all`. `rec[w]` goes through the
row, the kubectl calls of the observer (three of them: those that tell
situations apart), the write of the observation, the procedure it calls in its
own thread, the observation after it, and the verdict. What an error does is
followed to its end: a `ControlPlaneError` is recorded and, in a pass,
absorbed; a timeout or an `OnboardError` ends the pass.

**Adoption** — `adopt_tenants`, for given or discovered ids.

**Situations** — what a tenant looks like when an operation meets it: absent,
active, suspended, failed, or failed before its owner was recorded. They are
what the operations leave behind.

**Promises** — what the registry promises about the world in both compositions:
`NoOrphans`, `DeleteStepTruthful` (from `db_revoked` on), and `PromisesKept`,
the invariant about the program counters of deletions that carries them. It
also says how registry and world show the abstract order of a deletion:
`ImplementsOrder` is **OrderedRelease**, which knows nothing of workers or
failures: per tenant a set of things, a thing released only after those that go
first, and nothing coming back but the registry record.

**Deletion** — any number of CLI deletions, their crashes and retries: the
smallest system in which deletion is interesting.

**ControlPlane** — the API and the CLI together. `req[h]` is a handler and the
request it answers, `job[j]` a background thread, `inflight` is `_inflight`.
Handlers are stepwise: each `store.get`, `upsert` and locked block is an
action. `_start_job`'s critical section is one action. Suspension and
reconciliation run in the handler's own thread. A restart loses handlers,
threads and `_inflight` and nothing else. `DriftByHand` is somebody else with
kubectl.

**Invariants** — the inductive invariants behind the properties of
`ControlPlane`, and the conditions they need, each named (`RequestsOnly`,
`JobsOnly`, `PodsAwaited`, `RolesKept`, `NothingProvisions`). The runs check
them; section 4 says what they are for.

**MCDeletion**, **MCControlPlane**, **MCRegistryStore** — names for tenants,
and the symmetry sets. Workers are interchangeable in `MCDeletion`; handlers,
threads and shells each among themselves in `MCControlPlane`. Symmetry is used
only in runs without a liveness property.

Operators whose name ends in what a bug would do (`DeleteIrsaSwallowing`,
`StartJobUnchecked`, …), marked "Mutant", are no part of the model: put in the
place of the definition they vary, they must make the property that watches it
fail.

## 3. The runs

In all of them the platform tenant is `a`, and failures are bounded by
`MaxFaults`. `MaxFaults` (0, 1 or 2) and the number of workers, threads and
tenants are the only bounds of `Deletion` and `ControlPlane`: the state is
finite without others. `RegistryStore` counts, and is bounded by `MaxVersion`
(writes to a row) and `MaxDeletions`.

Runs that pass:

| Run | Instance | Shows |
|---|---|---|
| MCDeletion `safe` | 2 workers deleting `b`, in any situation whose owner is recorded, 2 failures or crashes, fairness | `IInv`, `NoOrphans`, `DeleteStepTruthful`, `ImplementsOrder`, `EventuallyGone` |
| `shared` | 2 workers deleting `a` and `b`, `b`'s identity owned by OpenTofu, recovery window, 1 failure (lying `get ns` included) | `TypeOK`, and the three safety properties, but for what they say of `b`'s and `a`'s own namespace, when the namespace of the Jobs goes |
| MCControlPlane `jobs` | 2 handlers, 2 threads, create/delete/resume of `b`, 1 failing call (any but `lost_job`) | `JobsSerialised`, `ActiveIsReady`, `OwnedReleased`, and the invariants `OwnedInv` and `ReadyInv` |
| `drain` | 1 handler, 1 thread, create/delete/suspend/resume, 1 failing call, fairness | `InflightDrains` |
| `mixed` | API and CLI, delete/suspend of `b`, 1 failure, restart or interruption | `CPTypeOK`, `ApartInv`, `NoOrphans`, `DeleteStepTruthful`, `ImplementsOrder` |
| `converge` | 1 CLI, every command in any order from any situation, 1 failure, interruption or change by hand, recovery window, a reconciler that is run again and again | `TypeInv`, `ActiveConverges`, `GoneConverges` |
| MCRegistryStore `store` | 2 processes, 1 tenant with an entry in `tenants.json`, 3 writes, 1 deletion, fairness | `StoreTypeOK`, `NoLostUpdate`, `ImplementsRegistry`, `LockFreed` |

Why these bounds are enough to be interesting: two workers are what it takes
for one deletion to overtake another; two failures let a deletion fail, be
retried, and fail again elsewhere; three of them in the revoke loop are not
needed, since a failed attempt also comes from a missing namespace, which is
free. `a` and `b` separate the tenant that hosts the Jobs from one that does
not; a third tenant appears where the provisioning of one meets the deletion
of another (`crossmigrate`). In `converge` one failure at any call or one
interruption at any step of any command, in the reconciler's own steps too, is
what a pass has to recover from, and the situations at the start add what an
earlier failure left. In `store` two processes and three versions give a write
between another's read and its write, before and after a deletion, with the
import at any point.

`CHECK_DEADLOCK FALSE` is used for the ControlPlane instances. A handler whose
request needs a thread waits for one of the instance's, and the system comes to
rest where nobody sends another request.

Runs that show the code doing something other than what a line of the
repository says. Each has one property, which TLC finds violated:

| Run | Property | What happens |
|---|---|---|
| MCControlPlane `lostdelete` | `GoneStays` | a DELETE answered 202 is overwritten by the provisioning job |
| `crossmigrate` | `NoOrphanedAccess` | one tenant's migrate Job recreates the role another's deletion dropped |
| `purge` | `OwnedReleased` | a deletion dies after the namespace has gone; reconcile drops the row, IRSA role and secret stay |
| `halfsuspended` | `SuspendedConverges` | a suspension whose Ingress call failed is recorded; no later pass repairs it |
| `revived` | `DesiredByCommand` | a deletion ends under a pass, whose next write brings the tenant back, wanted |

The passing runs hold beside these because of what they leave out, and a reader
should know what that is:

- `jobs` has no suspension (which may end beside a job: ACTIVE with nothing
  running), one tenant besides the platform tenant (`crossmigrate`), no
  reconciler (`purge`), no restart and no `lost_job`: the pod of a drop-role
  Job outlives a restart, and it outlives the attempt that created it.
- `safe`, `shared` and `mixed` have no tenant whose owner is not recorded.
- `mixed` has no provisioning and no reconciler.
- `drain` has no CLI and no reconciler: two provisionings share one migrate Job
  by name, and one who provisions for ever can keep a job waiting for ever.
- `converge` has one process (`revived`), and says nothing of SUSPENDED
  (`halfsuspended`). It does contain the crash of `purge`: the tenant does
  disappear from the registry, which is all that `GoneConverges` asks for.

The model contains more behaviour worth an argument than it has runs for. None
of it is assumed away:

- One lost answer is enough for an ACTIVE tenant without a database role. A
  revoke attempt whose `kubectl apply` fails after the Job is there is followed
  by another (`lifecycle.py:144`), which drops the role; the deletion ends, the
  tenant is created again, and then the first Job's pod drops the new role
  (`RunStrayPod`; `ActiveIsReady` with `"lost_job"` in the `Faults` of `jobs`).
  README.md:264 of the repository expects that an active tenant can access its
  own data.
- Half an identity, created before the owner was recorded, is never deleted
  (`NoOrphans` with `"unrecorded"` in `Origins`).
- Once the platform tenant's namespace is gone its own deletion, and every
  later revoke, fails for ever (`EventuallyGone` with `a` in `Targets`).
- A suspension beside the provisioning job of its tenant leaves ACTIVE with
  nothing running (`ActiveIsReady` with `"suspend"` in `Ops`).
- Provisioning any tenant brings a suspended platform tenant up (`ApplyNs`,
  `HelmUpgrade` with the site `Platform`).
- A failing `kubectl get ns` counts as "no namespace" (`GetNs`, `ObserveNs`,
  `get_ns` in `Faults`): the row can go with the namespace live.
- `access_disabled` claims more than is true: both results of
  `_disable_application_access` are ignored, so the step is recorded though the
  scale and the Ingress call failed (`Scale`, `Unroute`, `MarkDisabled`).
  `DeleteStepTruthful` leaves this step out for that reason.
- A POST between the removal of the row and the end of the deletion job leaves
  PROVISIONING with no job (`UpsertForCreate`, `StartJob`).
- `reconcile_all` writes DRIFT over DELETE_FAILED (`Absorb`), and a POST may
  then provision the tenant.
- `adopt` writes back the desired status it read earlier (`GetExisting`,
  `Adopt`), over a DELETE in between.
- A migrate Job whose wait failed runs on (`WaitMigrate`, `MigrateStep`).
- A role left NOLOGIN stays so when the tenant is created again (`CreateRole`).
- A late mark of an overtaken deletion brings the removed row back
  (`UpsertStep`).
- `tenants.json` is imported again by whoever finds the table empty
  (`CountRows`), and an `expected_version` from before a deletion is accepted
  after it: versions start at 1 again, and a missing row is not compared
  (`Conflict`). `NoLostUpdate` excludes this one case, through the history
  variable `deleted`. No caller passes `expected_version` yet.

`NoOrphans`, `DeleteStepTruthful` and the abstract order are deliberately
weaker than they sound in one respect: the namespace is part of them only when
`kubectl get ns` is reliable (`get_ns` not in `Faults`). For tenants OpenTofu
owns, secret and IRSA role are not the control plane's to delete and are left
out of it.

### Fairness

`Deletion`: a running process takes its next step, the pod of the Job it waits
for gets to run, and — strong fairness — the operator repeats
a deletion the registry still wants whenever a worker can be had, as the API
asks for ("retry DELETE /tenants/{id} until GONE"). Failures are not fair and
end. The first of these assumes that every call returns. Some have a timeout
(`kubectl wait`, `delete ns`, the poll of a Job), but `lifecycle._run` and the
`run` of `onboard_tenant.py` wait for their command without one: a helm or
tofu that hangs stops its worker, and the liveness properties say nothing of
that. Of the pods nobody waits for nothing is assumed.

`ControlPlane`: handlers, threads, procedures and the pods they wait for that
can go on do, with the same assumption about calls.
Nothing makes operators send requests, and nothing makes a failure or a restart
happen. `ReconciledSpec`, used for convergence only, adds that somebody or a
timer runs `cli.py reconcile`, for each tenant or for all, again and again:
strong fairness of starting one whenever a shell is free, since operators'
other commands may take it in between. The code has no timer of its own; the
documents describe reconciliation as the operator's tool after a failure.

`RegistryStore`: a call that has been made goes on. Nobody has to make one, and
waiting for the lock may end by the timeout or by getting it.

## 4. The proofs

Every theorem is about every value of the constants: any tenants, workers,
handlers, threads, shells and platform tenant, any kinds and any number of
failures, unless it says otherwise. Conditions beyond that are hypotheses of
the theorem, each a formula with a name, and each is there because TLC or the
proof shows what happens without it.

### Deletion alone: `DeletionProofs`

- `TypeCorrect`: `Spec => []TypeOK`.
- `InvariantHolds`, and from it `NoOrphansHolds` and `DeleteStepTruthfulHolds`:
  whatever failed, and however many pods of earlier Jobs still run, what
  `delete_step` says from `db_revoked` on is true.
- `ImplementsOrderHolds`: `Spec` implements `OrderedRelease`.

The last four assume `"unrecorded" \notin Origins`: no target starts as a
tenant whose identity nobody recorded. The assumption is needed: `provision`
does leave tenants so, and a deletion then removes the row and leaves the
identity.

None of the properties is inductive. What carries them is `PromisesKept`, with
the types `IInv`:

1. `FrameKnows(w)`: what worker `w`'s program counter says is done, is done
   (after the revoke the role is gone, and so on). It survives other workers
   because it speaks only of things no deletion brings back.
2. `JobKnows(w)`: a completed drop-role Job means its role is gone, and a
   worker polling a Job polls one for its own tenant.
3. `OwnerKnown`: as long as an identity the control plane owns exists, the row
   says so, and so does every worker on the tenant. A worker reads the owner
   once, before it marks the tenant; this is why that is safe. A row that
   another worker's late mark brings back has no owner, and by then there is
   no identity.

`TeardownProofs` has what both compositions need: that a step of a deletion, a
step of a drop-role pod, awaited or stray, and a step that is `Harmless` (it
returns nothing but a row, keeps the owner or makes it the control plane, and
starts deletions only from what the row says) keep these promises, and that the
first two respect the order. The registry writes are the work (`StepRow`,
`UpsertKeeps`), since a mark may insert a row as well as update it.

### Deletion in the control plane: `OrphanProofs`

- `ApartInvHolds`: `ApartInv`, that is `PromisesKept`, and that nobody starts
  what is not asked for.
- `CPNoOrphansHolds`, `CPStepTruthfulHolds`: the promises, for deletions from
  the API and the command line beside suspensions, adoptions, changes by hand,
  interrupts and restarts.
- `CPImplementsOrderHolds`: that system implements `OrderedRelease`.

All assume `"unrecorded" \notin Origins` as above, and `NothingProvisions`: no
request or command is create, resume or reconcile. Those do bring things back,
and rows go without the rest: `crossmigrate` and `purge` are the runs that show
it, the first with nothing failing at all. `CPImplementsOrderHolds` also
assumes that nobody deletes a namespace by hand (`"drift" \notin Faults`), which
can be before the role has gone. The argument is that every other step is
harmless, one lemma per procedure (`SuspensionBenign`, `AdoptionBenign`,
`HandlerBenign`, …); adoption, which writes an owner, may only write the one
that keeps `OwnerKnown`.

### Jobs and types: `ControlPlaneProofs`, `ControlPlaneTypes`

- `JobsSerialisedHolds`: with the types of requests and jobs `JobsSerialised`
  is inductive, because `_inflight` and the job table only change together, in
  `_start_job` and in its `finally` clause.
- `TypeInvHolds`, `CPTypeOKHolds`, without a condition. `CPTypeOK` is not
  inductive: `reconcile_all` lists the statuses once and writes them back one
  tenant at a time when it absorbs an error, much later, and it writes verdicts
  from what it observed. `RecKnows` says what it holds at each program counter.
  That the tenant in hand is no longer in `todo` is part of it: the status of a
  tenant done with is forgotten, and no tenant still to visit may lose its own.

### An owner is released: `OwnershipProofs`

- `OwnedInvHolds`, under `RequestsOnly` (no command line, no reconcile route)
  and `Platform \notin Targets`.
- `OwnedReleasedHolds`, when `NsReliable` as well: a row that names the control
  plane as owner only goes when the namespace, the IRSA role and the secret
  have gone; for any overlap of create, delete, suspend and resume requests,
  any failures, restarts and changes by hand.

`OwnedInv` joins three things. `JobFrames`: an activation of a deletion or an
onboarding belongs to the thread that has the tenant's job, so with
`JobsSerialised` two of them are never about one tenant. `OwnerHeld`: the owner
a deletion has read is still the one in the row. `FrameReleased`: what it has
released stays so. A second process breaks the first, and the reconciler's
purge (`purge`) the property itself. The platform tenant is no target because
each onboarding works on it too.

### ACTIVE means ready: `ReadinessProofs`

- `ReadyInvHolds`, `ActiveIsUpHolds`, under `JobsOnly`: workload, Ingress,
  secret and IRSA role of an ACTIVE tenant nobody works on.
- `ActiveIsReadyHolds`, under `JobsOnly` and `RolesKept`: and its database role.

`JobsOnly` is `RequestsOnly` without suspension and changes by hand, and the
platform tenant is no target. Suspension runs outside `_inflight`
(`app.py:177`), beside the job of the same tenant, and the claim is false with
it. `ReadyInv` says that between any two steps the row is no better than the
world (`StatusMeans`): whoever takes a tenant apart has written another status
before (`DeleteMarks`), and an onboarding knows at each program counter what
the registry will claim at the end (`ProvisionKnows`, `ResumeKnows`).

`RolesKept` is what the database role takes beyond that, and shows how much its
being there hangs on:

- no restart: the pod of a drop-role Job survives one (`pg_admin.py:171`) and
  may drop the role of the tenant created again since;
- no revoke attempt that fails with its Job's pod running on (`lost_job`): any
  of the three may, since a Job whose apply reported failure is never deleted
  and one whose poll failed is deleted without waiting for its pod
  (`pg_admin.py:162`, `183`), and a later attempt completes the deletion
  beside it. All other calls, and revoke attempts that fail otherwise, may
  fail any number of times. `ReadyInv` then has it that no stray pod runs and
  that a running pod has its deletion waiting for it (`PodAwaited`);
- one target tenant: an onboarding waits for the migrate Job by its name
  (`onboard_tenant.py:300`), be it one another onboarding started for a map
  without its tenant.

### The registry: `RegistryStoreProofs`

For any tenants, processes, arguments, legacy file and bounds, under the
assumptions `RegistryStore` declares (the arguments are statuses, owners and
steps or "unset"; a desired status may be anything):

- `StoreTypeOKHolds`, `NoLostUpdateHolds`, `ImplementsRegistryHolds`.
- `UpsertsAreWrites`: `Upsert`, `UpsertStatus`, `UpsertObserved` and
  `UpsertStep`, with which the other modules write, are the general upsert with
  the fields their callers pass. With `ImplementsRegistryHolds` it is the reason
  a registry call is one step elsewhere.

Their invariant `StoreInv` says of each connection that only the holder of the
lock is inside a transaction (`Locked`), that what it has selected or computed
there is still what the file holds (`Fresh`), that the row in hand is the one
of the call (`Named`), and that a row without a version is no row (`Numbered`).
The step that needs it is a commit: the row replaced is the row compared.

### Only model-checked

Everything about liveness (`EventuallyGone`, `InflightDrains`,
`ActiveConverges`, `GoneConverges`, `LockFreed`): fairness and ENABLED are out
of the prover's reach.

## 5. Not modelled

- The branches `ensure_infra` and `ensure_identity=false` of `provision` and
  the NodePort mode of `onboard()`, all for setups the documents call legacy;
  `CP_*` settings but for the recovery window. (In NodePort mode there is no
  Ingress, which `matches_active` asks for.)
- HTTP status codes and bodies, except whether a request started a job.
- The inside of SQLite: that one writer holds the lock, that uncommitted writes
  are invisible and that a dead process loses both is what `RegistryStore`
  assumes. Outside that module "database is locked" does not happen.
- The retries inside `with_retry` are kept as starting over, without the limit
  of five, which is more than the failures of a behaviour.
- The tenant application. What could go wrong in its connection pool does so
  inside psycopg2's `SimpleConnectionPool`, which is not part of this
  repository; a request itself is sequential. Row level security and network
  policy are declarations.
- Parts with status `not_modelled` in `PROJECT.json`, for the reasons there.

## 6. Plan

Done, in this order: Registry and World; Teardown and Deletion with their
abstraction and proofs; Onboarding, Suspension and ControlPlane with the proof
about jobs; Planning, Reconciler and Adoption in ControlPlane; RegistryStore
with its abstraction and proofs; the invariants of ControlPlane and the proofs
of types, ownership, readiness and promises kept. To come:

1. Proofs: lemmas on `Planning` (which observations leave nothing to do, and
   that no plan of a wanted tenant is a deletion); `ActiveIsReady` with the
   role for several tenants whose provisionings do not overlap.
2. `ensure_identity=false` and the NodePort mode, should they stay.
3. Larger instances where the machine allows: `converge` with two failures, the
   reconcile routes beside background jobs.
