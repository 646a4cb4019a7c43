---------------------------- MODULE RegistryStore ----------------------------
(***************************************************************************)
(* TenantStore of control-plane/store.py, statement by statement: every    *)
(* process opens tenants.db for itself, a write is a transaction that a    *)
(* process may die in, wait for or give up on, and tenants.json is         *)
(* imported by whoever finds the table empty.                              *)
(*                                                                         *)
(* SQLite is external: one connection at a time holds the write lock, what *)
(* it writes is invisible until COMMIT and gone after a ROLLBACK, and the  *)
(* lock goes with the process that holds it.                               *)
(***************************************************************************)
EXTENDS Registry, Naturals

CONSTANTS
  Tenants,
  Conns,         \* threads and processes that open the database
  DesiredArgs, StatusArgs, OwnerArgs, StepArgs,   \* what they pass to upsert
  Legacy,        \* tenants in data/tenants.json; {} when there is no file
  LegacyStatus, LegacyOwner, LegacyStep,          \* and what it says of them
  MaxVersion, MaxDeletions   \* bounds of the model: writes to and deletions of a row

Fields == [desired : DesiredArgs, status : StatusArgs, owner : OwnerArgs, step : StepArgs]

\* A desired_status outside DESIRED_STATUSES may be asked for, and is refused.
ASSUME ArgsAssumption ==
  /\ "unset" \in DesiredArgs \cap StatusArgs \cap OwnerArgs \cap StepArgs
  /\ StatusArgs \ {"unset"} \subseteq STATUSES
  /\ OwnerArgs \ {"unset"} \subseteq Owners /\ StepArgs \ {"unset"} \subseteq DeleteSteps
ASSUME LegacyAssumption ==
  /\ Legacy \subseteq Tenants
  /\ LegacyStatus \in STATUSES /\ LegacyOwner \in Owners /\ LegacyStep \in DeleteSteps
ASSUME NobodyAssumption == "nobody" \notin Conns
ASSUME BoundsAssumption == MaxVersion \in Nat /\ MaxDeletions \in Nat

VARIABLES
  file,      \* tenant -> the committed row: its version and its columns
  writer,    \* the connection with the write lock, or "nobody"
  conn,      \* connection -> what it is doing
  deleted    \* history: tenant -> how often its row has been deleted

vars == <<file, writer, conn, deleted>>

RecordType == [version : Nat, cols : RowType \cup {NoRow}]
NoRecord == [version |-> 0, cols |-> NoRow]

ConnPC == {"closed", "count", "import", "ready", "begin", "select", "write", "commit",
           "rollback"}

\* `item` is the row of `tenant` that the caller has in hand, from get or from
\* upsert, and `asOf` how often the row had been deleted by then (history).
\* A checked upsert passes expected_version=item["version"].
Frame == [pc : ConnPC, op : {"import", "upsert", "delete"}, tenant : Tenants,
          fields : Fields, checked : BOOLEAN, current : RecordType,
          item : RecordType, asOf : Nat]

StoreTypeOK ==
  /\ file \in [Tenants -> RecordType]
  /\ writer \in Conns \cup {"nobody"}
  /\ conn \in [Conns -> Frame]
  /\ deleted \in [Tenants -> Nat]

At(c, label) == conn[c].pc = label
GoTo(c, label) == conn' = [conn EXCEPT ![c].pc = label]
Row(c) == file[conn[c].tenant]

\* Between two calls: the arguments of the last are forgotten.
NoFields == [desired |-> "unset", status |-> "unset", owner |-> "unset", step |-> "unset"]
NoCall(label, t, item, asOf) ==
  [pc |-> label, op |-> "import", tenant |-> t, fields |-> NoFields, checked |-> FALSE,
   current |-> NoRecord, item |-> item, asOf |-> asOf]

\* A process that does not run knows nothing.
Closed(t) == NoCall("closed", t, NoRecord, 0)
Ready(f) == NoCall("ready", f.tenant, f.item, f.asOf)

\* What _import_legacy_json makes of an entry of tenants.json.
LegacyRows ==
  [t \in Tenants |->
     IF t \in Legacy
     THEN [desired |-> InferredDesired(LegacyStatus), status |-> LegacyStatus,
           owner |-> LegacyOwner, step |-> LegacyStep]
     ELSE NoRow]

StoreInit ==
  /\ file \in {[t \in Tenants |-> NoRecord],
               [t \in Tenants |-> [version |-> 1, cols |-> Stored(NoRow, "ACTIVE")]]}
  /\ writer = "nobody"
  /\ deleted = [t \in Tenants |-> 0]
  /\ conn \in [Conns -> {Closed(t) : t \in Tenants}]

-----------------------------------------------------------------------------
(* TenantStore(path): import what tenants.json has, if the table is empty. *)

Open(c) ==
  /\ At(c, "closed")
  /\ GoTo(c, "count")
  /\ UNCHANGED <<file, writer, deleted>>

\* SELECT COUNT, outside of any transaction.
CountRows(c) ==
  /\ At(c, "count")
  /\ GoTo(c, IF Legacy # {} /\ \A t \in Tenants : file[t] = NoRecord THEN "import" ELSE "ready")
  /\ UNCHANGED <<file, writer, deleted>>

\* The first INSERT OR IGNORE begins the transaction and takes the lock.
BeginImport(c) ==
  /\ At(c, "import") /\ writer = "nobody"
  /\ writer' = c
  /\ GoTo(c, "commit")
  /\ UNCHANGED <<file, deleted>>

CommitImport(c) ==
  /\ At(c, "commit") /\ conn[c].op = "import"
  /\ file' = [t \in Tenants |-> IF file[t] # NoRecord \/ LegacyRows[t] = NoRow THEN file[t]
                                ELSE [version |-> 1, cols |-> LegacyRows[t]]]
  /\ writer' = "nobody"
  /\ conn' = [conn EXCEPT ![c] = Ready(@)]
  /\ UNCHANGED deleted

-----------------------------------------------------------------------------
(* get, upsert and delete.                                                 *)

Get(c, t) ==
  /\ At(c, "ready")
  /\ conn' = [conn EXCEPT ![c].tenant = t, ![c].item = file[t], ![c].asOf = deleted[t]]
  /\ UNCHANGED <<file, writer, deleted>>

\* With expected_version only for the row the caller has in hand.
CallUpsert(c, t, fields, checked) ==
  LET f == conn[c] IN
  /\ At(c, "ready")
  /\ checked => t = f.tenant /\ f.item # NoRecord
  /\ file[t].version < MaxVersion
  /\ conn' = [conn EXCEPT ![c] =
       [f EXCEPT !.pc = "begin", !.op = "upsert", !.tenant = t, !.fields = fields,
                 !.checked = checked, !.item = IF checked THEN f.item ELSE NoRecord,
                 !.asOf = IF checked THEN f.asOf ELSE 0]]
  /\ UNCHANGED <<file, writer, deleted>>

CallDelete(c, t) ==
  /\ At(c, "ready")
  /\ deleted[t] < MaxDeletions
  /\ conn' = [conn EXCEPT ![c] =
       [@ EXCEPT !.pc = "begin", !.op = "delete", !.tenant = t, !.item = NoRecord, !.asOf = 0]]
  /\ UNCHANGED <<file, writer, deleted>>

\* Mutant: no transaction is begun before the SELECT.
BeginUnlocked(c) ==
  /\ At(c, "begin")
  /\ GoTo(c, IF conn[c].op = "delete" THEN "commit" ELSE "select")
  /\ UNCHANGED <<file, writer, deleted>>

\* BEGIN IMMEDIATE; delete reads nothing.
BeginImmediate(c) ==
  /\ At(c, "begin") /\ writer = "nobody"
  /\ writer' = c
  /\ GoTo(c, IF conn[c].op = "delete" THEN "commit" ELSE "select")
  /\ UNCHANGED <<file, deleted>>

\* busy_timeout is over: OperationalError, before anything was begun.
LockTimeout(c) ==
  /\ conn[c].pc \in {"import", "begin"} /\ writer \notin {"nobody", c}
  /\ conn' = [conn EXCEPT ![c] = IF @.pc = "import" THEN Closed(@.tenant) ELSE Ready(@)]
  /\ UNCHANGED <<file, writer, deleted>>

SelectRow(c) ==
  /\ At(c, "select")
  /\ conn' = [conn EXCEPT ![c].pc = "write", ![c].current = Row(c)]
  /\ UNCHANGED <<file, writer, deleted>>

\* Mutant: only a version that went backwards is a conflict.
ConflictWhenOlder(f) ==
  f.checked /\ f.current # NoRecord /\ f.current.version < f.item.version

\* The version is compared only when there is a row.
Conflict(f) == f.checked /\ f.current # NoRecord /\ f.current.version # f.item.version

\* Mutant: an UPDATE takes any desired_status.
InvalidOnInsert(f) ==
  f.current = NoRecord /\ f.fields.desired \notin DESIRED_STATUSES \cup {"unset"}

Invalid(f) == f.fields.desired \notin DESIRED_STATUSES \cup {"unset"}

NewRecord(r, fields) == [version |-> r.version + 1, cols |-> Written(r.cols, fields)]

\* UPDATE or INSERT; a conflict or a bad value raises instead.
WriteRow(c) ==
  LET f == conn[c] IN
  /\ At(c, "write")
  /\ IF Conflict(f) \/ Invalid(f)
     THEN GoTo(c, "rollback")
     ELSE conn' = [conn EXCEPT ![c].pc = "commit", ![c].current = NewRecord(@, f.fields)]
  /\ UNCHANGED <<file, writer, deleted>>

\* upsert returns the row it has stored.
CommitUpsert(c) ==
  LET t == conn[c].tenant IN
  /\ At(c, "commit") /\ conn[c].op = "upsert"
  /\ file' = [file EXCEPT ![t] = conn[c].current]
  /\ writer' = "nobody"
  /\ conn' = [conn EXCEPT ![c] = NoCall("ready", t, @.current, deleted[t])]
  /\ UNCHANGED deleted

CommitDelete(c) ==
  LET t == conn[c].tenant IN
  /\ At(c, "commit") /\ conn[c].op = "delete"
  /\ file' = [file EXCEPT ![t] = NoRecord]
  /\ deleted' = [deleted EXCEPT ![t] = IF Row(c) = NoRecord THEN @ ELSE @ + 1]
  /\ writer' = "nobody"
  /\ conn' = [conn EXCEPT ![c] = Ready(@)]

\* Mutant: the exception leaves the transaction open.
RollbackForgotten(c) ==
  /\ At(c, "rollback")
  /\ conn' = [conn EXCEPT ![c] = Ready(@)]
  /\ UNCHANGED <<file, writer, deleted>>

\* The with block ends with an exception.
Rollback(c) ==
  /\ At(c, "rollback")
  /\ writer' = "nobody"
  /\ conn' = [conn EXCEPT ![c] = Ready(@)]
  /\ UNCHANGED <<file, deleted>>

\* The process ends or is killed, at any point.
Die(c) ==
  /\ ~At(c, "closed")
  /\ writer' = IF writer = c THEN "nobody" ELSE writer
  /\ conn' = [conn EXCEPT ![c] = Closed(@.tenant)]
  /\ UNCHANGED <<file, deleted>>

-----------------------------------------------------------------------------
Call(c) ==
  \E t \in Tenants :
    \/ Get(c, t) \/ CallDelete(c, t)
    \/ \E fields \in Fields, checked \in BOOLEAN : CallUpsert(c, t, fields, checked)

Step(c) ==
  \/ CountRows(c) \/ BeginImport(c) \/ CommitImport(c)
  \/ BeginImmediate(c) \/ LockTimeout(c) \/ SelectRow(c) \/ WriteRow(c)
  \/ CommitUpsert(c) \/ CommitDelete(c) \/ Rollback(c)

StoreNext == \E c \in Conns : Open(c) \/ Call(c) \/ Step(c) \/ Die(c)

StoreSpec == StoreInit /\ [][StoreNext]_vars

\* A call that has been made goes on; nobody has to make one.
StoreFairSpec == StoreSpec /\ \A c \in Conns : WF_vars(Step(c))

-----------------------------------------------------------------------------
(* Properties.                                                             *)

\* The promise of expected_version in upsert: about to commit a checked write,
\* a connection replaces exactly the row its caller has seen, whatever others
\* have done since.  Unless the row was deleted: then its version starts at 1
\* again, and a row that is missing is not compared at all.
NoLostUpdate ==
  \A c \in Conns :
    At(c, "commit") /\ conn[c].op = "upsert" /\ conn[c].checked
      /\ conn[c].asOf = deleted[conn[c].tenant] => Row(c) = conn[c].item

\* The other modules take upsert and delete, reads included, for one step each:
\* the transactions of store.py do nothing else.
Atomic == INSTANCE AtomicRegistry WITH table <- file
ImplementsRegistry == Atomic!Spec

\* Whoever holds the write lock lets go of it, through a commit, an error or
\* its end: a refused write does not shut out every other process.
LockFreed == \A c \in Conns : writer = c ~> writer # c
=============================================================================
