------------------------ MODULE RegistryStoreProofs ------------------------
(***************************************************************************)
(* For any number of processes and tenants and any arguments: a checked    *)
(* upsert replaces the row its caller has seen, and the transactions of    *)
(* store.py implement the registry the other modules work on, whose reads  *)
(* and writes happen at once.                                              *)
(***************************************************************************)
EXTENDS RegistryStore, TLAPS

InTransaction == {"select", "write", "commit", "rollback"}

\* Whoever is inside a transaction holds the lock ...
Locked(c) == conn[c].pc \in InTransaction => writer = c

\* ... so nobody changes the row between its SELECT and the COMMIT: what is
\* about to be stored comes from the row as it is, and was checked against it.
Fresh(c) ==
  conn[c].op = "upsert" =>
    /\ At(c, "write") => conn[c].current = Row(c)
    /\ At(c, "commit") =>
         /\ conn[c].current = NewRecord(Row(c), conn[c].fields)
         /\ ~Invalid(conn[c])
         /\ conn[c].checked /\ Row(c) # NoRecord => Row(c).version = conn[c].item.version

\* As long as a row lives its version names its columns: nobody holds a later
\* version than the stored one, and who holds the same holds the same row.
Named(c) ==
  /\ conn[c].item # NoRecord => conn[c].item.version # 0
  /\ conn[c].asOf <= deleted[conn[c].tenant]
  /\ conn[c].checked => conn[c].item # NoRecord
  /\ conn[c].item # NoRecord /\ conn[c].asOf = deleted[conn[c].tenant] =>
       /\ Row(c) # NoRecord
       /\ conn[c].item.version <= Row(c).version
       /\ conn[c].item.version = Row(c).version => conn[c].item = Row(c)

\* Between two calls there is nothing left of the last.
Idling(c) == conn[c].pc \in {"closed", "count", "import", "ready"} =>
  ~conn[c].checked /\ conn[c].op = "import"

Numbered(r) == r = NoRecord \/ (r.version # 0 /\ r.cols # NoRow)

StoreInv ==
  /\ StoreTypeOK
  /\ \A t \in Tenants : Numbered(file[t])
  /\ \A c \in Conns : Locked(c) /\ Fresh(c) /\ Named(c) /\ Idling(c)

-----------------------------------------------------------------------------
(* Types of what is stored and of what a connection remembers.             *)

LEMMA NoFieldsType == NoFields \in Fields
BY ArgsAssumption DEF NoFields, Fields

LEMMA NoRecordType == NoRecord \in RecordType
BY DEF NoRecord, RecordType

LEMMA NoRowIsNoRow == NoRow \notin RowType
BY DEF NoRow, RowType, STATUSES, DESIRED_STATUSES

\* A call that ends leaves the connection well formed and without arguments.
LEMMA NoCallType ==
  ASSUME NEW label \in ConnPC, NEW t \in Tenants, NEW item \in RecordType, NEW n \in Nat
  PROVE  NoCall(label, t, item, n) \in Frame
BY NoFieldsType, NoRecordType DEF NoCall, Frame

LEMMA ClosedType ==
  ASSUME NEW t \in Tenants
  PROVE  Closed(t) \in Frame
BY NoCallType, NoRecordType DEF Closed, ConnPC

LEMMA ReadyType ==
  ASSUME NEW f \in Frame
  PROVE  Ready(f) \in Frame
<1>1. f.tenant \in Tenants /\ f.item \in RecordType /\ f.asOf \in Nat
  BY DEF Frame
<1>. QED  BY <1>1, NoCallType DEF Ready, ConnPC

\* upsert stores a whole row, whatever columns the caller passes.
LEMMA WrittenType ==
  ASSUME NEW r \in RowType \cup {NoRow}, NEW fields \in Fields,
         fields.desired \in DESIRED_STATUSES \cup {"unset"}
  PROVE  Written(r, fields) \in RowType
<1>. DEFINE s == Given(fields.status, "PROVISIONING")
<1>1. s \in STATUSES
  BY ArgsAssumption DEF Given, Fields, STATUSES
<1>2. InferredDesired(s) \in DESIRED_STATUSES
  BY DEF InferredDesired, DESIRED_STATUSES
<1>3. Stored(r, s) \in RowType
  BY <1>1, <1>2 DEF Stored, RowType, Owners, DeleteSteps
<1>. HIDE DEF s
<1>4. ASSUME NEW x \in RowType
      PROVE  [desired |-> Given(fields.desired, x.desired), status |-> Given(fields.status, x.status),
              owner |-> Given(fields.owner, x.owner), step |-> Given(fields.step, x.step)] \in RowType
  BY ArgsAssumption DEF Given, Fields, RowType
<1>. QED  BY <1>3, <1>4 DEF Written, s

LEMMA NewRecordType ==
  ASSUME NEW r \in RecordType, NEW fields \in Fields,
         fields.desired \in DESIRED_STATUSES \cup {"unset"}
  PROVE  /\ NewRecord(r, fields) \in RecordType
         /\ Numbered(NewRecord(r, fields)) /\ NewRecord(r, fields) # NoRecord
         /\ NewRecord(r, fields).version = r.version + 1
<1>1. Written(r.cols, fields) \in RowType
  BY WrittenType DEF RecordType
<1>. QED  BY <1>1, NoRowIsNoRow DEF NewRecord, RecordType, Numbered, NoRecord

LEMMA LegacyType ==
  ASSUME NEW t \in Tenants
  PROVE  LegacyRows[t] \in RowType \cup {NoRow}
<1>1. InferredDesired(LegacyStatus) \in DESIRED_STATUSES
  BY DEF InferredDesired, DESIRED_STATUSES
<1>. QED  BY <1>1, LegacyAssumption DEF LegacyRows, RowType

-----------------------------------------------------------------------------
(* One connection moves and the file stays.                                *)

LEMMA OneMoves ==
  ASSUME StoreInv, NEW c \in Conns, file' = file, deleted' = deleted,
         writer' \in Conns \cup {"nobody"}, writer' = writer \/ writer \in {"nobody", c},
         NEW f \in Frame, conn' = [conn EXCEPT ![c] = f],
         Locked(c)', Fresh(c)', Named(c)', Idling(c)'
  PROVE  StoreInv'
<1>1. StoreTypeOK'
  BY DEF StoreInv, StoreTypeOK
<1>2. ASSUME NEW d \in Conns, d # c  PROVE Locked(d)' /\ Fresh(d)' /\ Named(d)' /\ Idling(d)'
  <2>1. conn'[d] = conn[d]
    BY <1>2 DEF StoreInv, StoreTypeOK
  <2>2. Locked(d)'
    BY <1>2, <2>1, NobodyAssumption DEF StoreInv, Locked
  <2>3. Fresh(d)' /\ Named(d)' /\ Idling(d)'
    BY <2>1 DEF StoreInv, Fresh, Named, Idling, At, Row
  <2>. QED  BY <2>2, <2>3
<1>. QED  BY <1>1, <1>2 DEF StoreInv

LEMMA InitInv == StoreInit => StoreInv
<1>. SUFFICES ASSUME StoreInit PROVE StoreInv
  OBVIOUS
<1>1. Stored(NoRow, "ACTIVE") \in RowType
  BY DEF Stored, InferredDesired, RowType, STATUSES, DESIRED_STATUSES, Owners, DeleteSteps
<1>2. file \in [Tenants -> RecordType] /\ \A t \in Tenants : Numbered(file[t])
  BY <1>1, NoRecordType, NoRowIsNoRow DEF StoreInit, RecordType, Numbered
<1>3. ASSUME NEW c \in Conns
      PROVE  /\ conn[c] \in Frame
             /\ conn[c].pc = "closed" /\ conn[c].op = "import" /\ ~conn[c].checked
             /\ conn[c].item = NoRecord /\ conn[c].asOf = 0
  <2>1. PICK t \in Tenants : conn[c] = Closed(t)
    BY DEF StoreInit
  <2>. QED  BY <2>1, ClosedType DEF Closed, NoCall
<1>4. StoreTypeOK
  BY <1>2, <1>3 DEF StoreInit, StoreTypeOK
<1>5. ASSUME NEW c \in Conns  PROVE Locked(c) /\ Fresh(c) /\ Named(c) /\ Idling(c)
  BY <1>3, <1>4 DEF Locked, InTransaction, Fresh, Named, Idling, StoreInit, StoreTypeOK, Frame
<1>. QED  BY <1>2, <1>4, <1>5 DEF StoreInv

\* Everything a connection does outside its transactions.
LEMMA OutsideKeeps ==
  ASSUME StoreInv, NEW c \in Conns, Open(c) \/ CountRows(c) \/ LockTimeout(c)
  PROVE  StoreInv'
<1>. DEFINE f == conn[c]
<1>1. f \in Frame
  BY DEF StoreInv, StoreTypeOK
<1>2. CASE Open(c) \/ CountRows(c)
  <2>1. PICK label \in {"count", "import", "ready"} : conn' = [conn EXCEPT ![c] = [f EXCEPT !.pc = label]]
    BY <1>2 DEF Open, CountRows, GoTo
  <2>2. [f EXCEPT !.pc = label] \in Frame
    BY <1>1 DEF Frame, ConnPC
  <2>3. file' = file /\ writer' = writer /\ deleted' = deleted
    BY <1>2 DEF Open, CountRows
  <2>4. conn'[c] = [f EXCEPT !.pc = label] /\ f.pc \in {"closed", "count"}
    BY <1>2, <2>1 DEF StoreInv, StoreTypeOK, Open, CountRows, At
  <2>5. Locked(c)' /\ Fresh(c)' /\ Named(c)' /\ Idling(c)'
    BY <1>1, <2>3, <2>4 DEF StoreInv, Locked, Fresh, Named, Idling, At, Row, InTransaction, Frame
  <2>. QED  BY <2>1, <2>2, <2>3, <2>5, OneMoves DEF StoreInv, StoreTypeOK
<1>3. CASE LockTimeout(c)
  <2>. DEFINE g == IF f.pc = "import" THEN Closed(f.tenant) ELSE Ready(f)
  <2>1. /\ g \in Frame /\ g.pc \notin InTransaction /\ g.op = "import" /\ ~g.checked
        /\ g.tenant = f.tenant
        /\ (g.item = f.item /\ g.asOf = f.asOf) \/ (g.item = NoRecord /\ g.asOf = 0)
    <3>1. g \in Frame
      BY <1>1, ReadyType, ClosedType DEF Frame
    <3>. QED  BY <3>1 DEF Ready, Closed, NoCall, InTransaction
  <2>2. conn' = [conn EXCEPT ![c] = g] /\ file' = file /\ writer' = writer /\ deleted' = deleted
    BY <1>3 DEF LockTimeout
  <2>3. conn'[c] = g
    BY <2>2 DEF StoreInv, StoreTypeOK
  <2>4. Locked(c)' /\ Fresh(c)' /\ Named(c)' /\ Idling(c)'
    <3>. HIDE DEF g
    <3>. QED  BY <1>1, <2>1, <2>2, <2>3 DEF StoreInv, StoreTypeOK, Locked, Fresh, Named, Idling, At, Row, InTransaction, Frame
  <2>. QED  BY <2>1, <2>2, <2>4, OneMoves DEF StoreInv, StoreTypeOK
<1>. QED  BY <1>2, <1>3

\* A process reads a row, calls, or ends.
LEMMA CallsKeep ==
  ASSUME StoreInv, NEW c \in Conns, Call(c) \/ Die(c) \/ Rollback(c)
  PROVE  StoreInv'
<1>. DEFINE f == conn[c]
<1>1. f \in Frame /\ conn \in [Conns -> Frame]
  BY DEF StoreInv, StoreTypeOK
<1>2. CASE \E t \in Tenants : Get(c, t)
  <2>1. PICK t \in Tenants : Get(c, t)
    BY <1>2
  <2>. DEFINE g == [f EXCEPT !.tenant = t, !.item = file[t], !.asOf = deleted[t]]
  <2>2. g \in Frame
    BY <1>1 DEF StoreInv, StoreTypeOK, Frame
  <2>3. conn' = [conn EXCEPT ![c] = g] /\ file' = file /\ writer' = writer /\ deleted' = deleted
    BY <2>1 DEF Get
  <2>4. conn'[c] = g /\ ~f.checked /\ f.pc = "ready"
    BY <1>1, <2>1, <2>3 DEF Get, At, StoreInv, Idling
  <2>5. Locked(c)' /\ Fresh(c)' /\ Named(c)' /\ Idling(c)'
    BY <1>1, <2>3, <2>4 DEF StoreInv, StoreTypeOK, Locked, Fresh, Named, Idling, Numbered, NoRecord,
       At, Row, InTransaction, Frame, RecordType
  <2>. QED  BY <2>2, <2>3, <2>5, OneMoves DEF StoreInv, StoreTypeOK
<1>3. CASE \E t \in Tenants, fields \in Fields, checked \in BOOLEAN : CallUpsert(c, t, fields, checked)
  <2>1. PICK t \in Tenants, fields \in Fields, checked \in BOOLEAN : CallUpsert(c, t, fields, checked)
    BY <1>3
  <2>. DEFINE g == [f EXCEPT !.pc = "begin", !.op = "upsert", !.tenant = t, !.fields = fields,
                             !.checked = checked, !.item = IF checked THEN f.item ELSE NoRecord,
                             !.asOf = IF checked THEN f.asOf ELSE 0]
  <2>2. g \in Frame /\ g.pc = "begin" /\ g.tenant = t /\ g.checked = checked
        /\ IF checked THEN g.item = f.item /\ g.asOf = f.asOf /\ t = f.tenant /\ f.item # NoRecord
                      ELSE g.item = NoRecord /\ g.asOf = 0
    BY <1>1, <2>1, NoRecordType DEF CallUpsert, Frame, ConnPC
  <2>3. conn' = [conn EXCEPT ![c] = g] /\ file' = file /\ writer' = writer /\ deleted' = deleted
    BY <2>1 DEF CallUpsert
  <2>4. conn'[c] = g
    BY <1>1, <2>3
  <2>. HIDE DEF g
  <2>5. Locked(c)' /\ Fresh(c)' /\ Named(c)' /\ Idling(c)'
    BY <1>1, <2>2, <2>3, <2>4 DEF StoreInv, StoreTypeOK, Locked, Fresh, Named, Idling, At, Row, InTransaction, Frame
  <2>. QED  BY <2>2, <2>3, <2>5, OneMoves DEF StoreInv, StoreTypeOK
<1>4. CASE \E t \in Tenants : CallDelete(c, t)
  <2>1. PICK t \in Tenants : CallDelete(c, t)
    BY <1>4
  <2>. DEFINE g == [f EXCEPT !.pc = "begin", !.op = "delete", !.tenant = t, !.item = NoRecord, !.asOf = 0]
  <2>2. g \in Frame /\ g.pc = "begin" /\ g.op = "delete" /\ g.tenant = t /\ g.checked = f.checked
        /\ g.item = NoRecord /\ g.asOf = 0
    BY <1>1, NoRecordType DEF Frame, ConnPC
  <2>3. conn' = [conn EXCEPT ![c] = g] /\ file' = file /\ writer' = writer /\ deleted' = deleted
    BY <2>1 DEF CallDelete
  <2>4. conn'[c] = g /\ ~f.checked
    BY <1>1, <2>1, <2>3 DEF CallDelete, At, StoreInv, Idling
  <2>. HIDE DEF g
  <2>5. Locked(c)' /\ Fresh(c)' /\ Named(c)' /\ Idling(c)'
    BY <1>1, <2>2, <2>3, <2>4 DEF StoreInv, StoreTypeOK, Locked, Fresh, Named, Idling, At, Row, InTransaction, Frame
  <2>. QED  BY <2>2, <2>3, <2>5, OneMoves DEF StoreInv, StoreTypeOK
<1>5. CASE Die(c) \/ Rollback(c)
  <2>. DEFINE g == IF Die(c) THEN Closed(f.tenant) ELSE Ready(f)
  <2>1. /\ g \in Frame /\ g.pc \notin InTransaction /\ g.op = "import" /\ ~g.checked
        /\ g.tenant = f.tenant
        /\ (g.item = f.item /\ g.asOf = f.asOf) \/ (g.item = NoRecord /\ g.asOf = 0)
    <3>1. f.tenant \in Tenants
      BY <1>1 DEF Frame
    <3>. QED  BY <1>1, <3>1, ReadyType, ClosedType DEF Ready, Closed, NoCall, InTransaction
  <2>2. /\ conn' = [conn EXCEPT ![c] = g] /\ file' = file /\ deleted' = deleted
        /\ writer' = writer \/ (writer' = "nobody" /\ writer \in {"nobody", c})
    BY <1>5 DEF Die, Rollback, At, StoreInv, Locked, InTransaction
  <2>3. conn'[c] = g
    BY <1>1, <2>2
  <2>. HIDE DEF g
  <2>4. Locked(c)' /\ Fresh(c)' /\ Named(c)' /\ Idling(c)'
    BY <1>1, <2>1, <2>2, <2>3 DEF StoreInv, StoreTypeOK, Locked, Fresh, Named, Idling, At, Row, InTransaction, Frame
  <2>5. writer' \in Conns \cup {"nobody"}
    BY <2>2 DEF StoreInv, StoreTypeOK
  <2>. QED  BY <2>1, <2>2, <2>4, <2>5, OneMoves
<1>. QED  BY <1>2, <1>3, <1>4, <1>5 DEF Call

\* A transaction begins, reads and writes.
LEMMA InsideKeeps ==
  ASSUME StoreInv, NEW c \in Conns,
         BeginImport(c) \/ BeginImmediate(c) \/ SelectRow(c) \/ WriteRow(c)
  PROVE  StoreInv'
<1>. DEFINE f == conn[c]
<1>1. f \in Frame /\ conn \in [Conns -> Frame] /\ Row(c) \in RecordType
  BY DEF StoreInv, StoreTypeOK, Row, Frame
<1>2. CASE BeginImport(c) \/ BeginImmediate(c)
  <2>1. PICK label \in {"commit", "select"} :
          /\ conn' = [conn EXCEPT ![c] = [f EXCEPT !.pc = label]]
          /\ label = "commit" => f.op # "upsert"
    BY <1>2 DEF BeginImport, BeginImmediate, GoTo, At, StoreInv, Idling
  <2>2. [f EXCEPT !.pc = label] \in Frame
    BY <1>1 DEF Frame, ConnPC
  <2>3. file' = file /\ writer = "nobody" /\ writer' = c /\ deleted' = deleted
    BY <1>2 DEF BeginImport, BeginImmediate
  <2>4. conn'[c] = [f EXCEPT !.pc = label]
    BY <1>1, <2>1
  <2>5. Locked(c)' /\ Fresh(c)' /\ Named(c)' /\ Idling(c)'
    BY <1>1, <2>1, <2>3, <2>4 DEF StoreInv, Locked, Fresh, Named, Idling, At, Row, InTransaction, Frame
  <2>. QED  BY <2>1, <2>2, <2>3, <2>5, OneMoves
<1>3. CASE SelectRow(c)
  <2>. DEFINE g == [f EXCEPT !.pc = "write", !.current = Row(c)]
  <2>1. g \in Frame
    BY <1>1 DEF Frame, ConnPC
  <2>2. conn' = [conn EXCEPT ![c] = g] /\ file' = file /\ writer' = writer /\ deleted' = deleted
    BY <1>3 DEF SelectRow
  <2>3. conn'[c] = g /\ f.pc = "select"
    BY <1>1, <1>3, <2>2 DEF SelectRow, At
  <2>4. Locked(c)' /\ Fresh(c)' /\ Named(c)' /\ Idling(c)'
    BY <1>1, <2>2, <2>3 DEF StoreInv, Locked, Fresh, Named, Idling, At, Row, InTransaction, Frame
  <2>. QED  BY <2>1, <2>2, <2>4, OneMoves DEF StoreInv, StoreTypeOK
<1>4. CASE WriteRow(c) /\ (Conflict(f) \/ Invalid(f))
  <2>. DEFINE g == [f EXCEPT !.pc = "rollback"]
  <2>1. g \in Frame
    BY <1>1 DEF Frame, ConnPC
  <2>2. conn' = [conn EXCEPT ![c] = g] /\ file' = file /\ writer' = writer /\ deleted' = deleted
    BY <1>4 DEF WriteRow, GoTo
  <2>3. conn'[c] = g /\ f.pc = "write"
    BY <1>1, <1>4, <2>2 DEF WriteRow, At
  <2>4. Locked(c)' /\ Fresh(c)' /\ Named(c)' /\ Idling(c)'
    BY <1>1, <2>2, <2>3 DEF StoreInv, Locked, Fresh, Named, Idling, At, Row, InTransaction, Frame
  <2>. QED  BY <2>1, <2>2, <2>4, OneMoves DEF StoreInv, StoreTypeOK
<1>5. CASE WriteRow(c) /\ ~Conflict(f) /\ ~Invalid(f)
  <2>. DEFINE g == [f EXCEPT !.pc = "commit", !.current = NewRecord(f.current, f.fields)]
  <2>1. NewRecord(f.current, f.fields) \in RecordType
    BY <1>1, <1>5, NewRecordType DEF Invalid, Frame
  <2>2. g \in Frame
    BY <1>1, <2>1 DEF Frame, ConnPC
  <2>3. conn' = [conn EXCEPT ![c] = g] /\ file' = file /\ writer' = writer /\ deleted' = deleted
    BY <1>5 DEF WriteRow
  <2>4. conn'[c] = g /\ f.pc = "write"
    BY <1>1, <1>5, <2>3 DEF WriteRow, At
  <2>5. f.op = "upsert" => f.current = Row(c)
    BY <2>4 DEF StoreInv, Fresh, At
  <2>6. Fresh(c)'
    <3>1. Row(c)' = Row(c) /\ g.fields = f.fields /\ g.checked = f.checked /\ g.item = f.item
          /\ g.pc = "commit" /\ g.op = f.op /\ g.current = NewRecord(f.current, f.fields)
      BY <1>1, <2>3, <2>4 DEF Row, Frame
    <3>2. ~Invalid(g)
      BY <1>5, <3>1 DEF Invalid
    <3>3. f.op = "upsert" /\ f.checked /\ Row(c) # NoRecord => Row(c).version = f.item.version
      BY <1>5, <2>5 DEF Conflict
    <3>. HIDE DEF g
    <3>. QED  BY <2>4, <2>5, <3>1, <3>2, <3>3 DEF Fresh, At
  <2>7. Locked(c)' /\ Named(c)' /\ Idling(c)'
    BY <1>1, <2>3, <2>4 DEF StoreInv, Locked, Named, Idling, At, Row, InTransaction, Frame
  <2>. QED  BY <2>2, <2>3, <2>6, <2>7, OneMoves DEF StoreInv, StoreTypeOK
<1>. QED  BY <1>2, <1>3, <1>4, <1>5

-----------------------------------------------------------------------------
(* A transaction commits: the other connections are outside theirs, and    *)
(* what they have in hand is at most older than it was.                    *)

\* The write lock admits one connection at a time.
LEMMA AloneInTransaction ==
  ASSUME StoreInv, NEW c \in Conns, NEW d \in Conns, d # c,
         conn[c].pc \in InTransaction
  PROVE  conn[d].pc \notin InTransaction
BY DEF StoreInv, Locked

LEMMA CommitLeaves ==
  ASSUME StoreInv, NEW c \in Conns, NEW d \in Conns, conn[c].pc = "commit",
         NEW f \in Frame, f.pc = "ready", f.op = "import", ~f.checked,
         conn' = [conn EXCEPT ![c] = f]
  PROVE  Locked(d)' /\ Fresh(d)' /\ Idling(d)'
<1>1. conn \in [Conns -> Frame]
  BY DEF StoreInv, StoreTypeOK
<1>2. CASE d = c
  BY <1>1, <1>2 DEF Locked, Fresh, Idling, At, InTransaction
<1>3. CASE d # c
  <2>1. conn'[d] = conn[d] /\ conn[d].pc \notin InTransaction
    BY <1>1, <1>3, AloneInTransaction DEF InTransaction
  <2>. QED  BY <2>1 DEF StoreInv, Locked, Fresh, Idling, At, InTransaction
<1>. QED  BY <1>2, <1>3

LEMMA CommitUpsertKeeps ==
  ASSUME StoreInv, NEW c \in Conns, CommitUpsert(c)
  PROVE  StoreInv'
<1>. DEFINE f == conn[c]
            t == f.tenant
            g == NoCall("ready", t, f.current, deleted[t])
<1>1. /\ f \in Frame /\ conn \in [Conns -> Frame] /\ file \in [Tenants -> RecordType]
      /\ deleted \in [Tenants -> Nat] /\ t \in Tenants /\ file[t] \in RecordType
  BY DEF StoreInv, StoreTypeOK, Frame
<1>2. /\ f.pc = "commit" /\ f.op = "upsert"
      /\ file' = [file EXCEPT ![t] = f.current] /\ deleted' = deleted /\ writer' = "nobody"
      /\ conn' = [conn EXCEPT ![c] = g]
  BY DEF CommitUpsert, At
<1>3. f.current = NewRecord(file[t], f.fields) /\ ~Invalid(f)
  BY <1>2 DEF StoreInv, Fresh, At, Row
<1>4. /\ f.current \in RecordType /\ Numbered(f.current) /\ f.current # NoRecord
      /\ f.current.version = file[t].version + 1
  BY <1>1, <1>3, NewRecordType DEF Invalid, Frame
<1>5. g \in Frame
  BY <1>1, <1>4, NoCallType DEF ConnPC
<1>6. StoreTypeOK'
  BY <1>1, <1>2, <1>4, <1>5 DEF StoreTypeOK
<1>7. \A u \in Tenants : Numbered(file'[u])
  BY <1>1, <1>2, <1>4 DEF StoreInv
<1>8. ASSUME NEW d \in Conns
      PROVE  Locked(d)' /\ Fresh(d)' /\ Named(d)' /\ Idling(d)'
  <2>1. CASE d = c
    <3>1. conn'[d] = g /\ g.pc = "ready" /\ g.op = "import" /\ ~g.checked /\ g.tenant = t
          /\ g.item = f.current /\ g.asOf = deleted[t] /\ file'[t] = f.current
      BY <1>1, <1>2, <2>1 DEF NoCall
    <3>. HIDE DEF g
    <3>. QED  BY <1>1, <1>2, <1>4, <3>1 DEF Locked, Fresh, Named, Idling, At, Row, InTransaction, Numbered, RecordType, NoRecord
  <2>2. CASE d # c
    <3>1. conn'[d] = conn[d] /\ conn[d] \in Frame
      BY <1>1, <1>2, <2>2
    <3>2. Named(d)'
      BY <1>1, <1>2, <1>4, <3>1 DEF StoreInv, Named, Row, Frame, RecordType
    <3>3. Locked(d)' /\ Fresh(d)' /\ Idling(d)'
      BY <1>2, <1>5, CommitLeaves DEF NoCall
    <3>. QED  BY <3>2, <3>3
  <2>. QED  BY <2>1, <2>2
<1>. QED  BY <1>6, <1>7, <1>8 DEF StoreInv

LEMMA CommitDeleteKeeps ==
  ASSUME StoreInv, NEW c \in Conns, CommitDelete(c)
  PROVE  StoreInv'
<1>. DEFINE f == conn[c]
            t == f.tenant
            g == Ready(f)
<1>1. /\ f \in Frame /\ conn \in [Conns -> Frame] /\ file \in [Tenants -> RecordType]
      /\ deleted \in [Tenants -> Nat] /\ t \in Tenants /\ file[t] \in RecordType
  BY DEF StoreInv, StoreTypeOK, Frame
<1>2. /\ f.pc = "commit" /\ f.op = "delete"
      /\ file' = [file EXCEPT ![t] = NoRecord] /\ writer' = "nobody"
      /\ deleted' = [deleted EXCEPT ![t] = IF file[t] = NoRecord THEN @ ELSE @ + 1]
      /\ conn' = [conn EXCEPT ![c] = g]
  BY DEF CommitDelete, At, Row
<1>3. g \in Frame
  BY <1>1, ReadyType
<1>4. StoreTypeOK'
  BY <1>1, <1>2, <1>3, NoRecordType DEF StoreTypeOK
<1>5. \A u \in Tenants : Numbered(file'[u])
  BY <1>1, <1>2 DEF StoreInv, Numbered
<1>6. ASSUME NEW d \in Conns
      PROVE  Locked(d)' /\ Fresh(d)' /\ Named(d)' /\ Idling(d)'
  <2>1. /\ conn'[d].item = conn[d].item /\ conn'[d].asOf = conn[d].asOf
        /\ conn'[d].tenant = conn[d].tenant /\ conn[d] \in Frame
        /\ conn'[d].checked => conn[d].checked
    BY <1>1, <1>2 DEF Ready, NoCall
  <2>2. Named(d)'
    BY <1>1, <1>2, <2>1 DEF StoreInv, Named, Row, Frame
  <2>3. Locked(d)' /\ Fresh(d)' /\ Idling(d)'
    BY <1>2, <1>3, CommitLeaves DEF Ready, NoCall
  <2>. QED  BY <2>2, <2>3
<1>. QED  BY <1>4, <1>5, <1>6 DEF StoreInv

LEMMA CommitImportKeeps ==
  ASSUME StoreInv, NEW c \in Conns, CommitImport(c)
  PROVE  StoreInv'
<1>. DEFINE f == conn[c]
            g == Ready(f)
<1>1. /\ f \in Frame /\ conn \in [Conns -> Frame] /\ file \in [Tenants -> RecordType]
      /\ deleted \in [Tenants -> Nat]
  BY DEF StoreInv, StoreTypeOK
<1>2. /\ f.pc = "commit" /\ writer' = "nobody" /\ deleted' = deleted
      /\ conn' = [conn EXCEPT ![c] = g]
      /\ file' = [t \in Tenants |-> IF file[t] # NoRecord \/ LegacyRows[t] = NoRow THEN file[t]
                                    ELSE [version |-> 1, cols |-> LegacyRows[t]]]
  BY DEF CommitImport, At
<1>3. g \in Frame
  BY <1>1, ReadyType
<1>4. ASSUME NEW t \in Tenants
      PROVE  /\ file'[t] \in RecordType /\ Numbered(file'[t])
             /\ file[t] # NoRecord => file'[t] = file[t]
  <2>1. LegacyRows[t] # NoRow => [version |-> 1, cols |-> LegacyRows[t]] \in RecordType
    BY LegacyType DEF RecordType
  <2>. QED  BY <1>1, <1>2, <2>1 DEF StoreInv, Numbered
<1>5. StoreTypeOK'
  BY <1>1, <1>2, <1>3, <1>4 DEF StoreTypeOK
<1>6. ASSUME NEW d \in Conns
      PROVE  Locked(d)' /\ Fresh(d)' /\ Named(d)' /\ Idling(d)'
  <2>1. /\ conn'[d].item = conn[d].item /\ conn'[d].asOf = conn[d].asOf
        /\ conn'[d].tenant = conn[d].tenant /\ conn[d] \in Frame
        /\ conn'[d].checked => conn[d].checked
    BY <1>1, <1>2 DEF Ready, NoCall
  <2>2. Named(d)'
    BY <1>1, <1>2, <1>4, <2>1 DEF StoreInv, Named, Row, Frame
  <2>3. Locked(d)' /\ Fresh(d)' /\ Idling(d)'
    BY <1>2, <1>3, CommitLeaves DEF Ready, NoCall
  <2>. QED  BY <2>2, <2>3
<1>. QED  BY <1>4, <1>5, <1>6 DEF StoreInv

LEMMA NextInv == StoreInv /\ [StoreNext]_vars => StoreInv'
<1>. SUFFICES ASSUME StoreInv, [StoreNext]_vars  PROVE StoreInv'
  OBVIOUS
<1>1. ASSUME NEW c \in Conns, Open(c)  PROVE StoreInv'
  BY <1>1, OutsideKeeps
<1>2. ASSUME NEW c \in Conns, Call(c)  PROVE StoreInv'
  BY <1>2, CallsKeep
<1>3. ASSUME NEW c \in Conns, Step(c)  PROVE StoreInv'
  BY <1>3, OutsideKeeps, InsideKeeps, CommitImportKeeps, CommitUpsertKeeps, CommitDeleteKeeps,
     CallsKeep DEF Step
<1>4. ASSUME NEW c \in Conns, Die(c)  PROVE StoreInv'
  BY <1>4, CallsKeep
<1>5. CASE UNCHANGED vars
  BY <1>5 DEF vars, StoreInv, StoreTypeOK, Locked, Fresh, Named, Idling, At, Row
<1>. QED  BY <1>1, <1>2, <1>3, <1>4, <1>5 DEF StoreNext

\* Whatever statement each connection has reached, only the holder of the lock
\* is inside a transaction, and what it has read there is what the file holds.
THEOREM StoreInvHolds == StoreSpec => []StoreInv
BY InitInv, NextInv, PTL DEF StoreSpec

\* Rows, locks and connections are what they look like.
THEOREM StoreTypeOKHolds == StoreSpec => []StoreTypeOK
<1>1. StoreInv => StoreTypeOK
  BY DEF StoreInv
<1>. QED  BY <1>1, StoreInvHolds, PTL

\* upsert with expected_version, as store.py checks it inside the transaction,
\* never writes over a row its caller has not seen, unless the row was deleted.
THEOREM NoLostUpdateHolds == StoreSpec => []NoLostUpdate
<1>1. ASSUME StoreInv, NEW c \in Conns, At(c, "commit"), conn[c].op = "upsert", conn[c].checked,
             conn[c].asOf = deleted[conn[c].tenant]
      PROVE  Row(c) = conn[c].item
  <2>1. conn[c].item # NoRecord /\ Row(c) # NoRecord
    BY <1>1 DEF StoreInv, Named
  <2>2. Row(c).version = conn[c].item.version
    BY <1>1, <2>1 DEF StoreInv, Fresh
  <2>. QED  BY <1>1, <2>1, <2>2 DEF StoreInv, Named
<1>2. StoreInv => NoLostUpdate
  BY <1>1 DEF NoLostUpdate
<1>. QED  BY <1>2, StoreInvHolds, PTL

-----------------------------------------------------------------------------
(* Refinement.                                                             *)

\* Both modules mean the same registry.
LEMMA SameRows ==
  /\ Atomic!NoRow = NoRow /\ Atomic!RowType = RowType
  /\ Atomic!DESIRED_STATUSES = DESIRED_STATUSES
  /\ \A r, fields : Atomic!Written(r, fields) = Written(r, fields)
<1>1. Atomic!NoRow = NoRow
  BY DEF NoRow, Atomic!NoRow
<1>2. Atomic!DESIRED_STATUSES = DESIRED_STATUSES
  BY DEF DESIRED_STATUSES, Atomic!DESIRED_STATUSES
<1>3. Atomic!RowType = RowType
  BY <1>2 DEF RowType, STATUSES, Owners, DeleteSteps,
     Atomic!RowType, Atomic!STATUSES, Atomic!Owners, Atomic!DeleteSteps
<1>4. \A status : Atomic!InferredDesired(status) = InferredDesired(status)
  BY DEF InferredDesired, Atomic!InferredDesired
<1>5. \A r, status : Atomic!Stored(r, status) = Stored(r, status)
  BY <1>1, <1>4 DEF Stored, Atomic!Stored
<1>6. \A v, default : Atomic!Given(v, default) = Given(v, default)
  BY DEF Given, Atomic!Given
<1>7. \A r, fields : Atomic!Written(r, fields) = Written(r, fields)
  BY <1>5, <1>6 DEF Written, Atomic!Written
<1>. QED  BY <1>1, <1>2, <1>3, <1>7

\* A commit is one step of the table; every other statement leaves it alone.
LEMMA NextAtomic == StoreInv /\ [StoreNext]_vars => [Atomic!Next]_file
<1>. SUFFICES ASSUME StoreInv, [StoreNext]_vars, file' # file  PROVE Atomic!Next
  BY DEF vars
<1>1. PICK c \in Conns : CommitImport(c) \/ CommitUpsert(c) \/ CommitDelete(c)
  BY DEF StoreNext, Step, Call, Open, CountRows, BeginImport, Get, CallUpsert, CallDelete,
         BeginImmediate, LockTimeout, SelectRow, WriteRow, Rollback, Die, vars
<1>. DEFINE t == conn[c].tenant
<1>2. t \in Tenants /\ conn[c].fields \in Fields
  BY DEF StoreInv, StoreTypeOK, Frame
<1>3. CASE CommitUpsert(c)
  <2>1. Atomic!Put(t, conn[c].fields)
    BY <1>3, SameRows DEF CommitUpsert, At, Atomic!Put, StoreInv, Fresh, Invalid, NewRecord, Row
  <2>. QED  BY <1>2, <2>1 DEF Atomic!Next
<1>4. CASE CommitDelete(c)
  <2>1. Atomic!Remove(t)
    BY <1>4, SameRows DEF CommitDelete, NoRecord, Atomic!Remove
  <2>. QED  BY <1>2, <2>1 DEF Atomic!Next
<1>5. CASE CommitImport(c)
  <2>1. \A u \in Tenants : file[u] # NoRecord <=> file[u].cols # NoRow
    BY DEF StoreInv, Numbered, NoRecord
  <2>2. Atomic!Import
    BY <1>5, <2>1, SameRows DEF CommitImport, Atomic!Import
  <2>. QED  BY <2>2 DEF Atomic!Next
<1>. QED  BY <1>1, <1>3, <1>4, <1>5

\* TenantStore is a registry whose calls happen at once: the other modules may
\* take each upsert and delete for one step, whoever else has the file open.
THEOREM ImplementsRegistryHolds == StoreSpec => ImplementsRegistry
<1>1. StoreInv => Atomic!Init
  BY SameRows DEF StoreInv, StoreTypeOK, RecordType, Atomic!Init
<1>. QED  BY <1>1, InitInv, NextAtomic, StoreInvHolds, PTL DEF StoreSpec, ImplementsRegistry, Atomic!Spec

\* The upserts of World and Teardown are calls of this one: each is what
\* upsert stores for the columns its caller passes.
THEOREM UpsertsAreWrites ==
  ASSUME NEW r \in RowType \cup {NoRow}, NEW desired \in DESIRED_STATUSES,
         NEW status \in STATUSES, NEW step \in DeleteSteps
  PROVE  /\ Upsert(r, desired, status) = Written(r, [NoFields EXCEPT !.desired = desired, !.status = status])
         /\ UpsertStatus(r, status) = Written(r, [NoFields EXCEPT !.status = status])
         /\ UpsertStep(r, status, step) = Written(r, [NoFields EXCEPT !.status = status, !.step = step])
         /\ UpsertObserved(r) = Written(r, NoFields)
<1>1. status # "unset" /\ desired # "unset" /\ step # "unset"
  BY DEF STATUSES, DESIRED_STATUSES, DeleteSteps
<1>2. ASSUME NEW s \in STATUSES
      PROVE  Stored(r, s) \in RowType
  <2>1. InferredDesired(s) \in DESIRED_STATUSES
    BY DEF InferredDesired, DESIRED_STATUSES
  <2>. QED  BY <2>1 DEF Stored, RowType, Owners, DeleteSteps
<1>3. "PROVISIONING" \in STATUSES
  BY DEF STATUSES
<1>4. ASSUME NEW s \in RowType
      PROVE  /\ [s EXCEPT !.desired = desired, !.status = status]
                   = [desired |-> desired, status |-> status, owner |-> s.owner, step |-> s.step]
             /\ [s EXCEPT !.status = status, !.step = step]
                   = [desired |-> s.desired, status |-> status, owner |-> s.owner, step |-> step]
  <2>1. [s EXCEPT !.desired = desired, !.status = status] = [desired |-> desired, status |-> status, owner |-> s.owner, step |-> s.step]
    <3>. DEFINE y == [s EXCEPT !.desired = desired, !.status = status]
    <3>1. y \in RowType /\ y.desired = desired /\ y.status = status
          /\ y.owner = s.owner /\ y.step = s.step
      BY <1>4 DEF RowType
    <3>. HIDE DEF y
    <3>2. y = [desired |-> y.desired, status |-> y.status, owner |-> y.owner, step |-> y.step]
      BY <3>1 DEF RowType
    <3>. QED  BY <3>1, <3>2 DEF y
  <2>2. [s EXCEPT !.status = status, !.step = step] = [desired |-> s.desired, status |-> status, owner |-> s.owner, step |-> step]
    <3>. DEFINE y == [s EXCEPT !.status = status, !.step = step]
    <3>1. y \in RowType /\ y.desired = s.desired /\ y.status = status
          /\ y.owner = s.owner /\ y.step = step
      BY <1>4 DEF RowType
    <3>. HIDE DEF y
    <3>2. y = [desired |-> y.desired, status |-> y.status, owner |-> y.owner, step |-> y.step]
      BY <3>1 DEF RowType
    <3>. QED  BY <3>1, <3>2 DEF y
  <2>. QED  BY <2>1, <2>2
<1>5. Upsert(r, desired, status) = Written(r, [NoFields EXCEPT !.desired = desired, !.status = status])
  BY <1>1, <1>2, <1>4 DEF RowType, Upsert, Written, Given, NoFields
<1>6. UpsertStatus(r, status) = Written(r, [NoFields EXCEPT !.status = status])
  BY <1>1, <1>2 DEF RowType, UpsertStatus, Written, Given, NoFields
<1>7. UpsertStep(r, status, step) = Written(r, [NoFields EXCEPT !.status = status, !.step = step])
  BY <1>1, <1>2, <1>4 DEF RowType, UpsertStep, Written, Given, NoFields
<1>8. UpsertObserved(r) = Written(r, NoFields)
  BY <1>2, <1>3 DEF RowType, UpsertObserved, Written, Given, NoFields
<1>. QED  BY <1>5, <1>6, <1>7, <1>8
=============================================================================
