--------------------------- MODULE AtomicRegistry ---------------------------
(***************************************************************************)
(* What the rest of the control plane takes the registry for: a table on   *)
(* which upsert, delete and the import of tenants.json happen one at a     *)
(* time, each at once and on the rows as they are.                         *)
(***************************************************************************)
EXTENDS Registry, Naturals

CONSTANTS
  Tenants,
  Fields,      \* what upsert may be called with
  LegacyRows   \* tenant -> its row in tenants.json, or NoRow

VARIABLE table   \* tenant -> version and columns of its row

Put(t, fields) ==
  /\ fields.desired \in DESIRED_STATUSES \cup {"unset"}
  /\ table' = [table EXCEPT ![t] = [version |-> @.version + 1, cols |-> Written(@.cols, fields)]]

Remove(t) == table' = [table EXCEPT ![t] = [version |-> 0, cols |-> NoRow]]

\* Never over a row that is there.
Import ==
  table' = [t \in Tenants |-> IF table[t].cols # NoRow \/ LegacyRows[t] = NoRow THEN table[t]
                              ELSE [version |-> 1, cols |-> LegacyRows[t]]]

Init == table \in [Tenants -> [version : Nat, cols : RowType \cup {NoRow}]]

Next ==
  \/ \E t \in Tenants : Remove(t) \/ \E fields \in Fields : Put(t, fields)
  \/ Import

Spec == Init /\ [][Next]_table
=============================================================================
