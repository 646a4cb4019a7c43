--------------------------- MODULE OrderedRelease ---------------------------
(***************************************************************************)
(* What a fail-closed deletion promises, without workers, retries, steps   *)
(* or failures: a tenant holds things, a thing is released only after the  *)
(* things that must go before it, and nothing but its registry record ever *)
(* comes back.  docs/saas/TENANT_CONTROL_PLANE.md draws this order as the  *)
(* deletion state machine.                                                 *)
(***************************************************************************)
CONSTANTS
  Tenants,
  Things,   \* includes "record", the registry row
  Before    \* [Tenants -> [Things -> SUBSET Things]]: what must be gone first

VARIABLE holds   \* tenant -> the things it still has

TypeOK == holds \in [Tenants -> SUBSET Things]

Init == TypeOK

\* A DELETE of a tenant without a row writes one; a late step of another
\* deletion may write it again.
Record(t) == holds' = [holds EXCEPT ![t] = @ \cup {"record"}]

Release(t, x) ==
  /\ holds[t] \cap Before[t][x] = {}
  /\ holds' = [holds EXCEPT ![t] = @ \ {x}]

Next == \E t \in Tenants : Record(t) \/ \E x \in Things : Release(t, x)

Spec == Init /\ [][Next]_holds
=============================================================================
