--------------------------- MODULE MCControlPlane ---------------------------
(* Finite instances of ControlPlane for TLC.                               *)
EXTENDS Invariants, TLC

CONSTANTS a, b, c   \* tenants; a is the platform tenant

\* Handlers, threads and processes are interchangeable within their kind.
ActorSymmetry == Permutations(Handlers) \cup Permutations(Threads) \cup Permutations(Shells)
=============================================================================
