----------------------------- MODULE MCDeletion -----------------------------
(* Finite instances of Deletion for TLC.                                   *)
EXTENDS Deletion, TLC

CONSTANTS a, b   \* tenants; a is the platform tenant

\* Workers are interchangeable.
WorkerSymmetry == Permutations(Workers)
=============================================================================
