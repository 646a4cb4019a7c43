--------------------------- MODULE MCRegistryStore ---------------------------
(* Finite instances of RegistryStore for TLC.                              *)
EXTENDS RegistryStore

CONSTANTS a, b   \* tenants
=============================================================================
