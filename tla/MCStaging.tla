------------------------------- MODULE MCStaging ------------------------------
(***************************************************************************)
(* Two videos, so that one is revoked while the other is still readable,   *)
(* and two processes: the adapter, and a child the fd audit does not see.  *)
(***************************************************************************)
EXTENDS Staging, TLC

Interchangeable == Permutations(Names)
=============================================================================
