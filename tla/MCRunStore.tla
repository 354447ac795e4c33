------------------------------ MODULE MCRunStore ------------------------------
(***************************************************************************)
(* Two or three items and three attempts: one to leave something behind,   *)
(* one to act on it, one to see the consequence.                           *)
(***************************************************************************)
EXTENDS RunStore, TLC

Interchangeable == Permutations(Items)
=============================================================================
