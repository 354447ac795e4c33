----------------------------- MODULE MCFetchEpic ------------------------------
(***************************************************************************)
(* Two videos, one of which may fail while the other succeeds; one batch   *)
(* that leaves something behind, one that finds it, one that finds what    *)
(* the recovery left.                                                      *)
(***************************************************************************)
EXTENDS FetchEpic, TLC

Interchangeable == Permutations(Videos)
=============================================================================
