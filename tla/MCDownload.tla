------------------------------ MODULE MCDownload ------------------------------
(***************************************************************************)
(* Two processes, a file of two units and two versions of it, so that a    *)
(* resumed download can mix versions; one crash and its aftermath.         *)
(***************************************************************************)
EXTENDS Download, TLC

Interchangeable == Permutations(Callers) \cup Permutations(Inodes)
=============================================================================
