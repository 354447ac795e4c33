------------------------------ MODULE MCLauncher ------------------------------
(***************************************************************************)
(* One model with the two tracks that are compared: threads of different   *)
(* models share no folder. Three launches: one leaves rows, one is killed  *)
(* while it marks the folders again, one comes with other code.            *)
(***************************************************************************)
EXTENDS Launcher, TLC

Interchangeable == Permutations(Items) \cup Permutations(Commits)
=============================================================================
