-------------------------- MODULE MCSystemRestore --------------------------
(***************************************************************************)
(* SystemRestore for TLC: a few interchangeable calls of stageRestore.     *)
(***************************************************************************)
EXTENDS SystemRestore, TLC

AttemptSymmetry == Permutations(Attempts)
=============================================================================
