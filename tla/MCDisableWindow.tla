-------------------------- MODULE MCDisableWindow ---------------------------
(* TLC instances of DisableWindow.                                           *)
EXTENDS DisableWindow, TLC

ProcSymmetry == Permutations(Procs)
=============================================================================
