------------------------------- MODULE Inputs -------------------------------
(* What an algorithm is given: one of the inputs MCAlgorithms draws, in a run; *)
(* any of its kind, in a proof.                                                *)

VARIABLE input
=============================================================================
