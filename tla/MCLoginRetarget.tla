--------------------------- MODULE MCLoginRetarget ---------------------------
(* TLC instances of LoginRetarget.                                            *)
EXTENDS LoginRetarget, TLC

CONSTANTS a, b
BothWays == {<<a, b>>, <<b, a>>}
Once == {<<a, b>>}
ConnSymmetry == Permutations(Conns)
=============================================================================
