------------------------- MODULE MCExclusiveAccess --------------------------
(* TLC instances of ExclusiveAccess: what the callers may run.                *)
EXTENDS ExclusiveAccess

CONSTANTS c1, c2

\* One caller with every operation, or two that force their way at once.
Forced == {"drop", "detach", "rename"}
OneOrTwo == {[c \in {c1, c2} |-> IF c = c1 THEN AllKinds ELSE {}],
             [c \in {c1, c2} |-> Forced]}

DropOnly == {[c \in {c1} |-> {"drop"}]}
=============================================================================
