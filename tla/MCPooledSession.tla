-------------------------- MODULE MCPooledSession --------------------------
(* TLC instance of PooledSession: one goroutine makes every kind of call, the *)
(* other competes with it for the pool's only connection.                     *)
EXTENDS PooledSession

CONSTANTS p, q
OneOfEach == [x \in Procs |-> IF x = p THEN AllOps ELSE {"write", "bulk"}]
=============================================================================
