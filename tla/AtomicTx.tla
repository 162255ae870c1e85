------------------------------ MODULE AtomicTx ------------------------------
(***************************************************************************)
(* What Server.InTransaction promises its caller, without sessions,        *)
(* databases, contexts or drivers: a transaction collects writes; they     *)
(* come into force together or not at all; a transaction holding a write   *)
(* that was only half done never comes into force; and an observer is told *)
(* of the observed writes in force, in the order they ran, and of nothing  *)
(* else (transaction.go, the doc comment of InTransaction).                *)
(***************************************************************************)
EXTENDS Selection

CONSTANTS Writes        \* the writes a caller can issue, each a record with a
                        \* BOOLEAN "seen": is an observer to hear of it

VARIABLES state,        \* "none", "open", "committed" or "gone"
          doomed,       \* a write of the transaction was left half done
          writes,       \* the whole writes of the open transaction, in order
          inForce,      \* the writes a commit put in force, in order
          heard         \* what the observer was told, in order

vars == <<state, doomed, writes, inForce, heard>>

\* The writes among ws an observer is to hear of, in order.
Observed(ws) == Only(ws, {w \in Writes : w.seen})

Init ==
    /\ state = "none"
    /\ doomed = FALSE
    /\ writes = <<>>
    /\ inForce = <<>>
    /\ heard = <<>>

Begin ==
    /\ state = "none"
    /\ state' = "open"
    /\ UNCHANGED <<doomed, writes, inForce, heard>>

Write ==
    /\ state = "open"
    /\ \E w \in Writes : writes' = Append(writes, w)
    /\ UNCHANGED <<state, doomed, inForce, heard>>

\* A write fails with some of its statements done: only a rollback is left.
Doom ==
    /\ state = "open"
    /\ doomed' = TRUE
    /\ UNCHANGED <<state, writes, inForce, heard>>

Commit ==
    /\ state = "open"
    /\ ~doomed
    /\ state' = "committed"
    /\ inForce' = writes
    /\ UNCHANGED <<doomed, writes, heard>>

Abort ==
    /\ state \in {"none", "open"}
    /\ state' = "gone"
    /\ doomed' = FALSE
    /\ writes' = <<>>
    /\ UNCHANGED <<inForce, heard>>

Report ==
    /\ state = "committed"
    /\ Len(heard) < Len(Observed(inForce))
    /\ heard' = Append(heard, Observed(inForce)[Len(heard) + 1])
    /\ UNCHANGED <<state, doomed, writes, inForce>>

Next == Begin \/ Write \/ Doom \/ Commit \/ Abort \/ Report

Spec == Init /\ [][Next]_vars
=============================================================================
