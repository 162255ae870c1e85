------------------------------ MODULE MCEvents -------------------------------
(* TLC instances of what an audit or an event session goes through: the       *)
(* windows it is switched off for, and the reads of the files it writes.       *)
(* Neither reads the other's state, so a behaviour is one of one part, the     *)
(* other at rest.                                                              *)
EXTENDS MCDisableWindow, EventFile

VARIABLE part
watched == <<part, vars, file>>

EventsInit ==
    /\ part \in {"windows", "files"}
    /\ Init /\ FileInit
    /\ part = "files" => kind = "session" /\ name = (CHOOSE n \in Names : TRUE) /\ on

EventsNext ==
    /\ UNCHANGED part
    /\ \/ part = "windows" /\ Next /\ UNCHANGED file
       \/ part = "files" /\ FileNext /\ UNCHANGED vars

EventsSpec == EventsInit /\ [][EventsNext]_watched
=============================================================================
