------------------------------ MODULE Capturing ------------------------------
(* ScriptCapture beside modules that have names of their own for what it names. *)
EXTENDS Naturals

CONSTANTS
    Hosts,          \* the servers of a program of calls
    BaseNames,      \* what a database of theirs may be called
    Handles,        \* the Database values it has of each
    NoBase          \* no database: that of a server-scoped statement

\* The names tell the handles apart, and there is a database that is none.
ASSUME CaptureAssumption ==
    /\ NoBase \notin BaseNames /\ 0 \notin Handles
    /\ \E f \in [Handles -> BaseNames] : \A g, h \in Handles : g # h => f[g] # f[h]

Capture == INSTANCE ScriptCapture
=============================================================================
