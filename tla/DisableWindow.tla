---------------------------- MODULE DisableWindow ----------------------------
(***************************************************************************)
(* Objects the server refuses to alter while they are on: server audits,   *)
(* audit specifications, and event sessions for some of their options.     *)
(* Every write reads whether the object is on, switches it off, runs, and  *)
(* switches it on again if it was on; WithDisabled opens one such window   *)
(* around several writes.                                                  *)
(*                                                                         *)
(* Several callers address one object by name.  Any statement may fail     *)
(* without having taken effect; the switches and the rename may also take  *)
(* effect without the caller hearing of it, because its connection was     *)
(* lost or its context ended.                                              *)
(***************************************************************************)
EXTENDS Naturals, Sequences

CONSTANTS
    Procs,      \* goroutines
    Names,      \* names the object may have
    None,
    Kinds,      \* kinds of object: "audit", "specification", "session"
    MaxWrites   \* writes one window may hold

ASSUME WindowAssumption ==
    /\ None \notin Names
    /\ Kinds \subseteq {"audit", "specification", "session"}
    /\ MaxWrites \in Nat

VARIABLES
    kind, name, on, \* the object: its name is None once it is dropped
    found,          \* whether it is to be on: as it was, or was last set
    renamer,        \* the last caller whose rename took effect
    pc,             \* per goroutine: where its call is
    handle,         \* the receiver's name
    window,         \* the name its window is to switch on again
    restore,        \* it found the object on, and switched it off
    todo,           \* the writes its window has left
    err, ended,     \* a step of its call failed; its context has ended
    quiet,          \* every call has returned nil so far
    stray,          \* what has happened that no window makes good
    setMeanwhile    \* the object was switched by hand inside a window

object == <<kind, name, on, found, renamer>>
call == <<pc, handle, window, restore, todo, err, ended>>
history == <<quiet, stray, setMeanwhile>>
vars == <<object, call, history>>

\* The writes one window may hold: what fn makes of WithDisabled, Alter and
\* Rename with a window of their own among them, or the options
\* EventSession.Alter can change on a stopped session only.
Writes == {"alter", "rename"}
Bodies ==
    IF kind = "session" THEN {<<"alter">>}
    ELSE UNION {[1..n -> IF kind = "audit" THEN Writes ELSE {"alter"}] : n \in 0..MaxWrites}

\* Nothing; a switch off or a rename that took effect unheard; or one of the
\* other things no window can make good: a panic, a restore that failed, a
\* rename by somebody else, a drop that failed half-way, a switch by hand.
Strays == {"nothing", "unheard", "excused"}

TypeOK ==
    /\ kind \in Kinds
    /\ name \in Names \cup {None}
    /\ on \in BOOLEAN /\ found \in BOOLEAN
    /\ renamer \in Procs \cup {None}
    /\ pc \in [Procs -> {"rest", "read", "off", "body", "on", "dropRead", "dropOff", "drop"}]
    /\ handle \in [Procs -> Names]
    /\ window \in [Procs -> Names \cup {None}]
    /\ restore \in [Procs -> BOOLEAN]
    /\ DOMAIN todo = Procs /\ \A p \in Procs : todo[p] \in Seq(Writes)
    /\ err \in [Procs -> BOOLEAN]
    /\ ended \in [Procs -> BOOLEAN]
    /\ quiet \in BOOLEAN
    /\ stray \in Strays
    /\ setMeanwhile \in BOOLEAN
    /\ \A p \in Procs : window[p] # None <=> pc[p] \in {"off", "body", "on"}

Init ==
    /\ kind \in Kinds
    /\ name \in Names
    /\ on \in BOOLEAN
    /\ found = on
    /\ renamer = None
    /\ pc = [p \in Procs |-> "rest"]
    /\ handle = [p \in Procs |-> name]
    /\ window = [p \in Procs |-> None]
    /\ restore = [p \in Procs |-> FALSE]
    /\ todo = [p \in Procs |-> <<>>]
    /\ err = [p \in Procs |-> FALSE]
    /\ ended = [p \in Procs |-> FALSE]
    /\ quiet = TRUE
    /\ stray = "nothing"
    /\ setMeanwhile = FALSE

-----------------------------------------------------------------------------
Goto(p, label) == pc' = [pc EXCEPT ![p] = label]
Finds(n) == name = n
Stray(how) == stray' = IF stray = "excused" \/ how = "nothing" THEN stray ELSE how

\* The call returns, with an error unless ok, and its window with it.
Return(p, ok) ==
    /\ Goto(p, "rest")
    /\ window' = [window EXCEPT ![p] = None]
    /\ restore' = [restore EXCEPT ![p] = FALSE]
    /\ todo' = [todo EXCEPT ![p] = <<>>]
    /\ err' = [err EXCEPT ![p] = FALSE]
    /\ ended' = [ended EXCEPT ![p] = FALSE]
    /\ quiet' = (quiet /\ ok)
    /\ UNCHANGED setMeanwhile

\* A caller has its handle from before, or reads the object again.
BeginWindow(p) ==
    /\ pc[p] = "rest"
    /\ \E n \in {handle[p], name} \ {None} : handle' = [handle EXCEPT ![p] = n]
    /\ \E body \in Bodies : todo' = [todo EXCEPT ![p] = body]
    /\ Goto(p, "read")
    /\ UNCHANGED <<object, window, restore, err, ended, history>>

BeginDrop(p) ==
    /\ pc[p] = "rest"
    /\ Goto(p, IF kind = "session" THEN "drop" ELSE "dropRead")
    /\ UNCHANGED <<object, handle, window, restore, todo, err, ended, history>>

ContextEnds(p) ==
    /\ pc[p] # "rest" /\ ~ended[p]
    /\ ended' = [ended EXCEPT ![p] = TRUE]
    /\ UNCHANGED <<object, pc, handle, window, restore, todo, err, history>>

\* SetEnabled, Start and Stop: one statement.
Set(p) ==
    /\ pc[p] = "rest"
    /\ \/ /\ Finds(handle[p])
          /\ on' \in BOOLEAN
          /\ found' = on'
          /\ IF \A q \in Procs : pc[q] = "rest"
             THEN UNCHANGED <<stray, setMeanwhile>>
             ELSE Stray("excused") /\ setMeanwhile' = TRUE
          /\ quiet' \in {quiet, FALSE}
       \/ UNCHANGED <<on, found, stray, setMeanwhile>> /\ quiet' = FALSE
    /\ UNCHANGED <<kind, name, renamer, call>>

-----------------------------------------------------------------------------
(* The window.                                                             *)

\* isEnabled.  EventSession.Alter reads the session at the start, and the
\* statements a running session takes come between.
ReadAlwaysRestores(p) ==                                          \* a fault
    /\ pc[p] = "read"
    /\ \/ /\ ~ended[p] /\ Finds(handle[p])
          /\ window' = [window EXCEPT ![p] = handle[p]]
          /\ restore' = [restore EXCEPT ![p] = TRUE]
          /\ Goto(p, "off")
          /\ UNCHANGED <<todo, err, ended, quiet, setMeanwhile>>
       \/ Return(p, FALSE)
    /\ UNCHANGED <<object, handle, stray>>
Read(p) ==
    /\ pc[p] = "read"
    /\ \/ /\ ~ended[p] /\ Finds(handle[p])
          /\ window' = [window EXCEPT ![p] = handle[p]]
          /\ restore' = [restore EXCEPT ![p] = on]
          /\ Goto(p, IF on THEN "off" ELSE "body")
          /\ UNCHANGED <<todo, err, ended, quiet, setMeanwhile>>
       \/ Return(p, FALSE)
    /\ UNCHANGED <<object, handle, stray>>

\* Disable.  If it fails the call returns: nothing is restored.
SwitchOff(p) ==
    /\ pc[p] = "off"
    /\ \/ /\ ~ended[p] /\ Finds(handle[p])
          /\ on' = FALSE
          /\ Goto(p, "body")
          /\ UNCHANGED <<window, restore, todo, err, ended, history>>
       \/ /\ Finds(handle[p])
          /\ on' = FALSE
          /\ Return(p, FALSE)
          /\ Stray("unheard")
       \/ Return(p, FALSE) /\ UNCHANGED <<on, stray>>
    /\ UNCHANGED <<kind, name, found, renamer, handle>>

\* A write in the window, which the server refuses while the object is on.
WriteDone(p) == todo' = [todo EXCEPT ![p] = Tail(@)]
IsNext(p, write) == pc[p] = "body" /\ todo[p] # <<>> /\ Head(todo[p]) = write

Alter(p) ==
    /\ IsNext(p, "alter")
    /\ ~ended[p] /\ Finds(handle[p]) /\ ~on
    /\ WriteDone(p)
    /\ UNCHANGED <<object, pc, handle, window, restore, err, ended, history>>

\* A rename moves the receiver and the window to the new name.
RenameKeepsWindow(p) ==                                           \* a fault
    /\ IsNext(p, "rename")
    /\ ~ended[p] /\ Finds(handle[p]) /\ ~on
    /\ \E n \in Names \ {handle[p]} :
         /\ name' = n
         /\ handle' = [handle EXCEPT ![p] = n]
         /\ UNCHANGED window
    /\ renamer' = p
    /\ WriteDone(p)
    /\ UNCHANGED <<kind, on, found, pc, restore, err, ended, history>>
Rename(p) ==
    /\ IsNext(p, "rename")
    /\ ~ended[p] /\ Finds(handle[p]) /\ ~on
    /\ \E n \in Names \ {handle[p]} :
         /\ name' = n
         /\ handle' = [handle EXCEPT ![p] = n]
         /\ window' = [window EXCEPT ![p] = n]
    /\ renamer' = p
    /\ WriteDone(p)
    /\ UNCHANGED <<kind, on, found, pc, restore, err, ended, history>>

\* A write that fails: fn gives up, or goes on with the next.  A rename may
\* have taken effect all the same.
WriteFails(p) ==
    /\ pc[p] = "body" /\ todo[p] # <<>>
    /\ \/ UNCHANGED <<name, renamer, stray>>
       \/ /\ IsNext(p, "rename") /\ Finds(handle[p]) /\ ~on
          /\ name' \in Names \ {handle[p]}
          /\ renamer' = p
          /\ Stray("unheard")
    /\ \/ err' = [err EXCEPT ![p] = TRUE] /\ todo' = [todo EXCEPT ![p] = <<>>]
       \/ kind # "session" /\ UNCHANGED err /\ WriteDone(p)
    /\ UNCHANGED <<kind, on, found, pc, handle, window, restore, ended, quiet, setMeanwhile>>

\* fn panics: the switch on is not deferred.
Panic(p) ==
    /\ pc[p] = "body" /\ kind # "session"
    /\ Return(p, FALSE)
    /\ Stray(IF restore[p] THEN "excused" ELSE "nothing")
    /\ UNCHANGED <<object, handle>>

BodyEnds(p) ==
    /\ pc[p] = "body" /\ todo[p] = <<>>
    /\ IF restore[p]
       THEN Goto(p, "on") /\ UNCHANGED <<window, restore, todo, err, ended, quiet, setMeanwhile>>
       ELSE Return(p, ~err[p])
    /\ UNCHANGED <<object, handle, stray>>

\* restoreWindow runs whatever became of the context.
SwitchOnUnreported(p) ==                                          \* a fault
    /\ pc[p] = "on"
    /\ \/ /\ Finds(window[p])
          /\ on' = TRUE
          /\ UNCHANGED stray
       \/ /\ UNCHANGED on
          /\ Stray(IF Finds(window[p]) \/ renamer # p THEN "excused" ELSE "nothing")
    /\ Return(p, ~err[p])
    /\ UNCHANGED <<kind, name, found, renamer, handle>>
SwitchOn(p) ==
    /\ pc[p] = "on"
    /\ \/ /\ Finds(window[p])
          /\ on' = TRUE
          /\ \E heard \in BOOLEAN : Return(p, heard /\ ~err[p])
          /\ UNCHANGED stray
       \/ /\ UNCHANGED on
          /\ Return(p, FALSE)
          /\ Stray(IF Finds(window[p]) \/ renamer # p THEN "excused" ELSE "nothing")
    /\ UNCHANGED <<kind, name, found, renamer, handle>>

-----------------------------------------------------------------------------
(* Drop switches the object off first, and restores nothing.               *)

DropRead(p) ==
    /\ pc[p] = "dropRead"
    /\ \/ /\ ~ended[p] /\ Finds(handle[p])
          /\ Goto(p, IF on THEN "dropOff" ELSE "drop")
          /\ UNCHANGED <<window, restore, todo, err, ended, quiet, setMeanwhile>>
       \/ Return(p, FALSE)
    /\ UNCHANGED <<object, handle, stray>>

DropSwitchOff(p) ==
    /\ pc[p] = "dropOff"
    /\ \/ /\ ~ended[p] /\ Finds(handle[p])
          /\ on' = FALSE
          /\ restore' = [restore EXCEPT ![p] = TRUE]
          /\ Goto(p, "drop")
          /\ UNCHANGED <<window, todo, err, ended, history>>
       \/ /\ Finds(handle[p])
          /\ on' = FALSE
          /\ Return(p, FALSE)
          /\ Stray("excused")
       \/ Return(p, FALSE) /\ UNCHANGED <<on, stray>>
    /\ UNCHANGED <<kind, name, found, renamer, handle>>

\* A running session is dropped as it is.
Drop(p) ==
    /\ pc[p] = "drop"
    /\ \/ /\ Finds(handle[p]) /\ (kind # "session" => ~on)
          /\ name' = None
          /\ \E heard \in {~ended[p], FALSE} : Return(p, heard)
          /\ UNCHANGED stray
       \/ /\ UNCHANGED name
          /\ Return(p, FALSE)
          /\ Stray(IF restore[p] THEN "excused" ELSE "nothing")
    /\ UNCHANGED <<kind, on, found, renamer, handle>>

-----------------------------------------------------------------------------
Next == \E p \in Procs :
    \/ BeginWindow(p) \/ BeginDrop(p) \/ ContextEnds(p) \/ Set(p)
    \/ Read(p) \/ SwitchOff(p) \/ Alter(p) \/ Rename(p) \/ WriteFails(p) \/ Panic(p)
    \/ BodyEnds(p) \/ SwitchOn(p)
    \/ DropRead(p) \/ DropSwitchOff(p) \/ Drop(p)

Spec == Init /\ [][Next]_vars

-----------------------------------------------------------------------------
(* Properties.                                                             *)

Settled == name # None /\ \A p \in Procs : pc[p] = "rest"

\* No window turns on an object its owner had left off (withAuditDisabled:
\* "re-enabling unconditionally would turn on an audit the user had
\* deliberately left off"), unless it was switched off inside the window.
NeverTurnedOn == ~setMeanwhile => (on => found)

\* Once every call is over the object is on if it was to be: whatever failed in
\* a window, whoever's contexts ended, and whichever windows overlapped, except
\* for the excuses, each of which some call has met.
NeverLeftOff == Settled /\ stray = "nothing" /\ found => on

\* And it is never off in silence: if every call returned nil it is on, whatever
\* happened, the excuses included.
NeverSilentlyOff == Settled /\ quiet /\ found => on

\* withAuditDisabled: "a failure part-way through cannot leave the audit off".
\* It can: the switch that opens the window, and a rename, may have taken effect
\* although an error came back.
FailureLeavesItOn == Settled /\ stray # "excused" /\ found => on
=============================================================================
