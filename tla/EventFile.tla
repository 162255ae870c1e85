------------------------------ MODULE EventFile ------------------------------
(***************************************************************************)
(* XEvents.ReadFile and ReadFileEvents (extended_events_read.go): a caller *)
(* that polls the files an event session writes, each read going on from   *)
(* the cursor of the one before, while the session writes, starts further  *)
(* files and deletes the oldest.                                           *)
(*                                                                         *)
(* The server filters, so an event is here only if it is one of those      *)
(* asked for; a buffer may hold none of them.                              *)
(***************************************************************************)
EXTENDS Naturals, FiniteSets

CONSTANTS
    MaxFiles,       \* files the session starts
    MaxBuffers,     \* buffers it writes to one
    MaxEvents,      \* events asked for in one, at most
    Sizes,          \* how many one may hold
    Kept,           \* max_rollover_files
    Maxes           \* what a read may be asked to return at most; 0: everything

ASSUME FileAssumption ==
    /\ {MaxFiles, MaxBuffers, MaxEvents, Kept} \subseteq Nat \ {0}
    /\ Sizes \subseteq 0..MaxEvents
    /\ Maxes \subseteq Nat

VARIABLES
    last,           \* the last buffer written
    events,         \* every event written
    deleted,        \* the files that are gone
    byHand,         \* one of them was not deleted by rollover
    reading,        \* a read is under way
    most,           \* its max
    listed,         \* the last buffer written when it began
    sent,           \* the last row the server sent it
    buffer,         \* bufFile and bufOffset; Start while bufOffset is -1
    out, pending,   \* the events of whole buffers, and of the one being read
    cursor,         \* the caller's EventFileCursor
    got,            \* the events the caller was returned
    upTo            \* what was there, of a read that came to its end

session == <<last, events, deleted, byHand>>
read == <<reading, most, listed, sent, buffer, out, pending>>
caller == <<cursor, got, upTo>>
file == <<session, read, caller>>

Position == [file : Nat, offset : Nat]
Event == [file : Nat, offset : Nat, at : Nat]
At(f, o) == [file |-> f, offset |-> o]
Buffer(e) == At(e.file, e.offset)

\* The zero cursor.
Start == At(0, 0)

Precedes(a, b) == a.file < b.file \/ (a.file = b.file /\ a.offset < b.offset)
Before(d, e) == Precedes(d, e) \/ (Buffer(d) = Buffer(e) /\ d.at < e.at)

\* "The server skips every event of the cursor's buffer."
LastOf(b) == [file |-> b.file, offset |-> b.offset, at |-> MaxEvents]

FileTypeOK ==
    /\ last \in Position /\ deleted \subseteq Nat /\ byHand \in BOOLEAN
    /\ events \subseteq Event /\ out \subseteq Event /\ pending \subseteq Event /\ got \subseteq Event
    /\ reading \in BOOLEAN /\ most \in Nat /\ sent \in Event
    /\ listed \in Position /\ buffer \in Position /\ cursor \in Position /\ upTo \in Position

FileInit ==
    /\ last = At(1, 0) /\ events = {} /\ deleted = {} /\ byHand = FALSE
    /\ reading = FALSE /\ most = 0 /\ listed = Start /\ sent = LastOf(Start)
    /\ buffer = Start /\ out = {} /\ pending = {}
    /\ cursor = Start /\ got = {} /\ upTo = Start

-----------------------------------------------------------------------------
(* The session.                                                                *)

\* "A buffer is written whole."
WriteBuffer(n) ==
    /\ last.offset < MaxBuffers
    /\ last' = At(last.file, last.offset + 1)
    /\ events' = events \cup {[file |-> last.file, offset |-> last.offset + 1, at |-> i] : i \in 1..n}
    /\ UNCHANGED <<deleted, byHand, read, caller>>

RollOver ==
    /\ last.file < MaxFiles
    /\ last' = At(last.file + 1, 0)
    /\ deleted' = deleted \cup {f \in 1..last.file : f + Kept <= last.file + 1}
    /\ UNCHANGED <<events, byHand, read, caller>>

DeleteByHand(f) ==
    /\ f < last.file /\ f \notin deleted
    /\ deleted' = deleted \cup {f}
    /\ byHand' = TRUE
    /\ UNCHANGED <<last, events, read, caller>>

-----------------------------------------------------------------------------
(* A read.                                                                     *)

\* It is over, and the caller keeps its cursor or takes another.
ReadOver(to) ==
    /\ reading' = FALSE /\ most' = 0 /\ listed' = Start /\ sent' = LastOf(Start)
    /\ buffer' = Start /\ out' = {} /\ pending' = {}
    /\ cursor' = to
    /\ UNCHANGED session
Returns(them, to) == got' = got \cup them /\ ReadOver(to)

\* fn_xe_file_target_read_file, from the cursor.
Query ==
    /\ ~reading
    /\ cursor.file \notin deleted
    /\ reading' = TRUE
    /\ \E m \in Maxes : most' = m
    /\ listed' = last
    /\ sent' = LastOf(cursor)
    /\ UNCHANGED <<buffer, out, pending, session, caller>>

\* ErrEventFileGone, at the query or once rows are read; "start again from the
\* zero cursor".  Without a cursor to lose, a file that is deleted before it is
\* read is an error like another.
FileGone ==
    /\ \/ ~reading /\ cursor.file \in deleted
       \/ reading /\ \E f \in deleted : sent.file <= f
    /\ ReadOver(Start)
    /\ UNCHANGED <<got, upTo>>

\* The server goes through the files in order; one deleted meanwhile it may have
\* open, or pass over, but not in the middle of a buffer.
Sends(e) ==
    /\ e \in events /\ Before(sent, e)
    /\ e.file \notin deleted \/ e.file = sent.file
    /\ \A d \in events : Before(sent, d) /\ Before(d, e) =>
          Buffer(d) # Buffer(sent) /\ d.file \in deleted

\* f != bufFile || off != bufOffset.
NewBufferOffset(e) == e.offset # buffer.offset                      \* a fault
NewBuffer(e) == Buffer(e) # buffer

\* One row: of the buffer being read, or of the first.
Row(e) ==
    /\ reading /\ Sends(e)
    /\ NewBuffer(e) => buffer = Start
    /\ sent' = e
    /\ buffer' = IF NewBuffer(e) THEN Buffer(e) ELSE buffer
    /\ pending' = pending \cup {e}
    /\ UNCHANGED <<reading, most, listed, out, session, caller>>

\* Of the next: "the previous one is complete", and may be the last.
Enough == most > 0 /\ Cardinality(out \cup pending) >= most
NextBuffer(e) ==
    /\ reading /\ Sends(e)
    /\ NewBuffer(e) /\ buffer # Start
    /\ ~Enough
    /\ sent' = e
    /\ buffer' = Buffer(e)
    /\ out' = out \cup pending
    /\ pending' = {e}
    /\ UNCHANGED <<reading, most, listed, session, caller>>
Full(e) ==
    /\ reading /\ Sends(e)
    /\ NewBuffer(e) /\ buffer # Start
    /\ Enough
    /\ Returns(out \cup pending, buffer)
    /\ UNCHANGED upTo

\* The last row was read.
RowsEnd ==
    /\ reading
    /\ \A d \in events : Before(sent, d) =>
          Buffer(d) # Buffer(sent) /\ (d.file \in deleted \/ Precedes(listed, d))
    /\ Returns(out \cup pending, IF buffer = Start THEN cursor ELSE buffer)
    /\ upTo' = listed

\* Any other error returns the cursor it was given.
ReadFails ==
    /\ reading
    /\ ReadOver(cursor)
    /\ UNCHANGED <<got, upTo>>

FileNext ==
    \/ \E n \in Sizes : WriteBuffer(n)
    \/ RollOver
    \/ \E f \in 1..MaxFiles : DeleteByHand(f)
    \/ Query \/ FileGone \/ RowsEnd \/ ReadFails
    \/ \E e \in events : Row(e) \/ NextBuffer(e) \/ Full(e)

FileSpec == FileInit /\ [][FileNext]_file

-----------------------------------------------------------------------------
(* Properties.                                                             *)

\* "Nothing is read twice": what a read is about to return comes after all that
\* was returned before, also by the reads before the files were lost, unless one
\* was deleted that is not the oldest.
ReadOnce == ~byHand => \A e \in out \cup pending, g \in got : Before(g, e)

\* "Or missed": what is behind the cursor, and what was there when a read that came
\* to its end began, was returned, or its file is gone.
NoneMissed ==
    \A e \in events :
        e.file \notin deleted /\ (~Precedes(cursor, e) \/ ~Precedes(upTo, e)) => e \in got

\* Together: an event file is read exactly, however reads, rollover and failures
\* interleave.
ReadsResume == ReadOnce /\ NoneMissed
=============================================================================
