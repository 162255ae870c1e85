---------------------------- MODULE ScriptCapture ----------------------------
(***************************************************************************)
(* WithScript, WithStatementObserver and ScriptCollector (script.go), and  *)
(* Server.InTransaction under WithScript: what calls do to the server, what*)
(* is captured or observed of them, and what the captured script does.     *)
(*                                                                         *)
(* A program is a sequence of calls.  A call goes through a server, and if *)
(* it is about a database through a handle on it, a Database whose Name it *)
(* uses:                                                                   *)
(*   "configure"   Server.exec          "alter"   Database.exec            *)
(*   "replace"     Database.execAtomic  "drop"    Server.DropDatabase, a   *)
(*   "rename"      Database.Rename                fromMaster batch         *)
(* A server is the databases it has: which of them each name is, 0 if none.*)
(* 0 is also the database a session is in when it has not been told of one:*)
(* its default, or master, and no database of the program's.               *)
(***************************************************************************)
EXTENDS Naturals, Sequences
LOCAL INSTANCE SequencesExt

CONSTANTS
    Hosts,          \* the servers
    BaseNames,      \* what a database may be called
    Handles,        \* the Database values of a program, of each server
    NoBase          \* no database: that of a server-scoped statement

\* What a handle is called, and what that is, when the program begins.
Called == CHOOSE f \in [Handles -> BaseNames] : \A g, h \in Handles : g # h => f[g] # f[h]
Fresh ==
    [bases |-> [s \in Hosts |-> [n \in BaseNames |->
                   IF \E h \in Handles : Called[h] = n
                   THEN CHOOSE h \in Handles : Called[h] = n ELSE 0]],
     effects |-> <<>>, stopped |-> FALSE]

\* An entry: Server and Database, and the SQL, which is the batch sent for the call,
\* what it says of the database it names, and whether it is in a transaction's form.
EntryOf(call, names, tx) ==
    [Server |-> call.server,
     Database |-> IF call.does \in {"alter", "replace"} THEN names[call.handle] ELSE NoBase,
     does |-> call.does,
     names |-> IF call.does \in {"drop", "rename"} THEN names[call.handle] ELSE NoBase,
     to |-> call.to,
     inTx |-> call.does = "replace" /\ tx]

fromMaster(entry) == entry.does = "drop"

-----------------------------------------------------------------------------
(* What a statement does on its server, in the database its session is in.   *)

Refuses(bases, entry, at) ==
    \/ entry.does \in {"drop", "rename"} /\ bases[entry.names] = 0
    \/ entry.does = "drop" /\ at = bases[entry.names]
    \/ entry.does = "rename" /\ bases[entry.to] # 0

Does(server, on, entry, at) ==
    LET names == server.bases[on]
        is == names[entry.names]
    IN  IF entry.does \in {"drop", "rename"} /\ Refuses(names, entry, at)
        THEN [server EXCEPT !.stopped = TRUE]
        ELSE [server EXCEPT
                !.effects = Append(@, [on |-> on, in |-> at, does |-> entry.does,
                    base |-> IF entry.does \in {"drop", "rename"} THEN is ELSE 0,
                    to |-> entry.to]),
                !.bases =
                    IF entry.does = "drop" THEN [@ EXCEPT ![on] = [names EXCEPT ![entry.names] = 0]]
                    ELSE IF entry.does = "rename"
                    THEN [@ EXCEPT ![on] = [names EXCEPT ![entry.names] = 0, ![entry.to] = is]]
                    ELSE @]

-----------------------------------------------------------------------------
(* The calls for real, up to one that fails.  names is what the handles are  *)
(* called by then; used are the calls through a handle renamed before.       *)

setIfApplied(scripting, names, call) ==
    IF scripting \/ call.does # "rename" THEN names
    ELSE [names EXCEPT ![call.server][call.handle] = call.to]

Performed(live, call, tx) ==
    LET entry == EntryOf(call, live.names[call.server], tx)
        at == IF entry.Database = NoBase THEN 0
              ELSE live.server.bases[call.server][entry.Database]
        gone == entry.Database # NoBase /\ at = 0
        server == IF gone THEN [live.server EXCEPT !.stopped = TRUE]
                  ELSE Does(live.server, call.server, entry, at)
    IN  IF live.server.stopped THEN live
        ELSE [server |-> server,
              names |-> IF server.stopped THEN live.names
                        ELSE setIfApplied(FALSE, live.names, call),
              observed |-> IF server.stopped THEN live.observed
                           ELSE Append(live.observed, entry),
              renamed |-> live.renamed
                  \/ (/\ call.does # "configure"
                      /\ live.names[call.server][call.handle] # Called[call.handle])]

LiveTo(program, tx) ==
    LET upTo[k \in 0..Len(program)] ==
            IF k = 0 THEN [server |-> Fresh, names |-> [s \in Hosts |-> Called],
                           observed |-> <<>>, renamed |-> FALSE]
            ELSE Performed(upTo[k - 1], program[k], tx)
    IN  upTo

Live(program, tx) == LiveTo(program, tx)[Len(program)]

\* The same calls under WithScript: each returns as if it had succeeded.
NamesTo(program) ==
    LET upTo[k \in 0..Len(program)] ==
            IF k = 0 THEN [s \in Hosts |-> Called]
            ELSE setIfApplied(TRUE, upTo[k - 1], program[k])
    IN  upTo

Captured(program) ==
    [k \in DOMAIN program |->
        EntryOf(program[k], NamesTo(program)[k - 1][program[k].server], FALSE)]

-----------------------------------------------------------------------------
(* String: the batches of the script.                                        *)

On(server) == [is |-> "on", what |-> server]
Use(base) == [is |-> "use", what |-> base]
Run(entry) == [is |-> "run", what |-> entry]

\* Fault: what the script is in survives the change of session.
RenderedAcross(sofar, entry, opens) ==
    [script |-> sofar.script
        \o (IF opens THEN <<On(entry.Server)>> ELSE <<>>)
        \o (IF entry.Database # NoBase /\ entry.Database # sofar.cur
            THEN <<Use(entry.Database)>>
            ELSE IF entry.Database = NoBase /\ sofar.cur # NoBase /\ ~fromMaster(entry)
            THEN <<Use(NoBase)>> ELSE <<>>)
        \o <<Run(entry)>>,
     cur |-> entry.Database]
\* One turn of the loop; Use(NoBase) is USE [master].
Rendered(sofar, entry, opens) ==
    LET cur == IF opens THEN NoBase ELSE sofar.cur
    IN  [script |-> sofar.script
            \o (IF opens THEN <<On(entry.Server)>> ELSE <<>>)
            \o (IF entry.Database # cur /\ ~(entry.Database = NoBase /\ fromMaster(entry))
                THEN <<Use(entry.Database)>> ELSE <<>>)
            \o <<Run(entry)>>,
         cur |-> entry.Database]

\* Whether the script says which server its k-th entry is for.
Opens(entries, k) ==
    /\ \E i \in DOMAIN entries : entries[i].Server # entries[1].Server
    /\ k = 1 \/ entries[k].Server # entries[k - 1].Server

StringTo(entries) ==
    LET upTo[k \in 0..Len(entries)] ==
            IF k = 0 THEN [script |-> <<>>, cur |-> NoBase]
            ELSE Rendered(upTo[k - 1], entries[k], Opens(entries, k))
    IN  upTo

String(entries) == StringTo(entries)[Len(entries)].script

\* A session on each stretch of one server, up to a batch that fails.
Play(replay, batch) ==
    LET at == replay.server.bases[replay.on][batch.what]
    IN  IF replay.server.stopped THEN replay
        ELSE CASE batch.is = "on" -> [replay EXCEPT !.on = batch.what, !.at = 0]
               [] batch.is = "use" /\ batch.what = NoBase -> [replay EXCEPT !.at = 0]
               [] batch.is = "use" /\ batch.what # NoBase ->
                    IF at = 0 THEN [replay EXCEPT !.server = [@ EXCEPT !.stopped = TRUE]]
                    ELSE [replay EXCEPT !.at = at]
               [] batch.is = "run" ->
                    LET in == IF fromMaster(batch.what) THEN 0 ELSE replay.at
                    IN  [replay EXCEPT !.at = in,
                                       !.server = Does(@, replay.on, batch.what, in)]

ReplayTo(script, on) ==
    LET upTo[k \in 0..Len(script)] ==
            IF k = 0 THEN [server |-> Fresh, on |-> on, at |-> 0]
            ELSE Play(upTo[k - 1], script[k])
    IN  upTo

Replay(script, on) == ReplayTo(script, on)[Len(script)].server

-----------------------------------------------------------------------------
(* What is asked of it.                                                      *)

\* The script of a program ("the exact SQL a set of pending edits would run") does
\* what the calls do: the same statements, on the same servers, each in the same
\* database, up to the same failure, unless a call goes through a handle the program
\* has renamed, which under WithScript has kept its name.  And what an observer
\* hears of the calls that succeeded is what was captured of them, so that added to a
\* collector it is the same script ("compare as text"), but for an atomic write in a
\* transaction.
RunsAsCalled(program) ==
    LET captured == Captured(program)
        outside == Live(program, FALSE)
        inside == Live(program, TRUE)
        heard == Len(outside.observed)
    IN  ~outside.renamed =>
        /\ Replay(String(captured), program[1].server) = outside.server
        /\ outside.observed = SubSeq(captured, 1, heard)
        /\ \A k \in 1..heard :
             inside.observed[k] = [captured[k] EXCEPT !.inTx = program[k].does = "replace"]
=============================================================================
