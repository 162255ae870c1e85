# gosmo: verification project

gosmo is a Go library that manages SQL Server over `database/sql` and the
go-mssqldb driver: one flat package whose methods read catalog views and issue
DDL and procedure calls.  Most of its 67 000 lines build one statement from one
struct.  What can go wrong over several steps is in a smaller core: which
session a statement runs on and which database that session is in, what happens
when a multi-step write fails half-way, what is retried, what is cached, which
state a disrupted database or audit is left in, and a few pure algorithms.
This project models that core: TLA+ modules, TLC configurations that check them
on small instances, and TLAPS proofs for every instance.

1. [Inventory](#1-inventory)
2. [Plan](#2-plan)
3. [The modules](#3-the-modules)
4. [The runs](#4-the-runs)
5. [Fairness](#5-fairness)
6. [What is proved](#6-what-is-proved)
7. [Findings, and limits the models show](#7-findings-and-limits-the-models-show)
8. [What is not modelled](#8-what-is-not-modelled)

## 1. Inventory

| component | source | state it keeps | operations | hard behaviour | what makes it correct |
|---|---|---|---|---|---|
| Transactions | `transaction.go` | home, current, failed, pending on one session | `InTransaction`, `serverConn`, `goHome`, `fail`, `hold` | session's database tracked over failures and lost answers; context ending at any point; panics; nested calls | writes take effect together or not at all, each in its database; the session goes back home |
| Statement chokepoints | `script.go`, `server.go`, `database.go` | none (context values) | `exec`, `execAtomic`, `query`, `queryRow`, `withConn`, `execIn`, `withSessionIn` | what runs once and what is retried; session handed back in the right database | a write takes effect at most once; no mark is left on a pooled session |
| Retry | `retry.go` | none | `IsRetryable`, `withRetry`, `AcquireConn` | an ambiguous failure of a write must not be run again | bounded attempts; a connection is given back before the next |
| Exclusive access | `server.go`, `database.go`, `database_attach.go`, `database_snapshot.go`, `restore.go`, `database_settings.go` | the database's user access | `exclusiveBatch`, `renameExclusiveBatch`, `restoreAccessMode` | batch cut short half-way; repair reconnects; access captured before it is changed | the access mode comes back; never more open than meant; no other database touched |
| Login retargeting | `connection_retarget.go`, `database.go` | the login database, fall-back flag | `Connect`, `retarget`, `leftLoginDatabase` | concurrent connects while the login database is dropped or renamed | the pool leaves a database only for cause, never comes back, refuses nobody it could let in |
| Disable windows | `audit.go`, `audit_specification.go`, `database_audit_specification.go`, `extended_events_script.go` | enabled/disabled on the server | stop, alter, start | failing after the stop; renamed inside; windows that overlap | nothing stays off that was on, nothing is turned on that was off |
| Script capture | `script.go`, `database.go` | the collector's entries, the handles' names | `exec`, `execAtomic` under `WithScript`, `observe`, `Add`, `String` | where `USE` goes, over runs of several servers and batches that start from `master`; names a scripted rename must not change | the printed script does what the live calls would; an observed run prints the same script |
| Browser lookup cache | `dialer.go` | cached replies, fan-out races | `Write`, `Read`, `evictHost` | stale port after a restart; concurrent dials; time-outs | a stale reply is not trusted after a failure it explains |
| Entra tokens | `entra.go` | credential per identity, cached token | `token`, `credential` | one sign-in prompt at a time; expiry margin | no token handed out inside the margin; one prompt |
| Agent job steps | `agent_job_step.go`, `agent_job.go`, `agent_schedule.go` | steps and their flow targets | `ReorderSteps`, `MoveStep`, ... | steps renumbered by msdb while being moved | same steps, asked-for order, references follow |
| Scripting database objects | `scripter*.go` | dependency graph, what is missing | `orderObjects`, `scriptQueue`, `buildTableScript`, `ScriptDatabase` | an order that satisfies dependencies, cycles; what to leave out with what cannot be scripted; statements that refuse those after them | each object once, after what binds it; an empty database takes the script, and ends as the one scripted |
| Restore planning | `restore_plan.go`, `backup_headers.go` | backup headers | `PlanRestore` | log-chain gaps, forks, differential bases | the plan restores, and reaches the asked-for time |
| Effective permissions | `effective_permission.go` | an impersonated session | `readImpersonated` | REVERT may not have run | the session is discarded |
| Plan capture | `executionplan.go` | a SET on the session | `StartPlanCapture`, `capturePlan` | the stop must run though the context ended | no pooled session captures, if its SETs were answered |
| Server configuration | `server_config.go` | none; an option's configured and running values on the server | `SetValue`, `Reconfigure`, `ApplyConfiguration` | advanced options are hidden until one is configured and running; a refused `RECONFIGURE` ends the batch half-way; values others left pending | the changes made are the ones asked for, the hiding is put back as it was, every refusal is heard |
| Altering tables | `table_columns.go`, `change_tracking.go` | none | `AlterColumn`, `Table.SetChangeTracking` | `ALTER COLUMN` resets what is not restated; tracking has no `ALTER` and is dropped and given back | nothing that was read is lost; what cannot be kept is refused first |
| Event file reading | `extended_events_read.go` | none; a cursor the caller keeps | `ReadFile`, `ReadFileEvents` | a cursor skips a whole buffer; files are written, rolled over and deleted between reads and during them; a cap, an error half-way | every event that can be read is returned, and returned once |
| Capabilities | `capabilities*.go`, `version/` | none | version gates | none: pure table look-ups | |
| Other catalog objects | most other files | a Go struct mirroring a row | read, create, alter, rename, drop | a struct updated only when the statement ran | |
| Utilities | `tsql/`, `quoting.go`, `gosmotest/`, `examples/`, `diagram/`, `testdata/` | none | parsing, quoting, test doubles | pure text | |

Every statement of a catalog object goes through the chokepoints, which pick a
connection from the pool, the transaction's session when the context carries
one, or the script collector.  The pool opens connections through
`retargetingConnector`, and that through the Browser cache's dialer and the
Entra token source.  `Server.Close` cancels the lifetime context every
statement's context is bound to (`bound`).  Exclusive access ends with
`leftLoginDatabase` when it took the pool's own database away.

`PROJECT.json` lists the hazards of each component at the line where they bite.

## 2. Plan

Built, in the order of what is most costly when it goes wrong:

1. `AtomicTx`, `TxSession`: transactions, as a promise and as the code keeps it.
2. `ExclusiveAccess`: databases locked for one caller and given back.
3. `LoginRetarget`: the pool's login database.
4. `PooledSession`: statements outside transactions, retry, session marks.
5. `DisableWindow`: objects switched off for a change.
6. `JobReorder`: `ReorderSteps`' statements run by a model of msdb's
   `sp_delete_jobstep` and `sp_add_jobstep`, against "each step, and each
   reference, at its asked-for number".
7. `ObjectOrder`: Kahn's algorithm with broken cycles, against "each object once,
   and after everything it needs, unless no order does that".
8. `RestorePlan`: `PlanRestore` over histories written by a model of a database
   and its log, against "the sets a restore accepts and what they bring back".
9. `BrowserCache` and `ProbeSockets`: the replies dials share while instances
   restart on new ports, and the sockets of one probe.
10. `EntraToken`: token requests of many dials, the semaphore, the margin, `Clear`.

11. `DatabaseScript`: a whole database's script, what it leaves out, and its replay
    into an empty database, over the order `ObjectOrder` gives.
12. `TableScript` and `DatabaseSettings`: the statements of one table, and of the
    database itself, each with a replay.
13. `ScriptCapture`: calls made, observed and captured, and the captured script
    run on the servers.
14. `ServerConfiguration`: `ApplyConfiguration`'s batch on a server with values
    pending, against "what the changes alone would do if nothing were hidden".
15. `TableAlter`: `AlterColumn` and `SetChangeTracking`, against "what was read and is
    not asked to change is there afterwards".
16. `EventFile`: the files of an event session, read in turns while they are written
    and deleted.

To come:

17. Compositions: a dial that looks up a port, signs in and logs in, with
    `LoginRetarget` around it (today `MCConnect` puts the parts side by side);
    `PooledSession` and `TxSession` in `withSessionIn`; `ReorderSteps` and a second
    caller who edits the job between its reading and its batch.
18. The replay of a script into a database that has some of its objects
    (`IncludeIfNotExists`), and after a statement of it failed.

## 3. The modules

Each component has a module with its state machine, an `MC...` module with the
definitions TLC's configurations use, and its proofs are in a `...Proofs` module:
`ConnectProofs` has those of `LoginRetarget`, `BrowserCache`, `ProbeSockets` and
`EntraToken`, `EventsProofs` those of `DisableWindow` and `EventFile`, `PlanProofs`
those of `RestorePlan`, `JobReorder`, `ScriptCapture` and `TableScript`,
`AlgorithmProofs` those of the other algorithms.  What is asked of an algorithm is in
`PlanProperties` and `AlgorithmProperties`, of the variable `input` that `Inputs`
declares: `MCAlgorithms` gives it values, the proofs take any.  `Selection` is the loop that skips some elements of a list, and
`Induction` what the proofs about lists and loops rest on.  A definition
commented as a fault is a plausible bug of the code; nothing of the
specification uses one.

### AtomicTx and TxSession

`AtomicTx` is what a caller of `InTransaction` may rely on: a transaction that is
open, committed or gone; a list of writes that come into force together or not at
all; an observer that hears of them afterwards, in order.

`TxSession` is one `Server.InTransaction` call and the session it runs on.
`home`, `current`, `failed` and `pending` are the fields of `serverTx`;
`session`, `xact`, `effects` and `inForce` are the truth on the server, which the
code only believes things about.  `phase` follows the function: `Begin`
(`BeginTx`), `ReadHome` (`SELECT DB_NAME()`), then `fn`, then `GoHome`, `Commit`
or `Rollback`, `Report`.  Inside `fn`, `Issue` picks a statement and a place, and
each round trip the chokepoint makes for it is an action, with another for its
failure: `SwitchSession` (`serverConn`, `Database.withConn`), `RunWrite`
(`exec`, `execAtomic`), `RunServerRead`, `RunGrant` (`ApplyPermission`),
`RunFromMaster`, `RunPlan` (`ActualPlan`), `RunDatabaseRead` (`useBatch`) and its
follow-ups `RecheckUse` and `RerunRead`.  `Join` and `LeaveJoined` are a nested
`InTransaction`.  `ContextEnds` and `DriverRollsBack` may come between any two.

### ExclusiveAccess

`Database.Drop`, `Detach`, `Rename`, `Server.Restore` and
`Database.SetUserAccess`, by several callers.  The server has a database under a
name, a bystander that may own the name a rename asks for, and a state and an
access mode for each.  An exclusive batch is run statement by statement:
`Capture` (`captureAccessMode`), `TakeSingleUser`, `TakeRefused` or `TakeNothing`,
`Run`, `Release` (`releaseAccessMode`), `Answer`.  `CutShort` may end it before
any of them (`batchCutShort`), and `Repair` is `restoreAccessMode`,
`restoreAccessModeAfterRename` or `releaseAfterRestore`, with the mode
`ReadMode` (`accessModeBefore`) found.  `AlterTakes`, `AlterContended` and `Wait`
are `SetUserAccess`'s loop.  `meant`, the modes somebody deliberately gave a
database, is the property's own record.

### LoginRetarget

The connector under a pool.  `target` is `opts.Database` and `fallBack` the
connector's flag, both under its mutex; a `Connect` is `Snapshot`, `Dial`, then
`FallsBack` (`retarget`), `Current`, `Redial`, and each of these interleaves with
everything else.  `Open` and `enableFallBack` are the opening of a `Server`.  A
goroutine that runs a write takes a database away or renames it (`RunWrite`),
then compares and retargets in `leftLoginDatabase` and `LeavesIt`; `Count` and
`Release` are `releaseIdle`, before the write and after.  `Other` is another
session opening or closing a database.  `swapped` keeps the one thing `retarget`
compares connectors for.

### PooledSession

A call outside a transaction, on a connection of a bounded pool: `Acquire` and
`NotAcquired` (`db.Conn`, whose checkout resets the session), `Run`, `Recheck`
(`recheckEntry`) and `ReadRows` for a read or an impersonated read; `Prologue`,
`Capture`, `Batch`, `Stop` for a plan; `Prologue`, `Load` for `BulkInsert`;
`SwitchBack` and `LetGo` for the hand-over, `Again` and `Wait` for `withRetry`.
`session` is the server's side of each connection: its database and the marks
(capturing, impersonated, loading, broken) that must not outlive the call.  The mark
`leftOn` is a capture nobody will switch off: its `SET ... ON` took effect although the
context ended first (`Capture`), or its `SET ... OFF` timed out (`Stop`), and the
connection was kept.  `applied` counts how often the call's statement took effect.

### DisableWindow

One audit, audit specification or event session, addressed by name by several
callers.  `Read`, `SwitchOff`, the writes of the window (`Alter`, `Rename`,
`WriteFails`), `SwitchOn` (`restoreWindow`) are `withAuditDisabled` and its
siblings; `todo` holds what a caller's `WithDisabled` function will do.  `window`
is the name kept in the context, which a nested `Rename` rewrites.  `DropRead`,
`DropSwitchOff`, `Drop` restore nothing; `Set` is a switch by hand.  `found` is
whether the object is to be on, and `stray` names what has happened that no
window makes good.

### EventFile

A caller that polls an event session's files with `ReadFile`, and the session.  Buffers
are written whole (`WriteBuffer`), `RollOver` starts a file and deletes the oldest,
`DeleteByHand` any.  A read is `Query`, then for each row the server sends (`Sends`)
`Row`, `NextBuffer` (the one before it is complete) or `Full` (and as much as was asked
for), and ends in `RowsEnd`, `ReadFails` or `FileGone` (`ErrEventFileGone`), after which
the caller starts again from the zero cursor, as the error's comment asks; `buffer`,
`out` and `pending` are the function's variables.  An event is its file, the offset of
its buffer and its place there; the offsets of every file are the same.  `got` is all
the caller was returned, `upTo` what was there when the last read that came to its end
began.  `MCEvents` puts this module beside `DisableWindow`.

### The algorithms: ObjectOrder to TableAlter

Algorithms whose result is a function of what they read.  `MCAlgorithms` (with
`MCScripts`, for the databases and tables) enumerates what they read as initial
states, and evaluates what is asked of each result there.

`orderObjects` is a sequence of `Turn`s over what `Begun` makes of the references;
an object is its place in `orderNode.less`, so the heap is `Least`.
`Ordered` and `GivesUpOnlyInNeed` compare with all orders there are (`Orderable`).

`DatabaseScript` is `ScriptDatabaseObjectList`.  A database is its objects, each of
a kind, what names what, and what cannot be scripted.  `Named` sorts an object's
references into `needs` and `late` as the code does, `Queue` puts the constraints
and triggers behind the ordered objects, `Scripted` is one turn of `scriptQueue`
with its cascade, and `Permissions` the grants that `LeftOut` lets through.
`ReplayBatches` runs the script on an empty database, which resolves what a table,
a view or an inline function names when it is created (`Unresolved`), through a
synonym too.  `RefusesOnlyOverlooked` and `LeavesOutOnlyInNeed` are what is asked of
the two together, the second against `Unmakeable`, the objects no script could make.
The first names what else is refused: permissions on the histories of tables that were
left out (`Stranded`), and constraints on tables the script has taken offline.

`TableScript` is `buildTableScript`: `Inline`, `IndexesCreated`, `Add` (foreign keys
and checks, with their trust), `Disabled`, under the options' verb, guards and
deferred keys.  The server's side is the table's indexes and constraints: a disabled
clustered index takes the rest offline (`TakesDown`), a guard skips a statement
(`Skips`), a table others refer to is not dropped (`Allows`).  `Executed` runs a script
of any length, statement by statement.

`DatabaseSettings` is `ScriptDatabase` after the reads: one item for each group of
settings that is written on the same condition, in the order they are written, with
the two `USE`s.  The instance refuses what a read-only or a taken `SINGLE_USER`
database refuses, and sets an inside item on whatever database the session is in.
`Replay` runs a script of any length, statement by statement (`Executes`).

`ScriptCapture` runs a program of calls three times: live, live with an observer
inside a transaction, and under `WithScript`; then renders the capture (`String`) and
plays it on the servers.  A handle is a `Database` value, whose `Name` only
`setIfApplied` changes.  Effects are compared by which database they were in, not by
its name.  Once a call has gone through a handle that was renamed before, whether it
succeeds or not, nothing is asked of the script (`renamed`).  `Capturing` gives its
constants values and instantiates it beside modules with names of their own.

`ReorderSteps` is the list of statements the code builds (`Moves`, `Repairs`,
`StartMoved`) handed to `Execute`, which runs them on a job as msdb's procedures do:
`Delete` and `Insert` renumber, `Delete` ends the flow of a step that named the
deleted one, `GoesToItself` refuses.  What msdb does is taken from the comments of
`MoveStep` and `ReorderSteps`, which quote its procedures.  A step is the number it
was read with; everything else `reAddRequest` carries along is abstracted into it.

`RestorePlan` is a state machine: the database is written to (`Work`), backed up
(`Full`, `Diff`, `Log`), and put into and out of the simple recovery model
(`SetRecovery`), while time passes (`Tick`).  Any backup may be one no RESTORE can
name.  In every state, `PlanRestore` plans from the `history` so far, for every
`StopAt`, with a tail and without.  `Accepted`, `Restored` and `Recovered` are the
server's rules: what follows what, which log records come back, and whether the
`STOPAT` was reached or the database is left RESTORING.  A plan that leaves it so must
reach it with whatever log continues it, the tail of now (`TailNow`) included.

`ServerConfiguration` is the batch of `buildApplyConfiguration` run by a server: a
function from the options' values, configured and running, to those afterwards, with
whether an error was raised (`refused`) and whether one ended the batch (`over`).
`Enable` is step 1, the fold of `SetValue` over `Ordered` step 2, `Install` steps 3
and 4, and `TryReconfigure` the `TRY`/`CATCH` around a `RECONFIGURE`.  `Plainly` is the
reference: the same changes on a server that hides nothing.

`TableAlter` has a column as it was read and as it is when the statements come
(`AlterColumn`), which another session may have altered in between; `Alter` and
`AddMasked` are the server's, which resets what is not restated.  `SetChangeTracking`
is the two guarded statements, in one transaction, on a table that knows since when it
has been tracked.

### BrowserCache and ProbeSockets

`BrowserCache` is `browserReplies` for one host and the goroutines that open
connections through `evictingConnector`.  A dial is `AskCache` or `AskBrowser`
(`browserProbeConn.Write`), `ReadReply` (`Read`, which puts), then `Connected`, or
`NotConnected` and `Evict`.  `Answer` is Browser's: the reply is as old as that.
`Restart` moves an instance to another port, and `Passes` runs down the entry's
time.  `missed` and `early` are the properties' records of a dial's misses and of
whose answers an instance's last restart overtook.

`ProbeSockets` is `fanOutConn`: a `readLoop` per socket (`Takes`, `PassesOn`,
`SocketFails`, `Reports`), its two buffered channels, and a prober that may `Read`
(`GetsReply`, `GetsError`, `AllFailed`) any number of times and then `Close`.

### EntraToken

`EntraCache` for one identity: `Asks` and `AsksServer` (`Warm`), `Credential`
(`credential`), `Enters`, `GivesUp`, `Looks`, `SignedIn`, `NotSignedIn`
(`entraCredential.token`) and `Clear`.  A token is the ticks it has left and those
until it should be renewed; `hand` follows a token through the login it is used for.

`MCConnect` instantiates these three and `LoginRetarget` side by side: the parts of
opening a connection, none of which reads another's state.

## 4. The runs

| run | instance | states | what it shows |
|---|---|---|---|
| `transactions` | two databases, the login database either; three statements of every form, one nested call | 263 000 | `RunsInItsDatabase`, `KnownDatabase`, `HandedBackHome`: wherever round trips fail, statements run where they say and the session goes home; `NoHalfWrite`, `ObserverMatchesOutcome`, the refinement `AtomicSpec`, and `Ends` |
| `tx_from_master` | an ordinary write and a refused `fromMaster` batch | | finding 1 |
| `exclusive` | one caller with every operation, or two that drop, detach and rename at once; every state and access mode, managed or not; five attempts | 537 000 | `AccessKept` (of the database, and of the one that owns the name a rename asks for) for one caller, `NeverOpened` for two, `Ends` |
| `exclusive_unread` | one forced drop | | finding 2 |
| `retarget` | a writer and a reader, two names besides `master`, both of which can be renamed to the other, other sessions, builds that fail, two connections | 381 000 | `StartsWhereAsked`, `MovesForCause` |
| `connect` | `LoginRetarget` with one name and no renames; two dials, two instances on three ports, one restart, a TTL of one tick; two sockets and two datagrams each; two token requests (one may warm), two credentials, tokens of up to two ticks and a margin of one | 138 000 | `NeverRefused`, `Ends`; `MissesBounded`, `StaleDiesOut`; `NeverParks`, `FailsOnlySilent`, `ReadEnds`; `SignsInOnce`, `NeverLapses`, `ClearForgets`, `OverEnds` |
| `retarget_rename` | one rename and a reader | | finding 3 |
| `pooled` | two goroutines, one with every kind of call, the other with writes and loads, a pool of one connection | 216 000 | `AtMostOnce`, `IdleClean`, `Ends` |
| `window` | two callers, two names, three kinds of object, windows of up to two writes; three files of two buffers, each of no events or two, two files kept, reads of everything or of one event at least | 1 076 000 | `NeverTurnedOn`, `NeverLeftOff`, `NeverSilentlyOff`; `ReadsResume` |
| `window_unheard` | one caller, one write | | finding 4 |
| `algorithms` | four objects, with any references among three of them or any unbound ones (and one bound) among all; databases of three objects of any kinds with any references, one hidden, and with histories and disabled indexes; tables of up to three indexes of any kind, one key and one check; programs of up to four calls on two servers and three names; every mix of a database's settings; jobs of up to three steps with any flow and of four with any flow on failure, every order and every move; lives of two log records, four backups (one copy-only or unusable) and three points in time; two changes of three options on any server, three on a fresh one; any column read, what another session makes of it, and any definition; any tracking | 778 000 | `ObjectsOrdered`, `ScriptAccepted`, `ScriptComplete`, `TableRebuilt`, `ScriptRunsAsCalled`, `SettingsRecreated`, `StepsReordered`, `PlanRestores` (plans reach what they are asked for, with the next log at the latest, and are refused only in need), `ConfigurationApplied`, `TableAltered` |
| `script_refused` | three functions that name each other, none schema-bound | | finding 5 |

Why the bounds are enough:

- *Transactions.*  What the client knows is one of: the right database, a wrong
  one, nothing; and a statement's effect on it depends on its form and on whether
  it names the database the session is in.  Three statements in two databases give
  each form a predecessor that leaves the session anywhere and a successor that
  relies on it.  A write in two parts has a half.  One level of nesting is enough
  because a joined call keeps no state of its own.
- *Exclusive access.*  A caller's whole course is in the model; a second caller is
  enough for every pair of interleavings of capture and restore, and `NeverOpened`
  is proved for any number.
- *Retargeting.*  Two names can swap meanings, so a stale name can come back to
  life; a reader and a writer are the two sides of each race on the mutex.  Two
  connections let one be idle while another is dialled.
- *Pool.*  One connection makes every hand-over a contended one, so a call that
  held two would stop.  All three of `withRetry`'s attempts happen.
- *Opening a connection.*  One restart and two dials give an answer that is
  overtaken, put after the eviction and used by the other dial; two datagrams on each
  of two sockets overfill the channel of replies.  A life of two ticks and a margin of
  one make a token good, good only by its expiry, and expired; two credentials are
  one of before and one of after a `Clear`.  Ports are told apart by nothing, so they
  start from one assignment.
- *Windows.*  Two writes let a window's rename be followed by a use of the name,
  and two callers overlap windows in every order.
- *Event files.*  A third file deletes the first, so a cursor can lose its file while
  there is one to go on in; two buffers tell apart the same offset in two files, and
  two events a buffer that is half read.  The cap is reached at the first buffer that
  has events.
- *Algorithms.*  Three objects make every cycle that has something waiting for it
  once a fourth is there; a step of four can be moved past one that names it and
  one it names.  A full backup, a log no RESTORE can name, a differential over the
  gap and a log after it are four backups; a `StopAt` can be before, at and after
  one's finish.  Three objects are one that cannot be scripted, one that needs it and
  one that only names it or needs the second; a synonym with what selects through it
  and its base; a cycle and what waits for it.  Three indexes are a clustered key and
  an XML index with one over it.  Four calls leave a database, use another and a server
  of its own, and come back.  An option that hides, one that is hidden and one that waits
  for a restart are all the kinds there are, and four values are two that differ, one
  that is not recommended and one that is out of range; two changes are one of each of
  two options, or two of one.

Symmetry is used for connections (`retarget`) and callers (`window`), in runs of
safety properties only; nothing in either module tells two of them apart.

No type invariant is among the runs' properties: each is proved for every instance
(section 6).  The algorithms have no state but their input.

`CHECK_DEADLOCK FALSE` is in one configuration, where a finding's bounds let
the system come to rest.  Elsewhere a state that ends is an action of its own
(`Returned`, `Finished`), so anything else that stops is reported.

## 5. Fairness

- `TxSession`: weak fairness of `Statement` (a statement sent is answered or
  fails, for its context is bound to the server's life), of `FnReturnsNil \/
  FnFails` (the caller's function returns), and of `Call` (`InTransaction` goes on).
  Nothing makes `fn` issue a statement, or the context end.
- `ExclusiveAccess`: weak fairness of each client's steps once it has started.
  `SetUserAccess` ends because its attempts are counted, not because contention
  does.
- `LoginRetarget`: weak fairness of each goroutine's steps in a call.  Nothing
  obliges it to begin one, and other sessions may never act.
- `PooledSession`: weak fairness of a call's steps, and strong fairness of
  `Acquire`: `database/sql` serves those who wait for a connection in the order
  they came, so one that is free again and again is in the end this caller's.
- `BrowserCache`: weak fairness of the clock and of each dial's own steps, which its
  context bounds.  Browser need not answer, nor an instance restart.
- `ProbeSockets`: weak fairness of a `Read` that can go on, of each reader with
  something to send or a socket that is closed or past its deadline, and of the
  deadline while a `Read` waits (go-mssqldb sets one before it writes).
- `EntraToken`: weak fairness of what a request does itself and of `GetToken`
  returning once its context is over.  Nothing makes a user sign in.
- `DisableWindow` and `EventFile` claim safety only.

## 6. What is proved

The theorems hold for every value of the constants that satisfies the module's
assumption (`TxAssumption`, `ExclusiveAssumption`, `RetargetAssumption`,
`PooledAssumption`, `WindowAssumption`, `BrowserAssumption`, `ProbeAssumption`,
`EntraAssumption`, `FileAssumption`, `RestoreAssumption`), which TLC evaluates in every run.

- **TxSessionProofs.**  `TypeCorrect` and `CommitsNoHalfWrite` come from `Base`:
  an unfinished write among the uncommitted ones is on record in `failed`, and with
  `failed` set nothing goes towards COMMIT (`HalfDoneRecorded`).  They need no
  restriction on what `fn` does.  `StatementsRunInTheirDatabase`,
  `CurrentIsTheSessionsDatabase` and `ConnectionHandedBackHome` hold until `fn` has
  issued a batch whose `USE` `serverTx` is not told of (`untracked`: a `fromMaster`
  batch, or a plan of a batch with a `USE` of its own); finding 1 is why the
  condition is there.  Their invariant is `Tracked`: until then (`Followed`) the
  belief is right while `fn` runs, right about home afterwards, and nobody believes
  anything while a failed read is looked into.
  `ObserverHearsTheOutcome` and the refinement `CallIsAtomic` come from `Outcome`:
  what is pending is always what an observer of the whole writes so far would be told
  (`Unheard`), and, when it is told, a first part of that (`Reported`); the effects of
  a transaction that is over are gone or in force (`Lived`).  Each step of `TxSession`
  is then, to an onlooker of the two lists, one of four: nothing, a loss, a write, or a
  write that failed with some or all of it done (`Stays`, `Lost`, `Wrote`,
  `FailedWriting`), and each of those is a step of `AtomicTx` or none.  `ObserverMatchesOutcome` alone is not inductive, for it speaks of the end only.
- **ExclusiveAccessProofs.**  `ExclusiveTypeCorrect` with `TriesLeft`, the bound on
  `SetUserAccess`'s attempts, and `NeverOpenedByForce` for any number of callers.
  `NeverOpened` is not inductive: a caller might release to a mode it captured long
  ago.  `Harmless` adds that every mode captured, or read before, is one the database
  was meant to have or `SINGLE_USER`, and that a batch releases only what it closed
  itself, after it had captured a mode.
  `AloneKeepsAccess` follows one caller while the others may run nothing: `Course` says
  where the database is (`Placed`), that nothing is changed until `SINGLE_USER` is taken
  (`Untouched`), that the batch releases what it closed (`Releasing`), and, since it may
  be cut short at any statement, that what the repair would go by is at each of them a
  mode the database was meant to have (`Repairable`).
- **ConnectProofs**, of `LoginRetarget`.  `RetargetTypeCorrect` with `Placed` (who holds a
  connection, who writes, and that no dial of `master` falls back).
  `PoolStartsWhereAsked` needs `Connecting`: until `Connect` has returned, one goroutine
  uses the pool, where it was asked to, and nothing it meets moves it.
  `PoolMovesForCause` needs `Caused`: from then on the pool logs in to a database that
  was open at some time (`Known`), and a refused dial's database was shut at some time,
  whoever has renamed it since.  `OneDatabaseNeverRefuses`, for any number of goroutines when
  there are no renames and a connector can always be built, needs `OneWay`: every
  snapshot is of the asked-for database or of `master`, and one that is out of date
  knows it, because the connector has been swapped since.
- **PooledSessionProofs.**  `PooledTypeCorrect`, and `PooledSessionsClean` from
  `Owned` (no connection has two holders, or is held and idle) and `Tidy` (at each
  label of a call, which database and which marks its session may have, unless it
  is broken).  A session that may be pooled (`Poolable`) is clean, or has nothing but a
  capture left on (`LeftOn`).  `WritesAtMostOnce` counts (`Tally`): by label and error, how often
  each call's statement may have taken effect; only a read that failed comes to its
  second attempt with something sent.
- **EventsProofs**, of `DisableWindow`.  `WindowTypeCorrect`, `WindowsNeverTurnOn`,
  `WindowsNeverLeaveOff`, `WindowsNeverSilent`, for any number of callers, names
  and writes.  If the object is off and was to be on, and nothing excused has
  happened, some caller is yet to switch it on, under the name it has unless
  somebody else renamed it (`Kept`); what is to be switched on was to be on
  (`Justified`); while every call has returned nil, an object owed a switch has a
  caller that owes it, excused or not (`Silence`); a window is restored under the
  name its caller has in hand (`Opened`).
- **EventsProofs**, of `EventFile`.  `FileTypeCorrect`, and `EveryEventOnce` for any number of files,
  buffers, events and maxima.  `Written` says that nothing is ahead of the session, and
  `Stands` that what a read holds is after the cursor and up to the last row sent.
  Nothing is read twice because of `Once`: while files are deleted in order, what was
  returned is behind the cursor, or, when the caller has started again, in files that
  are all gone.  Nothing is missed because of `Seen`: during a read, what is still there
  up to the last row is with the caller or in the read's hands; and a cursor is taken
  only where no event of its buffer is left.
- **ConnectProofs**, of the dialers.  Of `BrowserCache`, `BrowserTypeCorrect`, and `MissesAreFew` for any number of
  goroutines.  The bound is not inductive: `Paid` adds to what a goroutine has missed
  the miss it is in for (`Due`) and the outdated answers still on their way to others
  (`Coming`), each of which may put the old port back once.  `InHand` says when a
  goroutine has a reply.  Of `ProbeSockets`, `ProbeTypeCorrect`, `ReadersNeverPark` and
  `ReadFailsOnlySilent` from `Counted` (errors sent and counted are as many as the
  readers that are gone) and `Accounted` (a datagram taken off a socket is held or in
  the channel until one is returned).
- **ConnectProofs**, of `EntraToken`.  `EntraTypeCorrect`; `OneSignsIn` from `Holding` (who looks or
  signs in has the semaphore) and `Stale` (no token gets better by waiting);
  `TokensNeverLapse` from `Margin` (the life left and the time a login has taken
  exceed the margin); `ClearIsForGood` from `Younger` (the cached credential was made
  after the last `Clear`).

- **PlanProofs.**  `EveryPlanRestores`: `PlanRestores`, for lives of any length.  It is not
  inductive, and no part of it is: a plan speaks of the whole history.  `Recorded` says what
  every backup is (`EntryOf`): it has exactly the log there was when it finished, the later
  ends no earlier, a log backup ends beyond all before it, and a differential is of the
  newest full backup before it that may be a base.  From there nothing more is said of
  steps.  `ChainEnds`: as many turns as there are logs bring the chain to a log that holds
  `StopAt` or to where no log goes on, for each turn leaves fewer logs ahead.
  `PlacedFurthest`: what the plan starts from ends no earlier than what any accepted
  sequence from the same, or an older, full backup starts from.  `Covers`: of an accepted
  sequence that gets beyond some place, a log holds that place.  So where the chain has
  ended, no sequence goes on (`RefusalsDeserved`); and since the record fixes which log
  records a backup has, what the plan brings back is what was written by `StopAt`
  (`PlansReach`).  It recovers the database if one of them is later than `StopAt`; if not,
  the log or tail that continues it goes on from a log that finished after `StopAt`, so
  that all its records are later (`NextRecovers`).  That only the newest full backup is tried is why the condition
  `~copyOnly` of `RefusedOnlyInNeed` is there: the proof of `PlacedFurthest` breaks without it.
  `ReorderSteps` (`JobReordered`, `StepMoved`), for a job of any number of steps: a flow
  goes to another step of the job or carries no number, the start step is any number, and
  the order any list of numbers.  `Moved` is what holds after the moves to the first k
  places: those are as wanted, the statements so far bring the job to the order the code
  keeps in `current` (`StandsIn`), and only a flow that goes to a step has been touched
  (`Carries`), because msdb renumbers no other.  That is all the repairs need: they name
  every step that has such a flow (`RepairsDo`), and the number each is given is never its
  own (`RepairIs`), as the two were different steps before.
  `ScriptCollector.String` (`ScriptRuns`), for a program of any number of calls, servers,
  databases and handles.  After every call the script so far has done to the servers what
  the calls have, and its session is on the server of the last entry and in the database
  the loop has in `cur` (`Abreast`).  That last part is what makes the next batch run where
  its call did: an identity, not a name, is what the session is in, and it stays right
  because only a drop or a rename changes what a name is, and after either the loop takes
  the session to be in none.  That a `USE` left out would have succeeded (`Ready`: the
  session is in a database that is there) is needed where two calls in a row are about one
  database.  What is observed is the capture by `Heard`, and a transaction changes the form
  of an entry and nothing that it does (`PerformedAlike`).
  `buildTableScript` (`TableBuilt`), for a table of any number of indexes, foreign keys and
  check constraints.  `TableAsRead` says what the catalog can say of one: an XML index has a
  primary one, and what a disabled index takes down with it is disabled too; nothing else is
  assumed, not even that one index at most is clustered.  Two arguments cover the script.
  Where a table is built (`BuiltFrom`), each part takes it from one known state to the next:
  the indexes of a list that it lacks, with what each needs (`IndexesDone`, `Missing`), the
  constraints of a kind it has none of (`ConstraintsDone`), and last the disabled indexes,
  which together take down the disabled ones and no other (`DisablesDone`, `TakenDown`);
  that the order is what makes it work shows in `IndexDone` and `AddDone`, whose table has no
  index disabled.  Where a table is left in place, every statement there can be leaves it as
  it is (`StayingAll`), so every script does (`StayingRun`), except for the versioning that
  is turned off first (`KeptUnversioned`).  `ExecutedJoined` puts parts together, and
  `EachExecuted` and `AddsExecuted` are the loops that write them.
- **AlgorithmProofs.**  `EveryTableAltered`, `EveryObjectOrdered`, `EveryBatchApplied`,
  `EveryDatabaseAccepted`, `EveryDatabaseComplete` and `EveryDatabaseRecreated`, and in
  `PlanProofs` `EveryStepReordered`, `EveryScriptRuns` and `EveryTableRebuilt`, state what a
  run checks of the inputs it enumerates for every input of the kind: their hypotheses say
  only what an input is, and the runs' inputs satisfy them.
  - `orderObjects`, for any finite set of objects and any references.  `ScanKept` is what a
    turn preserves: what is unmet is what neither a broken cycle nor an object written out
    has met, and what is written out has all it waited for behind it, but for the broken.
    `ScanOf` adds how far the scan is.  When nothing is queued, what is left refers to
    itself (`Blocks`), and a set of objects each of which needs another of the set has no
    order: its first would need one before it (`NoOrder`).  Hence a reference is broken
    only if no order meets all of them, and the scan gives up only if none meets the
    schema-bound ones.
  - `ScriptDatabaseObjectList`, for any finite number of objects of any kinds, with any
    references, constraints, triggers and permissions.  `DatabaseAsListed` says what a
    catalog can list: that a table dropped since it was listed cannot be scripted, that a
    history table is listed with its table only and nothing but permissions hang on it, and
    that the schema-bound references have an order.  `InOrderAre` is what `orderObjects`
    gives, `QueueIs` what is made of it, and both proofs are inductions over the turns of
    the queue.
    `DatabaseAccepted` needs that each object tried so far was left out, is there, or was
    refused (`Tried`), and that whatever was refused has an excuse (`Accepted`): what the
    server resolves as it creates an object is among what the script needs
    (`UnresolvedNeeded`), so it came before, unless the reference is one the order overlooks
    (`CreationExcused`); and constraints, triggers and permissions come when every object
    has been tried (`RestExcused`), so that one is refused for want of what was refused,
    or it is one of the two exceptions: a permission on a history whose table was left
    out, a constraint on a table that was taken offline.
    `DatabaseComplete` is about a replay that refuses nothing, of an order that breaks no
    cycle.  `LeftSoFar` says what the script so far leaves out and warns of, and `MadeSoFar`
    that the database is all the rest.  A later turn does not change what an earlier one
    decided, because an object names none that comes after it (`NamesEarlier`); and that is
    also why the notes, made in one pass, are all there is to leave out (`NotedUnmakeable`:
    as many rounds as there are objects reach nothing more).
  - `ApplyConfiguration`, for any list of changes of any length, on any server.  Two
    servers that differ in "show advanced options" alone stay so under the same changes
    and refuse the same ones, if both or neither run with it on or no advanced option is
    named (`SetAllAlike`); taking the changes of "show advanced options" out
    changes nothing else (`OthersAlike`).  The rest is one lemma for each step of the batch.
  - `ScriptDatabase` (`DatabaseRecreated`), for any values of a database's items, any of them
    hidden that may be, and an instance in any state that has no database of the name, or one
    to be dropped.  `DatabaseAsRead` says that a database is encrypted with a key, and that
    what is written without a condition was read.  Every part of the script `Brings` the new
    database from one stage to the next: a stage is which items are as they can be said, the
    rest being as in a new database, and which database the session is in, with nothing taken
    by another session and nothing more refused.  A part needs that the stage before it is
    not read-only, that the session is inside for what is set inside, and that the key is
    there for the encryption; `OthersBring` puts the parts in the script's order.  The last
    two statements (`LastDoes`) are no stage: between them another session may take the
    database, and then `READ_ONLY`, and nothing else, is refused.
  - `AlterColumn` and `SetChangeTracking`, for any names, case by case.
- **Induction.**  The library states induction with an operator as a parameter, which none
  of the provers instantiates.  `NaturalInduction` and `SequenceInduction` state it of the
  set of the numbers, or sequences, that have the property, so that a proof defines the set
  and cites the lemma.  A recursive function is shown to exist the same way
  (`OnlyToExists`, `ScansExist`, `SetToExists`, `ChainsExist`, `RunToExists`,
  `MovesToExists`, `ReplayToExists`, ...) before its equation may be used.  `ListsAll` and
  `ListsEach`: a list of distinct members of a finite set, as long as the set is large,
  lists every one.

Model-checked only: every liveness property, which is about fairness and ENABLED.  Every
safety property that a passing run checks is a theorem; the five that a run finds violated
are false.

## 7. Findings, and limits the models show

Each of the five findings is a run whose counterexample is the sequence
described in `PROJECT.json`.

1. `tx_from_master`: a `fromMaster` batch refused inside a transaction leaves the
   session in `master` and `serverTx.current` naming home (`script.go:361`).
2. `exclusive_unread`: a forced drop whose context had already ended opens a
   `RESTRICTED_USER` database (`database.go:862`).
3. `retarget_rename`: a dial refused between a rename and its
   `leftLoginDatabase` sends the pool to `master`, not to the new name
   (`connection_retarget.go:92`).
4. `window_unheard`: an audit whose `Disable` took effect unheard stays off
   (`audit.go:411`).
5. `script_refused`: an inline function and a scalar function that name each other
   are a cycle that has an order, the scalar one first; it is broken at the one with
   the lower name, and if that is the inline one its `CREATE` is refused
   (`scripter_database_objects_order.go:119`).

Three more disagreements with a comment are in the models, where a property names
them as an exception and holds of everything else:

- "An error enabling the capture means nothing was switched on" (`executionplan.go:93`):
  `SET ... ON` may take effect and its context end before the answer; `ExecContext`
  returns an error, go-mssqldb keeps the connection, and no `stop` is returned
  (`executionplan.go:96`).  The session goes back to the pool capturing; so does one
  whose `SET ... OFF` times out.  Under SHOWPLAN_XML the switch back is planned and not
  run, so it is pooled in the database of the call too, although "a session left in d
  must not reach the pool either way" (`withSessionIn`).  The reset of the next checkout
  restores both, which is why no call suffers from it (`IdleClean`).
- "A GRANT on an object that was left out" is to be a comment
  (`scripter_database_objects.go:145`, `:479`): the history of a versioned table counts
  as created by its table (`createdByParent`, `:594`) even when the table itself is left
  out, so the `GRANT` is written and refused, Msg 15151 (`RefusesOnlyOverlooked`).
- "Disabled indexes are disabled last", for the sake of every `ADD CONSTRAINT`
  (`scripter_table.go:761`): the foreign keys and edge constraints a database's script
  defers come after, and are refused on a table that is offline by then
  (`RefusesOnlyOverlooked`).

Limits that are not disagreements with a doc, and that the properties name as
conditions:

- A `StopAt` after the last record of a plan's last log, but before that log finished,
  leaves the database RESTORING, as the code's comment says (`restore_plan.go:273`):
  the next log or the tail recovers it, at `StopAt` (`ReachesStop`).
- A write inside a transaction may take effect whole and its answer be lost to the end
  of its own context: `fn` is given an error and may tolerate it.  If it is not an
  atomic write, COMMIT puts it in force, and the observer does not hear of it, for it
  hears of no statement that failed (`ObserverMatchesOutcome`).

- From a copy-only full backup no differential leads over a gap in the logs, so a
  plan from it may be refused where an older full backup with a differential would
  have served (`RefusedOnlyInNeed`).  A copy-only log could close a gap; the code
  leaves it out, as it says.
- A tail-log backup is counted on although it may have nothing to follow, when the
  newest log backup is not in the history with a device (taken on another replica,
  say), or the chain was broken and no log backup has been taken since
  (`PlanRestores`).
- A file deleted by hand that is not the oldest takes the cursor with it but not what
  was read before, and the caller that starts again reads that twice: `ReadOnce` is about
  sessions whose files go in order (`byHand`).
- A plan captured in a transaction may end in another database, which
  `serverTx.current` does not hear of: `untracked`, like a `fromMaster` batch.
- Two forced operations that overlap may leave the database `SINGLE_USER`, and a
  repair may be of a database that has the name by then: `AccessKept` is about one caller
  (`Alone`).
- A release or repair that is itself refused is best effort (`unreleased`).
- A dial refused before `leftLoginDatabase` has compared leaves the idle sessions
  of the old database in the pool.
- A name that is refused, given back and refused again is one name to `retarget`:
  a refusal of its first life may be acted on in its second.
- `evictingConnector`'s comment has the retry learn the new port; an answer that was
  on its way when the instance restarted may be put back after the eviction, and the
  retry then misses again, once for each other goroutine with such an answer
  (`MissesBounded`).  A port another instance has taken meanwhile lets the dial into
  that instance, which evicts nothing.
- An `askServer` under way when `Clear` comes puts its answer back afterwards; only
  credentials and tokens are what `ClearForgets` is about.
- A database's script (`Overlooked`): a view or an inline function that selects from
  a history table is not ordered after the table that creates it, and is not left out
  with it; nor is what selects through a synonym whose base is left out, because the
  synonym still is scripted.  So is what waits for a cycle when the cycle is broken at
  it: it is written before what it needs, and the warning says a cycle was broken
  there, which no cycle contains; a warning that a reference is not scripted is lost
  with it.
- A script of a temporal table that foreign keys of other tables refer to ends with
  versioning off, as its comment says (`Rebuilds`).
- `SINGLE_USER` comes before the last `SET READ_ONLY` or `READ_WRITE`, so that another
  session may still lock the script out of that one (`Recreated`).
- Under `WithScript` a rename is not mirrored, so that what follows through the same
  handle is captured under the old name, which the server no longer knows when the
  script runs; two renames that swap names make it write to the other database.
  `RunsAsCalled` is about programs without that.  Inside `InTransaction` an atomic
  write is observed in its transaction form, and does not compare as text with the
  captured one.
- `ApplyConfiguration` restores nothing after a change of "show advanced options", as
  it says; if that change is itself out of range, and an advanced option is changed
  with it, the option step 1 turned on stays on (`KeepsShown`).
- A collation, `SPARSE` or a mask that another session gives a column between
  `AlterColumn`'s read and its statements is taken away again (`Kept`).
- In a window: a panic in the caller's function leaves the object off (the
  switch on is not deferred); a switch by hand inside somebody else's window is
  undone by its end; a rename by somebody else makes the restore address a name
  that is gone; a drop that fails after its switch off leaves it off.  Each but
  the panic returns an error, and `NeverSilentlyOff` holds through all of them.

## 8. What is not modelled

The parts listed `not_modelled` in `PROJECT.json` have their reason there: most
are one statement built from one struct, with no state between calls.  In the
modules themselves:

- *Transactions.*  A statement's text and result; scripting inside a transaction;
  the isolation level.
- *Exclusive access.*  A batch that was cut short has stopped on the server before
  the repair runs.  `EMERGENCY` behaves as `ONLINE`.  A restore replaces an
  existing database.  Names are compared as the server compares them.
- *Retargeting.*  A reset of a pooled session fails only when its login database
  cannot be opened.  A failed `SET` in `Write` is a broken connection.
- *Pool.*  `database/sql`'s own retry on `ErrBadConn`, which precedes anything
  being sent.  A refused impersonation is refused at `EXECUTE AS`.
  `AcquireConn` and `StartPlanCapture` on a connection the caller keeps.
- *Browser replies.*  Keys (one host, one request); `fanOutConn.Write`, which tries
  every socket; a deadline moved while a `Read` waits.
- *Tokens.*  Which credential a configuration asks for, scopes (one is enough for one
  kind of server), the prompts; how `askServer`'s probe abandons its login.
- *Windows.*  Windows of two different audits nested in one context, where the
  inner one hides the outer from a `Rename`; `WithScript`, which runs nothing;
  the creates and the catalog reads.
- *Event files.*  The decoding of events; `Files`, `EventFilePattern` and the ring buffer;
  a caller that changes what it asks for between two reads.  A file is deleted whole, and
  an event of one that is being deleted comes or does not.
- *Scripts of databases.*  Two objects with one key, which the code refuses; rules,
  defaults, sequences and collections (ordered like types and tables); the principals,
  schemas and partitions before the objects; database triggers; a selection of kinds;
  the legacy source of dependencies, which is said to miss some.  A replay stops at the
  first statement refused, or goes on without it; one that goes on after a refused `USE`
  is in the wrong database, which the script cannot help.
- *Tables.*  Columns, their defaults and computed expressions; statistics; FileTables,
  external, memory-optimized, ledger and graph tables (`graphScriptIndexes`).
- *Settings.*  Values: an item is away from the default or not.  A database that exists
  already, except one that is dropped first: `IncludeIfNotExists` guards the `CREATE`
  and not the statements after it.
- *Captured scripts.*  The text of arguments and secrets; one collector used by several
  goroutines, which append under its mutex in the order they came; calls that read
  before they write.
- *Configuration.*  What other options are for; somebody else's `sp_configure` or
  `RECONFIGURE` in the middle of the batch.
- *Altered columns.*  Types beyond string and other, the text of the statements, and what
  ties a column down (indexes, keys, a computed column), which refuses an alteration
  as a whole; a column that is gone; the database's change tracking, which is one guarded
  statement.
- *Job steps.*  Another session's edit of the job between its reading and the batch
  ("last-writer-wins", `ReorderSteps`).  Actions on success other than "next" and
  "go to" (those carry no number and move with the step).
- *Restore plans.*  File, filegroup and partial backups, which the code passes over;
  a backup that takes time; a restore of the database itself, which forks its log
  under the same name in the history; a log backup without log (`FirstLSN` equal to
  `LastLSN`), which the code passes over; a clock that goes back.
- Everywhere, the statements' text, quoting, logging, and what the driver does
  below `database/sql`.
