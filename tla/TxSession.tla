------------------------------ MODULE TxSession ------------------------------
(***************************************************************************)
(* One Server.InTransaction call (transaction.go) and the one session it   *)
(* runs on: the statements fn issues through the package's chokepoints,    *)
(* the USE statements that move the session between databases, what the    *)
(* client believes about the session (serverTx.current), what the server   *)
(* really did, and how the call ends.                                      *)
(*                                                                         *)
(* A step is one round trip to the server.  Between any two of them the    *)
(* context may end and database/sql may roll the transaction back; any     *)
(* round trip may fail, lose its answer after taking effect, or end the    *)
(* transaction on the server.                                              *)
(***************************************************************************)
EXTENDS Selection

CONSTANTS
    Databases,      \* the databases a statement can target
    Master,         \* the system database a server permission is granted in
    ServerScope,    \* the "database" of a server-scoped statement
    Unknown,        \* serverTx.current when it is ""
    Forms,          \* the forms of statement fn issues
    AtomicParts,    \* the statements an execAtomic write is made of
    MaxCalls,       \* bound: statements fn issues
    MaxDepth        \* bound: nested InTransaction calls that join this one

ServerForms == {"write", "atomic", "read", "grant", "fromMaster"}
DatabaseForms == {"write", "atomic", "read", "plan"}

\* The forms whose batch has a USE that serverTx is not told of: fromMaster's,
\* and one a caller's own batch may hold.
Untracked == {"fromMaster", "plan"}

ASSUME TxAssumption ==
    /\ Master \in Databases
    /\ Unknown \notin Databases
    /\ ServerScope \notin Databases
    /\ Forms \subseteq ServerForms \cup DatabaseForms
    /\ AtomicParts \in Nat /\ AtomicParts > 1
    /\ MaxCalls \in Nat
    /\ MaxDepth \in Nat

VARIABLES
    phase,      \* where InTransaction is
    depth,      \* nested calls fn is inside of
    op,         \* the statement being run, NoOp between statements
    calls,      \* statements issued so far
    ctxEnded,   \* the caller's context, or the Server, has ended
    verdict,    \* what InTransaction returns: "nil", "error" or "panic"
    home,       \* serverTx.home
    current,    \* serverTx.current
    failed,     \* serverTx.failed is set
    pending,    \* serverTx.pending, the held observer reports
    heard,      \* what the observer was called with
    session,    \* the database the session is in, on the server
    xact,       \* the transaction, on the server
    effects,    \* the writes the open transaction holds
    inForce,    \* the writes COMMIT put in force
    served,     \* where the last statement that ran was meant to run, and ran
    strayed,    \* goHome's USE failed: the session may be handed back elsewhere
    untracked   \* fn has issued a batch with a USE serverTx is not told of

client == <<home, current, failed, pending>>
server == <<session, xact, effects, inForce, served>>
vars == <<phase, depth, op, calls, ctxEnded, verdict, client, heard, server,
          strayed, untracked>>

Phases == {"idle", "naming", "fn", "homeThenCommit", "commit",
           "homeThenRollback", "rollback", "report", "done"}

\* A statement: where it runs, its form, and whether its context carries an
\* observer.  "recheck" and "rerun" are the follow-ups of a failed read.
ReadStages == {"recheck", "rerun"}
Op == [at : Databases \cup {ServerScope},
       form : ServerForms \cup DatabaseForms \cup ReadStages,
       seen : BOOLEAN]
NoOp == [at |-> ServerScope, form |-> "none", seen |-> FALSE]

Requests ==
    {o \in Op : /\ o.form \in Forms
                /\ o.form \in IF o.at = ServerScope THEN ServerForms ELSE DatabaseForms
                /\ o.seen => o.form \notin {"read", "plan"}}

Parts(o) == IF o.form = "atomic" THEN AtomicParts ELSE 1

\* The database a statement is meant to run in.
Target(o) == IF o.at = ServerScope THEN home ELSE o.at

\* serverTx.in
In(db) == current # Unknown /\ current = db

Write == [call : 1..MaxCalls, seen : BOOLEAN]
Effect == [call : 1..MaxCalls, seen : BOOLEAN, parts : Nat, of : Nat]
Named(o) == [call |-> calls, seen |-> o.seen]
Done(o, k) == [call |-> calls, seen |-> o.seen, parts |-> k, of |-> Parts(o)]

\* What a statement whose caller was given an error did all the same: an observer
\* hears of no statement that failed, whatever the server made of it.
Unanswered(o, k) == [Done(o, k) EXCEPT !.seen = FALSE]

TypeOK ==
    /\ phase \in Phases
    /\ depth \in 0..MaxDepth
    /\ op \in Op \cup {NoOp}
    /\ calls \in 0..MaxCalls
    /\ ctxEnded \in BOOLEAN
    /\ verdict \in {"none", "nil", "error", "panic"}
    /\ home \in Databases \cup {Unknown}
    /\ current \in Databases \cup {Unknown}
    /\ failed \in BOOLEAN
    /\ pending \in Seq(Write)
    /\ heard \in Seq(Write)
    /\ session \in Databases
    /\ xact \in {"none", "open", "committed", "gone"}
    /\ effects \in Seq(Effect)
    /\ inForce \in Seq(Effect)
    /\ served \in [target : Databases, ran : Databases]
    /\ strayed \in BOOLEAN
    /\ untracked \in BOOLEAN

Init ==
    /\ phase = "idle"
    /\ depth = 0
    /\ op = NoOp
    /\ calls = 0
    /\ ctxEnded = FALSE
    /\ verdict = "none"
    /\ home = Unknown
    /\ current = Unknown
    /\ failed = FALSE
    /\ pending = <<>>
    /\ heard = <<>>
    /\ session \in Databases
    /\ xact = "none"
    /\ effects = <<>>
    /\ inForce = <<>>
    /\ served = [target |-> session, ran |-> session]
    /\ strayed = FALSE
    /\ untracked = FALSE

-----------------------------------------------------------------------------
(* The server's side of a round trip.                                      *)

\* A request is refused outright once the transaction is over or its context
\* has ended; until then it may succeed or fail.
Reachable == xact = "open" /\ ~ctxEnded

\* A failed request: the transaction survives it, or is lost with whatever it
\* held (a deadlock victim, a broken connection).  kept is what it holds if it
\* survives.
SurvivesOrGone(kept) ==
    \/ xact' = xact /\ effects' = kept
    \/ xact = "open" /\ xact' = "gone" /\ effects' = <<>>

\* A USE that failed for the client may have moved the session all the same:
\* only its answer is lost.
MayHaveMovedTo(db) == session' \in IF xact = "open" THEN {session, db} ELSE {session}

Serve(target, ran) == served' = [target |-> target, ran |-> ran]

EndOp == op' = NoOp
KeepClient == UNCHANGED client
KeepCall == UNCHANGED <<phase, depth, calls, ctxEnded, verdict, heard, strayed, untracked>>

-----------------------------------------------------------------------------
(* Beginning.                                                              *)

\* BeginTx on a pooled session, which its checkout has reset to the login
\* database, whatever that is.
Begin ==
    /\ phase = "idle"
    /\ \/ /\ ~ctxEnded
          /\ xact' = "open"
          /\ phase' = "naming"
          /\ UNCHANGED verdict
       \/ /\ phase' = "done"
          /\ verdict' = "error"
          /\ UNCHANGED xact
    /\ UNCHANGED <<depth, op, calls, ctxEnded, client, heard, session, effects,
                   inForce, served, strayed, untracked>>

\* SELECT DB_NAME(): where the session is now is home.  A failure rolls back
\* without switching anywhere.
ReadHome ==
    /\ phase = "naming"
    /\ \/ /\ Reachable
          /\ home' = session
          /\ current' = session
          /\ phase' = "fn"
          /\ UNCHANGED <<xact, verdict>>
       \/ /\ phase' = "done"
          /\ verdict' = "error"
          /\ xact' = "gone"
          /\ UNCHANGED <<home, current>>
    /\ UNCHANGED <<depth, op, calls, ctxEnded, failed, pending, heard, session,
                   effects, inForce, served, strayed, untracked>>

-----------------------------------------------------------------------------
(* fn: the statements it issues.                                           *)

\* fn calls a method of the package with its context.
Issue ==
    /\ phase = "fn"
    /\ op = NoOp
    /\ calls < MaxCalls
    /\ op' \in Requests
    /\ calls' = calls + 1
    /\ untracked' = (untracked \/ op'.form \in Untracked)
    /\ UNCHANGED <<phase, depth, ctxEnded, verdict, client, heard, server,
                   strayed>>

\* serverConn and Database.withConn: the session is switched to the database
\* the statement runs in unless it is known to be there.  A database-scoped
\* read carries its own USE instead (useBatch).
Switching ==
    /\ phase = "fn"
    /\ op # NoOp
    /\ op.at = ServerScope \/ op.form \in {"write", "atomic", "plan"}
    /\ ~In(Target(op))

SwitchSession ==
    /\ Switching
    /\ Reachable
    /\ session' = Target(op)
    /\ current' = Target(op)
    /\ UNCHANGED <<op, home, failed, pending, xact, effects, inForce, served>>
    /\ KeepCall

\* Fault: a failed USE is taken to have left the session where it was.
SwitchSessionFailsKeepsCurrent ==
    /\ Switching
    /\ MayHaveMovedTo(Target(op))
    /\ SurvivesOrGone(effects)
    /\ failed' = (failed \/ op.form = "atomic")
    /\ EndOp
    /\ UNCHANGED <<home, current, pending, inForce, served>>
    /\ KeepCall

\* An EntryError ends the statement before it ran: serverTx.lost, and
\* serverTx.fail when the statement was an atomic write.
SwitchSessionFails ==
    /\ Switching
    /\ MayHaveMovedTo(Target(op))
    /\ SurvivesOrGone(effects)
    /\ current' = Unknown
    /\ failed' = (failed \/ op.form = "atomic")
    /\ EndOp
    /\ UNCHANGED <<home, pending, inForce, served>>
    /\ KeepCall

\* Holding the report of a statement that ran (serverTx.hold).
Hold(o) == pending' = IF o.seen THEN Append(pending, Named(o)) ELSE pending

\* Server.execShown / execAtomic / Database.execShown: the write itself, on a
\* session known to be in its database.
Ready(forms) ==
    /\ phase = "fn"
    /\ op # NoOp
    /\ op.form \in forms
    /\ In(Target(op))

\* Fault: the observer is called as each write runs, not after COMMIT.
RunWriteReportsAtOnce ==
    /\ Ready({"write", "atomic"})
    /\ Reachable
    /\ effects' = Append(effects, Done(op, Parts(op)))
    /\ Serve(Target(op), session)
    /\ heard' = IF op.seen THEN Append(heard, Named(op)) ELSE heard
    /\ EndOp
    /\ UNCHANGED <<client, session, xact, inForce, phase, depth, calls, ctxEnded,
                   verdict, strayed, untracked>>

RunWrite ==
    /\ Ready({"write", "atomic"})
    /\ Reachable
    /\ effects' = Append(effects, Done(op, Parts(op)))
    /\ Serve(Target(op), session)
    /\ Hold(op)
    /\ EndOp
    /\ UNCHANGED <<home, current, failed, session, xact, inForce>>
    /\ KeepCall

\* After a failed statement of a database the session's database is not
\* trusted; a failed server-scoped statement moves nothing.
AfterFailure(o) == IF o.at = ServerScope THEN current ELSE Unknown

\* Fault: nothing remembers that an atomic write failed part-way.
RunWriteFailsUnrecorded ==
    /\ Ready({"write", "atomic"})
    /\ \E k \in 0..Parts(op) :
         IF k > 0
         THEN /\ Reachable
              /\ SurvivesOrGone(Append(effects, Unanswered(op, k)))
              /\ Serve(Target(op), session)
         ELSE /\ SurvivesOrGone(effects)
              /\ UNCHANGED served
    /\ current' = AfterFailure(op)
    /\ EndOp
    /\ UNCHANGED <<home, failed, pending, session, inForce>>
    /\ KeepCall

\* The write fails.  An atomic write (atomicTxBatch) may have run some of its
\* statements, and a write of either form all of them, its answer lost to an
\* attention: what ran stays in the caller's transaction.  serverTx.fail records
\* of an atomic write that the transaction must not commit.
RunWriteFails ==
    /\ Ready({"write", "atomic"})
    /\ \E k \in 0..Parts(op) :
         IF k > 0
         THEN /\ Reachable
              /\ SurvivesOrGone(Append(effects, Unanswered(op, k)))
              /\ Serve(Target(op), session)
         ELSE /\ SurvivesOrGone(effects)
              /\ UNCHANGED served
    /\ current' = AfterFailure(op)
    /\ failed' = (failed \/ op.form = "atomic")
    /\ EndOp
    /\ UNCHANGED <<home, pending, session, inForce>>
    /\ KeepCall

\* Server.query, queryRow and execScan.
RunServerRead ==
    /\ Ready({"read"})
    /\ op.at = ServerScope
    /\ \/ Reachable /\ Serve(home, session) /\ UNCHANGED <<xact, effects>>
       \/ SurvivesOrGone(effects) /\ UNCHANGED served
    /\ EndOp
    /\ UNCHANGED <<session, inForce>>
    /\ KeepClient
    /\ KeepCall

\* Fault: the USE master of a server permission is not made known.
RunGrantKeepsCurrent ==
    /\ Ready({"grant"})
    /\ \/ /\ Reachable
          /\ session' = Master
          /\ effects' = Append(effects, Done(op, 1))
          /\ Hold(op)
          /\ UNCHANGED xact
       \/ /\ MayHaveMovedTo(Master)
          /\ SurvivesOrGone(effects)
          /\ UNCHANGED pending
       \/ /\ Reachable
          /\ session' = Master
          /\ SurvivesOrGone(Append(effects, Unanswered(op, 1)))
          /\ UNCHANGED pending
    /\ EndOp
    /\ UNCHANGED <<home, current, failed, inForce, served>>
    /\ KeepCall

\* Server.ApplyPermission: "USE master; GRANT ..." in one batch.  The session
\* is in master afterwards, so its database is declared lost either way.
RunGrant ==
    /\ Ready({"grant"})
    /\ \/ /\ Reachable
          /\ session' = Master
          /\ effects' = Append(effects, Done(op, 1))
          /\ Hold(op)
          /\ UNCHANGED xact
       \/ /\ MayHaveMovedTo(Master)
          /\ SurvivesOrGone(effects)
          /\ UNCHANGED pending
       \/ /\ Reachable
          /\ session' = Master
          /\ SurvivesOrGone(Append(effects, Unanswered(op, 1)))
          /\ UNCHANGED pending
    /\ current' = Unknown
    /\ EndOp
    /\ UNCHANGED <<home, failed, inForce, served>>
    /\ KeepCall

\* Database.Drop, Detach, Restore, a snapshot's Drop: fromMaster's
\* "USE [master]" followed by a statement SQL Server refuses inside a user
\* transaction (Msg 226, 3021, 15002).  The batch's USE has run; the error is
\* an ordinary failed server-scoped statement to execShown.
RunFromMaster ==
    /\ Ready({"fromMaster"})
    /\ MayHaveMovedTo(Master)
    /\ SurvivesOrGone(effects)
    /\ current' = AfterFailure(op)
    /\ EndOp
    /\ UNCHANGED <<home, failed, pending, inForce, served>>
    /\ KeepCall

\* Database.ActualPlan inside the transaction: the caller's own batch runs on
\* its session, and may end with a USE of its own.  It is not observed.
RunPlan ==
    /\ Ready({"plan"})
    /\ \/ /\ Reachable
          /\ session' \in Databases
          /\ effects' \in {effects, Append(effects, Done(op, 1))}
          /\ Serve(op.at, session)
          /\ UNCHANGED <<xact, current>>
       \/ /\ \E db \in Databases : MayHaveMovedTo(db)
          /\ SurvivesOrGone(effects)
          /\ current' = Unknown
          /\ UNCHANGED served
       \/ /\ Reachable
          /\ session' \in Databases
          /\ SurvivesOrGone(Append(effects, Unanswered(op, 1)))
          /\ Serve(op.at, session)
          /\ current' = Unknown
    /\ EndOp
    /\ UNCHANGED <<home, failed, pending, inForce>>
    /\ KeepCall

-----------------------------------------------------------------------------
(* fn: a database-scoped read, Database.query and queryRow.                *)

\* useBatch: USE and the query in one batch, the query guarded by @@ERROR.
RunDatabaseRead ==
    /\ phase = "fn"
    /\ op.form = "read" /\ op.at # ServerScope
    /\ Reachable
    /\ session' = op.at
    /\ current' = op.at
    /\ Serve(op.at, session')
    /\ EndOp
    /\ UNCHANGED <<home, failed, pending, xact, effects, inForce>>
    /\ KeepCall

RunDatabaseReadFails ==
    /\ phase = "fn"
    /\ op.form = "read" /\ op.at # ServerScope
    /\ MayHaveMovedTo(op.at)
    /\ SurvivesOrGone(effects)
    /\ current' = Unknown
    /\ op' = [op EXCEPT !.form = "recheck"]
    /\ UNCHANGED <<home, failed, pending, inForce, served>>
    /\ KeepCall

\* recheckUse: the USE again, alone.  If it succeeds the query half failed,
\* and a collation conflict (Msg 468) is worth running the query alone.
RecheckUse ==
    /\ phase = "fn"
    /\ op.form = "recheck"
    /\ \/ /\ Reachable
          /\ session' = op.at
          /\ op' \in {NoOp, [op EXCEPT !.form = "rerun"]}
          /\ UNCHANGED <<xact, effects>>
       \/ /\ MayHaveMovedTo(op.at)
          /\ SurvivesOrGone(effects)
          /\ EndOp
    /\ UNCHANGED <<inForce, served>>
    /\ KeepClient
    /\ KeepCall

RerunRead ==
    /\ phase = "fn"
    /\ op.form = "rerun"
    /\ \/ /\ Reachable
          /\ Serve(op.at, session)
          /\ current' = op.at
          /\ UNCHANGED <<xact, effects>>
       \/ /\ SurvivesOrGone(effects)
          /\ UNCHANGED <<current, served>>
    /\ EndOp
    /\ UNCHANGED <<home, failed, pending, session, inForce>>
    /\ KeepCall

-----------------------------------------------------------------------------
(* fn: joining, and returning.                                             *)

\* InTransaction with a context already inside this transaction.
Join ==
    /\ phase = "fn"
    /\ op = NoOp
    /\ depth < MaxDepth
    /\ depth' = depth + 1
    /\ UNCHANGED <<phase, op, calls, ctxEnded, verdict, client, heard, server,
                   strayed, untracked>>

\* Fault: every return counts as a joined call's.
LeaveJoinedAlways ==
    /\ phase = "fn"
    /\ op = NoOp
    /\ depth' = depth - 1
    /\ UNCHANGED <<phase, op, calls, ctxEnded, verdict, client, heard, server,
                   strayed, untracked>>

\* A joined call returns fn's nil or error; the outer call decides.
LeaveJoined ==
    /\ phase = "fn"
    /\ op = NoOp
    /\ depth > 0
    /\ depth' = depth - 1
    /\ UNCHANGED <<phase, op, calls, ctxEnded, verdict, client, heard, server,
                   strayed, untracked>>

\* Fault: fn's nil commits whatever failed inside it.
FnReturnsNilCommits ==
    /\ phase = "fn"
    /\ op = NoOp
    /\ depth = 0
    /\ phase' = "homeThenCommit"
    /\ UNCHANGED <<depth, op, calls, ctxEnded, verdict, client, heard, server,
                   strayed, untracked>>

\* fn returns nil: COMMIT, unless an atomic write in it failed.
FnReturnsNil ==
    /\ phase = "fn"
    /\ op = NoOp
    /\ depth = 0
    /\ IF failed
       THEN phase' = "homeThenRollback" /\ verdict' = "error"
       ELSE phase' = "homeThenCommit" /\ UNCHANGED verdict
    /\ UNCHANGED <<depth, op, calls, ctxEnded, client, heard, server, strayed, untracked>>

\* Fault: a panic leaves without the deferred rollback.
FnFailsWithoutRollback ==
    /\ phase = "fn"
    /\ op = NoOp
    /\ \/ depth = 0 /\ verdict' = "error" /\ phase' = "homeThenRollback"
       \/ verdict' = "panic" /\ phase' = "done"
    /\ depth' = 0
    /\ UNCHANGED <<op, calls, ctxEnded, client, heard, server, strayed, untracked>>

\* fn returns an error, or panics from however deep.
FnFails ==
    /\ phase = "fn"
    /\ op = NoOp
    /\ phase' = "homeThenRollback"
    /\ \/ depth = 0 /\ verdict' = "error"
       \/ verdict' = "panic"
    /\ depth' = 0
    /\ UNCHANGED <<op, calls, ctxEnded, client, heard, server, strayed, untracked>>

-----------------------------------------------------------------------------
(* Ending.                                                                 *)

AfterHome == IF phase = "homeThenCommit" THEN "commit" ELSE "rollback"

\* Fault: the connection is handed back wherever the last statement left it.
GoHomeNever ==
    /\ phase \in {"homeThenCommit", "homeThenRollback"}
    /\ phase' = AfterHome
    /\ UNCHANGED <<depth, op, calls, ctxEnded, verdict, client, heard, server,
                   strayed, untracked>>

\* goHome: switch back before the connection goes back to the pool, best
\* effort and outliving the context.
GoHome ==
    /\ phase \in {"homeThenCommit", "homeThenRollback"}
    /\ phase' = AfterHome
    /\ \/ /\ In(home)
          /\ UNCHANGED <<current, session, strayed>>
       \/ /\ ~In(home)
          /\ xact = "open"
          /\ session' = home
          /\ current' = home
          /\ strayed' = FALSE
       \/ /\ ~In(home)
          /\ MayHaveMovedTo(home)
          /\ strayed' = TRUE
          /\ UNCHANGED current
    /\ UNCHANGED <<depth, op, calls, ctxEnded, verdict, home, failed, pending,
                   heard, xact, effects, inForce, served, untracked>>

\* tx.Commit.  database/sql refuses it with the context's error before sending
\* anything once the context has ended; the deferred rollback follows.
CommitRefused ==
    /\ phase = "commit"
    /\ ctxEnded
    /\ verdict' = "error"
    /\ phase' = "homeThenRollback"
    /\ UNCHANGED <<depth, op, calls, ctxEnded, client, heard, server, strayed, untracked>>

\* COMMIT was sent: it takes, and its answer may be lost, or it fails.  After
\* an error the transaction is over for the driver, so the deferred goHome and
\* Rollback reach nothing.
Commit ==
    /\ phase = "commit"
    /\ ~ctxEnded
    /\ \/ /\ xact = "open"
          /\ xact' = "committed"
          /\ inForce' = effects
          /\ \/ phase' = "report" /\ UNCHANGED verdict
             \/ phase' = "done" /\ verdict' = "error"
          /\ UNCHANGED effects
       \/ /\ xact' = "gone"
          /\ effects' = <<>>
          /\ phase' = "done"
          /\ verdict' = "error"
          /\ UNCHANGED inForce
    /\ UNCHANGED <<depth, op, calls, ctxEnded, client, heard, session, served,
                   strayed, untracked>>

Rollback ==
    /\ phase = "rollback"
    /\ phase' = "done"
    /\ xact' = "gone"
    /\ effects' = <<>>
    /\ UNCHANGED <<depth, op, calls, ctxEnded, verdict, client, heard, session,
                   inForce, served, strayed, untracked>>

\* The held reports, one observer call at a time, after COMMIT.
Report ==
    /\ phase = "report"
    /\ IF Len(heard) < Len(pending)
       THEN /\ heard' = Append(heard, pending[Len(heard) + 1])
            /\ UNCHANGED <<phase, verdict>>
       ELSE /\ phase' = "done"
            /\ verdict' = "nil"
            /\ UNCHANGED heard
    /\ UNCHANGED <<depth, op, calls, ctxEnded, client, server, strayed, untracked>>

-----------------------------------------------------------------------------
(* The environment.                                                        *)

\* The caller's context ends, or Server.Close cancels the bound one.
ContextEnds ==
    /\ phase \notin {"report", "done"}
    /\ ~ctxEnded
    /\ ctxEnded' = TRUE
    /\ UNCHANGED <<phase, depth, op, calls, verdict, client, heard, server,
                   strayed, untracked>>

\* database/sql rolls back a transaction whose context has ended, on its own
\* goroutine.
DriverRollsBack ==
    /\ ctxEnded
    /\ xact = "open"
    /\ xact' = "gone"
    /\ effects' = <<>>
    /\ UNCHANGED <<phase, depth, op, calls, ctxEnded, verdict, client, heard,
                   session, inForce, served, strayed, untracked>>

Returned == phase = "done" /\ UNCHANGED vars

Statement ==
    \/ SwitchSession \/ SwitchSessionFails
    \/ RunWrite \/ RunWriteFails
    \/ RunServerRead \/ RunGrant \/ RunFromMaster \/ RunPlan
    \/ RunDatabaseRead \/ RunDatabaseReadFails \/ RecheckUse \/ RerunRead

Fn == Issue \/ Join \/ LeaveJoined \/ FnReturnsNil \/ FnFails

Call ==
    \/ Begin \/ ReadHome
    \/ GoHome \/ CommitRefused \/ Commit \/ Rollback \/ Report

Next == Statement \/ Fn \/ Call \/ ContextEnds \/ DriverRollsBack \/ Returned

Spec == Init /\ [][Next]_vars

\* Every statement is answered or fails, fn stops issuing statements (MaxCalls)
\* and returns, and InTransaction itself never stops between two steps.
FairSpec ==
    /\ Spec
    /\ WF_vars(Statement)
    /\ WF_vars(FnReturnsNil \/ FnFails)
    /\ WF_vars(Call)

-----------------------------------------------------------------------------
(* Properties.                                                             *)

\* While fn runs, serverTx.current is never wrong about an open transaction's
\* session: "" or the database the session really is in (the comment on
\* current, "a differently cased name costs a redundant USE, never a wrong
\* database"), as long as every USE was the package's to follow.  goHome's
\* failed USE leaves it stale, when nothing is left to run.
KnownDatabase ==
    ~untracked /\ phase = "fn" /\ xact = "open" /\ current # Unknown
        => session = current

\* Every statement that ran, read or write, ran in the database it names, and
\* a server-scoped one in the database the transaction began in, as long as
\* every USE was the package's to follow (serverConn, Database.withConn).
RunsInItsDatabase == ~untracked => served.ran = served.target

\* The same whatever fn has issued: the comment on serverTx.current makes no
\* exception of a failed statement that switched the session itself.
RunsWhereItSays == served.ran = served.target

\* COMMIT never puts a half-done atomic write in force, even when fn tolerated
\* its failure (serverTx.fail).
NoHalfWrite == \A i \in DOMAIN inForce : inForce[i].parts = inForce[i].of

\* The connection goes back to the pool in the database it came in, unless
\* goHome's own USE failed, or a USE nobody was told of took it away (goHome).
HandedBackHome ==
    ~untracked /\ phase \in {"commit", "rollback"} /\ xact = "open" /\ ~strayed
        => session = home

\* The observer of a call that returned nil has heard, in order, every observed
\* write that succeeded, and the call's transaction is in force; of any other call
\* it heard nothing (the doc comment of InTransaction on WithStatementObserver).
\* A write fn was given an error of and tolerated is not told, though COMMIT may
\* have put it in force (WithStatementObserver: never "for a statement that failed").
Observed(es) == Only(es, {e \in Effect : e.seen})
Calls(es) == [i \in DOMAIN es |-> es[i].call]

ObserverMatchesOutcome ==
    phase = "done" =>
        IF verdict = "nil"
        THEN xact = "committed" /\ Calls(heard) = Calls(Observed(inForce))
        ELSE heard = <<>>

\* Every call ends, and takes its transaction with it: COMMIT or ROLLBACK, no
\* transaction left open on a pooled session.
Ends == (phase # "idle") ~> (phase = "done" /\ xact # "open")

\* The call implements the abstract transaction: a write is whole once all its
\* statements are in, and a half-done one dooms what is uncommitted.
Whole(es) == LET ws == Only(es, {e \in Effect : e.parts = e.of})
             IN  [i \in DOMAIN ws |-> [call |-> ws[i].call, seen |-> ws[i].seen]]
HalfDone(es) == \E i \in DOMAIN es : es[i].parts < es[i].of

Atomic == INSTANCE AtomicTx WITH
    Writes <- Write,
    state <- xact,
    doomed <- HalfDone(effects),
    writes <- Whole(effects),
    inForce <- Whole(inForce),
    heard <- heard

AtomicSpec == Atomic!Spec
=============================================================================
