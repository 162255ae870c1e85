---------------------------- MODULE PooledSession ----------------------------
(***************************************************************************)
(* The calls that run outside InTransaction, each on a connection of the   *)
(* pool: reads, retried on a transient failure (withRetry); writes, whose  *)
(* acquire alone is (withConn, execIn); plan captures and bulk loads,      *)
(* which switch their session to the database and back (withSessionIn);    *)
(* and reads as another principal (readImpersonated).                      *)
(*                                                                         *)
(* A step is one round trip, or one use of the pool.  Any round trip may   *)
(* be refused by the server, lose its connection before or after it took   *)
(* effect, or be cut short when its context ends.                          *)
(***************************************************************************)
EXTENDS Naturals, FiniteSets

CONSTANTS
    Procs,      \* goroutines making calls
    Conns,      \* identities for connections: as many as MaxOpenConns lets open
    None,
    Ops         \* per goroutine: the calls it makes

readRetryAttempts == 3

AllOps == {"read", "impersonate", "write", "plan", "bulk"}
ASSUME PooledAssumption ==
    /\ None \notin Conns
    /\ Ops \in [Procs -> SUBSET AllOps]

VARIABLES
    open,       \* the connections there are
    idle,       \* those of them in the pool
    session,    \* per connection: the session's state on the server
    pc, op,     \* per goroutine: where its call is, and which call it is
    held,       \* the connection it has checked out
    attempt,    \* withRetry's attempt
    err,        \* the error it has met, if any
    ended,      \* its context has ended
    applied     \* how often its statement took effect

call == <<pc, op, held, attempt, err, ended, applied>>
pool == <<open, idle>>
vars == <<pool, session, call>>

\* A session is in a database and may be marked: capturing plans, running as
\* another principal, in the middle of a bulk load, or left under a capture
\* nothing will stop any more; a broken one's connection is closed, not pooled,
\* when it is let go.
Marks == {"capturing", "impersonated", "loading", "leftOn", "broken"}
Databases == {"login", "master", "target", "other"}
Session == [db : Databases, marks : SUBSET Marks]
Fresh == [db |-> "login", marks |-> {}]

Errors == {"none", "transient", "permanent", "context"}

TypeOK ==
    /\ open \subseteq Conns
    /\ idle \subseteq open
    /\ session \in [Conns -> Session]
    /\ pc \in [Procs -> {"rest", "acquire", "prologue", "run", "recheck", "rows", "capture",
                         "batch", "stop", "load", "back", "again", "letGo", "wait"}]
    /\ op \in [Procs -> AllOps \cup {"none"}]
    /\ held \in [Procs -> Conns \cup {None}]
    /\ attempt \in [Procs -> 1..readRetryAttempts]
    /\ err \in [Procs -> Errors]
    /\ ended \in [Procs -> BOOLEAN]
    /\ applied \in [Procs -> Nat]

Init ==
    /\ open = {}
    /\ idle = {}
    /\ session = [c \in Conns |-> Fresh]
    /\ pc = [p \in Procs |-> "rest"]
    /\ op = [p \in Procs |-> "none"]
    /\ held = [p \in Procs |-> None]
    /\ attempt = [p \in Procs |-> 1]
    /\ err = [p \in Procs |-> "none"]
    /\ ended = [p \in Procs |-> FALSE]
    /\ applied = [p \in Procs |-> 0]

-----------------------------------------------------------------------------
Goto(p, label) == pc' = [pc EXCEPT ![p] = label]
Raise(p, e) == err' = [err EXCEPT ![p] = e]
Mine(p) == session[held[p]]

Marked(p, m) == session' = [session EXCEPT ![held[p]].marks = @ \cup m]
Switched(p, db) == session' = [session EXCEPT ![held[p]].db = db]

\* The call returns.
Return(p) ==
    /\ Goto(p, "rest")
    /\ op' = [op EXCEPT ![p] = "none"]
    /\ attempt' = [attempt EXCEPT ![p] = 1]
    /\ Raise(p, "none")
    /\ ended' = [ended EXCEPT ![p] = FALSE]
    /\ applied' = [applied EXCEPT ![p] = 0]

Begin(p) ==
    /\ pc[p] = "rest"
    /\ \E o \in Ops[p] : op' = [op EXCEPT ![p] = o]
    /\ Goto(p, "acquire")
    /\ UNCHANGED <<pool, session, held, attempt, err, ended, applied>>

\* The caller's context, or the Server's (bound), ends.
ContextEnds(p) ==
    /\ pc[p] # "rest"
    /\ ~ended[p]
    /\ ended' = [ended EXCEPT ![p] = TRUE]
    /\ UNCHANGED <<pool, session, pc, op, held, attempt, err, applied>>

-----------------------------------------------------------------------------
(* db.Conn.                                                                *)

\* An idle connection, or a new one while there are fewer than MaxOpenConns.
\* The first statement on a pooled connection resets its session.
Available == IF idle # {} THEN idle ELSE Conns \ open

Acquire(p) ==
    /\ pc[p] = "acquire" /\ ~ended[p]
    /\ \E c \in Available :
         /\ held' = [held EXCEPT ![p] = c]
         /\ open' = open \cup {c}
         /\ idle' = idle \ {c}
         /\ session' = [session EXCEPT ![c] = Fresh]
    /\ Goto(p, IF op[p] \in {"plan", "bulk"} THEN "prologue" ELSE "run")
    /\ UNCHANGED <<op, attempt, err, ended, applied>>

\* A dial fails, or the context ends while it waits for a connection.
NotAcquired(p) ==
    /\ pc[p] = "acquire"
    /\ \/ /\ ~ended[p] /\ idle = {} /\ Available # {}
          /\ \E e \in {"transient", "permanent"} : Raise(p, e)
       \/ ended[p] /\ Raise(p, "context")
    /\ Goto(p, "again")
    /\ UNCHANGED <<pool, session, op, held, attempt, ended, applied>>

-----------------------------------------------------------------------------
(* How a round trip ends badly.  The session is as it was if the server    *)
(* refused the statement or it was never sent, and is after if it was not; *)
(* effect says whether the statement took effect all the same.             *)

\* The server refuses it, or runs it and reports an error.
Reported(p) == ~ended[p] /\ \E e \in {"transient", "permanent"} : Raise(p, e)
Refused(p) == Reported(p) /\ UNCHANGED session

\* The connection is lost.
Broke(p) ==
    /\ ~ended[p]
    /\ Raise(p, "transient")
    /\ Marked(p, {"broken"})

\* The context ended: before the statement was sent, or while it ran.
CutShort(p) ==
    /\ ended[p]
    /\ Raise(p, "context")
    /\ \/ UNCHANGED session
       \/ Marked(p, {"broken"})

MayHaveApplied(p) ==
    \/ UNCHANGED applied
    \/ applied' = [applied EXCEPT ![p] = @ + 1]

-----------------------------------------------------------------------------
(* Reads and writes.  A batch of a database goes there by sp_executesql,    *)
(* which leaves the session where it is; the server's own may begin with    *)
(* USE master, and leave the session there, which holds no one up.          *)

Run(p) ==
    /\ pc[p] = "run" /\ ~ended[p]
    /\ applied' = [applied EXCEPT ![p] = @ + 1]
    /\ \E db \in {"login", "master"} :
         session' = [session EXCEPT ![held[p]] =
                       [db |-> db,
                        marks |-> IF op[p] = "impersonate" THEN {"impersonated"} ELSE {}]]
    /\ Goto(p, IF op[p] = "write" THEN "letGo" ELSE "rows")
    /\ UNCHANGED <<pool, op, held, attempt, err, ended>>

\* A read that failed is withRetry's to run again; a write is not.
FailedAlways(p) == "again"                                        \* a fault
Failed(p) == IF op[p] = "write" THEN "letGo" ELSE "again"

\* recheckEntry asks the server again, on the same connection, whether the
\* database refused the call.
RunFails(p) ==
    /\ pc[p] = "run"
    /\ \/ Refused(p) /\ UNCHANGED applied /\ Goto(p, "recheck")
       \/ /\ Reported(p) /\ (UNCHANGED session \/ Switched(p, "master"))
          /\ UNCHANGED applied /\ Goto(p, Failed(p))
       \/ Broke(p) /\ MayHaveApplied(p) /\ Goto(p, Failed(p))
       \/ /\ \/ CutShort(p)
             \/ ended[p] /\ Raise(p, "context") /\ Switched(p, "master")
          /\ MayHaveApplied(p) /\ Goto(p, Failed(p))
    /\ UNCHANGED <<pool, op, held, attempt, ended>>

RecheckElsewhere(p) ==                                            \* a fault
    /\ pc[p] = "recheck"
    /\ Available # {}
    /\ UNCHANGED <<session, err>>
    /\ Goto(p, Failed(p))
    /\ UNCHANGED <<pool, op, held, attempt, ended, applied>>
Recheck(p) ==
    /\ pc[p] = "recheck"
    /\ \/ UNCHANGED <<session, err>>        \* the call was let in
       \/ Refused(p)
       \/ Broke(p)
       \/ ended[p] /\ UNCHANGED <<session, err>>
    /\ Goto(p, Failed(p))
    /\ UNCHANGED <<pool, op, held, attempt, ended, applied>>

\* The rows read to the end, and with them the batch, its REVERT included.
ReadRows(p) ==
    /\ pc[p] = "rows"
    /\ session' = [session EXCEPT ![held[p]].marks = @ \ {"impersonated"}]
    /\ Goto(p, "letGo")
    /\ UNCHANGED <<pool, op, held, attempt, err, ended, applied>>

\* A read of the rows that stops short is the caller's to see, never retried.
\* readImpersonated discards its connection then.
RowsFail(p) ==
    /\ pc[p] = "rows"
    /\ \E e \in {"transient", "permanent", "context"} :
         /\ e = "context" => ended[p]
         /\ Raise(p, e)
         /\ IF op[p] = "impersonate"
            THEN Marked(p, {"broken"})
            ELSE UNCHANGED session \/ (e # "permanent" /\ Marked(p, {"broken"}))
    /\ Goto(p, "letGo")
    /\ UNCHANGED <<pool, op, held, attempt, ended, applied>>

-----------------------------------------------------------------------------
(* withSessionIn.                                                          *)

\* One batch reads the login database's name and switches.
Prologue(p) ==
    /\ pc[p] = "prologue" /\ ~ended[p]
    /\ Switched(p, "target")
    /\ Goto(p, IF op[p] = "plan" THEN "capture" ELSE "load")
    /\ UNCHANGED <<pool, op, held, attempt, err, ended, applied>>

\* Refused, it has not switched; cut short before its row, the driver drops
\* the connection.
PrologueFails(p) ==
    /\ pc[p] = "prologue"
    /\ \/ Refused(p)
       \/ Broke(p)
       \/ ended[p] /\ Raise(p, "context") /\ Marked(p, {"broken"})
    /\ Goto(p, "again")
    /\ UNCHANGED <<pool, op, held, attempt, ended, applied>>

\* StartPlanCapture.  A SET ... ON cut short may have taken effect on a
\* connection the driver keeps; stop is nil all the same.
Capture(p) ==
    /\ pc[p] = "capture"
    /\ \/ /\ ~ended[p]
          /\ Marked(p, {"capturing"})
          /\ Goto(p, "batch")
          /\ UNCHANGED err
       \/ (Refused(p) \/ Broke(p) \/ CutShort(p)) /\ Goto(p, "back")
       \/ /\ ended[p]
          /\ Raise(p, "context")
          /\ Marked(p, {"leftOn"})
          /\ Goto(p, "back")
    /\ UNCHANGED <<pool, op, held, attempt, ended, applied>>

\* The caller's batch: it may hold a USE, and leave it done however it ends.
Batch(p) ==
    /\ pc[p] = "batch"
    /\ \E db \in {"target", "other"} :
         \/ ~ended[p] /\ Switched(p, db) /\ UNCHANGED err
         \/ Switched(p, db) /\ \E e \in {"transient", "permanent", "context"} :
                                  (e = "context" <=> ended[p]) /\ Raise(p, e)
         \/ Broke(p)
         \/ ended[p] /\ Raise(p, "context") /\ Marked(p, {"broken"})
    /\ IF err'[p] = "none" THEN applied' = [applied EXCEPT ![p] = @ + 1] ELSE MayHaveApplied(p)
    /\ Goto(p, "stop")
    /\ UNCHANGED <<pool, op, held, attempt, ended>>

\* stop runs whatever became of the context, for planStopTimeout: SET ... OFF
\* fails with its connection, or, timed out, with the connection kept.  Its error
\* goes nowhere.
Stop(p) ==
    /\ pc[p] = "stop"
    /\ \/ /\ "broken" \notin Mine(p).marks
          /\ \E m \in SUBSET {"leftOn"} :
               session' = [session EXCEPT ![held[p]].marks = (@ \ {"capturing"}) \cup m]
       \/ Marked(p, {"broken"})
    /\ Goto(p, "back")
    /\ UNCHANGED <<pool, op, held, attempt, err, ended, applied>>

\* BulkCopy.load: the rows are sent and flushed ...
Load(p) ==
    /\ pc[p] = "load" /\ ~ended[p]
    /\ applied' = [applied EXCEPT ![p] = @ + 1]
    /\ Goto(p, "back")
    /\ UNCHANGED <<pool, session, op, held, attempt, err, ended>>

\* ... or the load is abandoned: before INSERT BULK was prepared, or in the
\* middle of it, which the session is then still in, and it is discarded.
LoadFailsKept(p) ==                                               \* a fault
    /\ pc[p] = "load"
    /\ \/ (Refused(p) \/ Broke(p) \/ CutShort(p)) /\ UNCHANGED applied
       \/ /\ \E e \in {"transient", "permanent", "context"} :
               (e = "context" => ended[p]) /\ Raise(p, e)
          /\ Marked(p, {"loading"})
          /\ MayHaveApplied(p)
    /\ Goto(p, "back")
    /\ UNCHANGED <<pool, op, held, attempt, ended>>
LoadFails(p) ==
    /\ pc[p] = "load"
    /\ \/ (Refused(p) \/ Broke(p) \/ CutShort(p)) /\ UNCHANGED applied
       \/ /\ \E e \in {"transient", "permanent", "context"} :
               (e = "context" => ended[p]) /\ Raise(p, e)
          /\ Marked(p, {"loading", "broken"})
          /\ MayHaveApplied(p)
    /\ Goto(p, "back")
    /\ UNCHANGED <<pool, op, held, attempt, ended>>

\* The deferred USE back, on a context of its own; a session that does not
\* make it is discarded.  Under SHOWPLAN_XML the USE is compiled and not run,
\* which is no error.
SwitchBack(p) ==
    /\ pc[p] = "back"
    /\ \/ "broken" \notin Mine(p).marks /\ Switched(p, "login")
       \/ "leftOn" \in Mine(p).marks /\ UNCHANGED session
       \/ Marked(p, {"broken"})
    /\ Goto(p, "letGo")
    /\ UNCHANGED <<pool, op, held, attempt, err, ended, applied>>

-----------------------------------------------------------------------------
(* Letting go of the connection, and withRetry.                            *)

\* conn.Close: back to the pool, unless the connection is broken.
Close(p) ==
    /\ IF held[p] = None \/ "broken" \notin Mine(p).marks
       THEN idle' = idle \cup ({held[p]} \ {None}) /\ UNCHANGED open
       ELSE open' = open \ {held[p]} /\ UNCHANGED idle
    /\ held' = [held EXCEPT ![p] = None]

\* The deferred close, and the call returns.
LetGo(p) ==
    /\ pc[p] = "letGo"
    /\ Close(p)
    /\ Return(p)
    /\ UNCHANGED session

\* withRetry: the function it was given has closed its connection.
Again(p) ==
    /\ pc[p] = "again"
    /\ Close(p)
    /\ IF err[p] = "transient" /\ attempt[p] < readRetryAttempts
       THEN Goto(p, "wait") /\ UNCHANGED <<op, attempt, err, ended, applied>>
       ELSE Return(p)
    /\ UNCHANGED session

\* The backoff, which the context ends early.
Wait(p) ==
    /\ pc[p] = "wait"
    /\ \/ /\ Goto(p, "acquire")
          /\ attempt' = [attempt EXCEPT ![p] = @ + 1]
          /\ Raise(p, "none")
          /\ UNCHANGED <<op, ended, applied>>
       \/ ended[p] /\ Return(p)
    /\ UNCHANGED <<pool, session, held>>

-----------------------------------------------------------------------------
Step(p) ==
    \/ Acquire(p) \/ NotAcquired(p) \/ Run(p) \/ RunFails(p) \/ Recheck(p)
    \/ ReadRows(p) \/ RowsFail(p)
    \/ Prologue(p) \/ PrologueFails(p) \/ Capture(p) \/ Batch(p) \/ Stop(p)
    \/ Load(p) \/ LoadFails(p) \/ SwitchBack(p)
    \/ LetGo(p) \/ Again(p) \/ Wait(p)

Next == \E p \in Procs : Begin(p) \/ ContextEnds(p) \/ Step(p)

Spec == Init /\ [][Next]_vars

\* A call goes on: every round trip ends, and every backoff.  The pool hands
\* connections out in the order they were asked for, so a call waiting for one
\* is not passed over for ever.
FairSpec == Spec /\ \A p \in Procs : WF_vars(Step(p)) /\ SF_vars(Acquire(p))

-----------------------------------------------------------------------------
(* Properties.                                                             *)

\* A write, a plan capture's batch and a bulk load take effect at most once,
\* however their connections fail; one that is reported done took effect.  A
\* read is run at most readRetryAttempts times (withConn: "fn is not retried").
AtMostOnce ==
    \A p \in Procs :
        /\ applied[p] <= IF op[p] \in {"read", "impersonate"} THEN readRetryAttempts ELSE 1
        /\ pc[p] = "letGo" /\ err[p] = "none" => applied[p] > 0

\* No session is idle in the pool in a database a call went to, or capturing
\* plans, impersonating, or waiting for bulk rows: "a session left in d must
\* not reach the pool either way" (withSessionIn).  One exception, against "An
\* error enabling the capture means nothing was switched on" (StartPlanCapture):
\* a session whose SET ON took effect although it was cut short, or whose SET
\* OFF timed out, is pooled under the capture, and under SHOWPLAN_XML in the
\* database the call went to.  The reset of the next checkout restores it.
IdleClean ==
    \A c \in idle :
        \/ session[c].marks = {} /\ session[c].db \in {"login", "master"}
        \/ session[c].marks = {"leftOn"}

\* Every call ends although the pool is at its limit: whatever a call met, it
\* lets go of its connection, and it never waits for one while it holds one.
Ends == \A p \in Procs : pc[p] # "rest" ~> pc[p] = "rest"
=============================================================================
