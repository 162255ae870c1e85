---------------------------- MODULE LoginRetarget ----------------------------
(***************************************************************************)
(* The pool Connect opens and the database it logs in to                   *)
(* (connection_retarget.go).  Goroutines sharing one Server acquire        *)
(* connections (retargetingConnector.Connect), read, take databases away   *)
(* or rename them, and move the pool off a database they left unopenable   *)
(* (leftLoginDatabase), while other sessions open and close databases on   *)
(* the server.                                                             *)
(*                                                                         *)
(* A step is one critical section of the connector's mutex, one dial, one  *)
(* statement, or one take from the pool; any two of different goroutines   *)
(* may interleave.                                                         *)
(***************************************************************************)
EXTENDS Naturals, FiniteSets

CONSTANTS
    Procs,      \* the goroutines using the Server
    Writers,    \* those of them that take databases away or rename them
    Names,      \* database names other than master, compared ignoring case
    Master,
    Conns,      \* identities for pooled connections
    None,
    Closes,     \* the databases Writers take away
    Renames,    \* <<from, to>> pairs Writers rename
    Others,     \* the databases other sessions open and close
    Builds,     \* whether build may succeed, may fail
    FallBacks   \* whether the edition lets a read in master reach a database

Databases == Names \cup {Master}

ASSUME RetargetAssumption ==
    /\ Writers \subseteq Procs
    /\ Master \notin Names
    /\ None \notin Databases \cup Conns
    /\ Closes \subseteq Names
    /\ Renames \subseteq Names \X Names
    /\ Others \subseteq Names
    /\ Builds \subseteq BOOLEAN
    /\ FallBacks \subseteq BOOLEAN
    /\ IsFiniteSet(Conns)

VARIABLES
    site,       \* per name: "open", "shut" (offline, RESTORING, SINGLE_USER) or "none"
    everShut,   \* the names that could not be opened at some time
    status,     \* the Connect call that opens the Server
    asked,      \* ConnectionOptions.Database as Connect was given it
    target,     \* opts.Database: where new connections log in
    fallBack,   \* the connector's fallBack
    idle,       \* the pooled connections nobody holds
    login,      \* the database each pooled connection logged in to
    pc,         \* per goroutine: where it is
    call,       \* what it is doing for its caller
    job,        \* what it acquires a connection for
    budget,     \* takes left to releaseIdle
    snap,       \* Connect's snapshot under the lock
    swapped,    \* cur has been replaced since that snapshot
    held,       \* the connection it holds
    was         \* the pool logged in to the written database as the write ran

server == <<site, everShut>>
connector == <<target, fallBack>>
pool == <<idle, login>>
proc == <<pc, call, job, budget, snap, swapped, held, was>>
vars == <<server, status, asked, connector, pool, proc>>

Call == [kind : {"none", "ping", "info", "read"}, db : {None}, to : {None}]
    \cup [kind : {"close"}, db : Closes, to : {Master}]
    \cup {c \in [kind : {"rename"}, db : Names, to : Names] : <<c.db, c.to>> \in Renames}
Simple(kind) == [kind |-> kind, db |-> None, to |-> None]
Writes(p) == call[p].kind \in {"close", "rename"}

Snap == [db : Databases, fallBack : BOOLEAN]
NoSnap == [db |-> Master, fallBack |-> FALSE]

TypeOK ==
    /\ site \in [Names -> {"open", "shut", "none"}]
    /\ everShut \subseteq Names
    /\ status \in {"new", "opening", "open", "failed"}
    /\ asked \in Databases
    /\ target \in Databases
    /\ fallBack \in BOOLEAN
    /\ idle \subseteq Conns
    /\ login \in [Conns -> Databases \cup {None}]
    /\ pc \in [Procs -> {"rest", "count", "release", "acquire", "dial", "refused",
                         "moved", "redial", "giveUp", "run", "opened", "left", "retarget"}]
    /\ call \in [Procs -> Call]
    /\ job \in [Procs -> {"before", "statement", "after"}]
    /\ budget \in [Procs -> Nat]
    /\ snap \in [Procs -> Snap]
    /\ swapped \in [Procs -> BOOLEAN]
    /\ held \in [Procs -> Conns \cup {None}]
    /\ was \in [Procs -> BOOLEAN]

Openable(db) == db \in {Master} \cup {n \in Names : site[n] = "open"}

Init ==
    /\ site \in [Names -> {"open", "none"}]
    /\ everShut = {}
    /\ status = "new"
    /\ asked \in Databases
    /\ target = asked
    /\ fallBack = FALSE
    /\ idle = {}
    /\ login = [c \in Conns |-> None]
    /\ pc = [p \in Procs |-> "rest"]
    /\ call = [p \in Procs |-> Simple("none")]
    /\ job = [p \in Procs |-> "statement"]
    /\ budget = [p \in Procs |-> 0]
    /\ snap = [p \in Procs |-> NoSnap]
    /\ swapped = [p \in Procs |-> FALSE]
    /\ held = [p \in Procs |-> None]
    /\ was = [p \in Procs |-> FALSE]

-----------------------------------------------------------------------------
Goto(p, label) == pc' = [pc EXCEPT ![p] = label]

\* The caller's call returns.
End(p) ==
    /\ pc' = [pc EXCEPT ![p] = "rest"]
    /\ call' = [call EXCEPT ![p] = Simple("none")]
    /\ job' = [job EXCEPT ![p] = "statement"]
    /\ budget' = [budget EXCEPT ![p] = 0]
    /\ snap' = [snap EXCEPT ![p] = NoSnap]
    /\ was' = [was EXCEPT ![p] = FALSE]

\* A connection is discarded: its identity is free again.
Discards(c) == login' = [login EXCEPT ![c] = None]

\* An error ends the call, and fails the Connect it was opening the Server for.
Fails(p) ==
    /\ End(p)
    /\ status' = IF status = "opening" THEN "failed" ELSE status

-----------------------------------------------------------------------------
(* The calls.                                                              *)

\* Connect: ping the pool, then loadInfo.
Open(p) ==
    /\ status = "new"
    /\ status' = "opening"
    /\ call' = [call EXCEPT ![p] = Simple("ping")]
    /\ Goto(p, "acquire")
    /\ UNCHANGED <<server, asked, connector, pool, job, budget, snap, swapped, held, was>>

Read(p) ==
    /\ status = "open" /\ pc[p] = "rest"
    /\ call' = [call EXCEPT ![p] = Simple("read")]
    /\ Goto(p, "acquire")
    /\ UNCHANGED <<server, status, asked, connector, pool, job, budget, snap, swapped,
                   held, was>>

\* Drop, Detach, Rename and SetUserAccess release the idle connections first;
\* SetOffline, a NORECOVERY backup and UnjoinDatabase do not.
Write(p) ==
    /\ status = "open" /\ pc[p] = "rest"
    /\ p \in Writers
    /\ \E c \in Call :
         /\ c.kind \in {"close", "rename"}
         /\ call' = [call EXCEPT ![p] = c]
         /\ \/ Goto(p, "count") /\ job' = [job EXCEPT ![p] = "before"]
            \/ c.kind = "close" /\ Goto(p, "acquire") /\ UNCHANGED job
    /\ UNCHANGED <<server, status, asked, connector, pool, budget, snap, swapped, held, was>>

-----------------------------------------------------------------------------
(* ReleaseIdleConnections: as many takes as were idle on entry, as long as *)
(* any are idle.                                                           *)

Count(p) ==
    /\ pc[p] = "count"
    /\ budget' = [budget EXCEPT ![p] = Cardinality(idle)]
    /\ Goto(p, "release")
    /\ UNCHANGED <<server, status, asked, connector, pool, call, job, snap, swapped, held, was>>

\* What follows the release: the write, or the end of leftLoginDatabase.
Released(p) ==
    IF job[p] = "before"
    THEN /\ Goto(p, "acquire")
         /\ job' = [job EXCEPT ![p] = "statement"]
         /\ budget' = [budget EXCEPT ![p] = 0]
         /\ snap' = [snap EXCEPT ![p] = NoSnap]
         /\ UNCHANGED <<call, was>>
    ELSE End(p)

\* Fault: the entry count is not counted down.
ReleaseUncounted(p) ==
    /\ pc[p] = "release"
    /\ IF budget[p] > 0 /\ idle # {}
       THEN Goto(p, "acquire") /\ UNCHANGED <<budget, call, job, snap, was>>
       ELSE Released(p)
    /\ UNCHANGED <<server, status, asked, connector, pool, swapped, held>>

Release(p) ==
    /\ pc[p] = "release"
    /\ IF budget[p] > 0 /\ idle # {}
       THEN /\ budget' = [budget EXCEPT ![p] = @ - 1]
            /\ Goto(p, "acquire")
            /\ UNCHANGED <<call, job, snap, was>>
       ELSE Released(p)
    /\ UNCHANGED <<server, status, asked, connector, pool, swapped, held>>

-----------------------------------------------------------------------------
(* Acquiring a connection: the pool hands out an idle one, or dials.       *)

\* What a connection in hand is for: releaseIdle discards it (ErrBadConn).
Acquired(p) == IF job[p] = "statement" THEN "run" ELSE "release"

Take(p) ==
    /\ pc[p] = "acquire"
    /\ \E c \in idle :
         /\ idle' = idle \ {c}
         /\ IF job[p] = "statement"
            THEN held' = [held EXCEPT ![p] = c] /\ UNCHANGED login
            ELSE Discards(c) /\ UNCHANGED held
    /\ Goto(p, Acquired(p))
    /\ UNCHANGED <<server, status, asked, connector, call, job, budget, snap, swapped, was>>

\* retargetingConnector.Connect reads cur, the database and fallBack together.
Snapshot(p) ==
    /\ pc[p] = "acquire"
    /\ idle = {}
    /\ snap' = [snap EXCEPT ![p] = [db |-> target, fallBack |-> fallBack]]
    /\ swapped' = [swapped EXCEPT ![p] = FALSE]
    /\ Goto(p, "dial")
    /\ UNCHANGED <<server, status, asked, connector, pool, call, job, budget, held, was>>

\* A dial let in: a new connection, kept or (for releaseIdle) discarded.
LetIn(p) ==
    /\ IF job[p] = "statement"
       THEN \E c \in {d \in Conns : login[d] = None} :
              /\ held' = [held EXCEPT ![p] = c]
              /\ login' = [login EXCEPT ![c] = snap[p].db]
       ELSE UNCHANGED <<held, login>>
    /\ Goto(p, Acquired(p))
    /\ UNCHANGED <<status, call, job, budget, snap, was>>

\* Connect returns an error.
NotLetIn(p) ==
    /\ IF job[p] = "statement"
       THEN Fails(p)
       ELSE Released(p) /\ UNCHANGED status
    /\ UNCHANGED <<held, login>>

\* A refusal Connect answers with a move: loginDatabaseRefused, fallBack set,
\* and somewhere else to go.
MayFallBackEarly(p) == snap[p].db # Master                      \* a fault
MayFallBackNow(p) == snap[p].fallBack /\ target # Master         \* a fault
MayFallBack(p) == snap[p].fallBack /\ snap[p].db # Master

Dial(p) ==
    /\ pc[p] = "dial"
    /\ \/ Openable(snap[p].db) /\ LetIn(p)
       \/ /\ ~Openable(snap[p].db)
          /\ Goto(p, IF MayFallBack(p) THEN "refused" ELSE "giveUp")
          /\ UNCHANGED <<status, call, job, budget, snap, was, held, login>>
       \/ NotLetIn(p)                   \* a bad password, a network failure
    /\ UNCHANGED <<server, asked, connector, idle, swapped>>

\* retarget: from now on log in to db, if the pool still logs in to from.
retargetAnyway(from, db) ==                                     \* a fault
    \E ok \in Builds :
       /\ target' = IF ok THEN db ELSE target
       /\ swapped' = [p \in Procs |-> swapped[p] \/ ok]
retarget(from, db) ==
    IF target = from
    THEN \E ok \in Builds :
           /\ target' = IF ok THEN db ELSE target
           /\ swapped' = [p \in Procs |-> swapped[p] \/ ok]
    ELSE UNCHANGED <<target, swapped>>

FallsBack(p) ==
    /\ pc[p] = "refused"
    /\ retarget(snap[p].db, Master)
    /\ Goto(p, "moved")
    /\ UNCHANGED <<server, status, asked, fallBack, pool, call, job, budget, snap, held, was>>

\* next := c.current(); the refusal is the answer if that is still cur.
Current(p) ==
    /\ pc[p] = "moved"
    /\ IF swapped[p]
       THEN /\ snap' = [snap EXCEPT ![p].db = target]
            /\ Goto(p, "redial")
       ELSE UNCHANGED snap /\ Goto(p, "giveUp")
    /\ UNCHANGED <<server, status, asked, connector, pool, call, job, budget, swapped, held, was>>

Redial(p) ==
    /\ pc[p] = "redial"
    /\ \/ Openable(snap[p].db) /\ LetIn(p)
       \/ /\ ~Openable(snap[p].db)
          /\ Goto(p, "giveUp")
          /\ UNCHANGED <<status, call, job, budget, snap, was, held, login>>
       \/ NotLetIn(p)
    /\ UNCHANGED <<server, asked, connector, idle, swapped>>

\* Connect returns the refusal.
GiveUp(p) ==
    /\ pc[p] = "giveUp"
    /\ NotLetIn(p)
    /\ UNCHANGED <<server, asked, connector, idle, swapped>>

-----------------------------------------------------------------------------
(* The statement.                                                          *)

\* The connection goes back to the pool, or is broken and does not.
HandBack(p) ==
    /\ idle' = idle \cup {held[p]}
    /\ UNCHANGED login
Breaks(p) ==
    /\ Discards(held[p])
    /\ UNCHANGED idle

\* Using a pooled connection resets its session into the database it logged in
\* to; if that cannot be opened, the connection is no use.
RunFails(p) ==
    /\ pc[p] = "run"
    /\ \/ Openable(login[held[p]]) /\ HandBack(p)
       \/ Breaks(p)
    /\ held' = [held EXCEPT ![p] = None]
    /\ Fails(p)
    /\ UNCHANGED <<server, asked, connector, swapped>>

\* A read is answered; Connect's ping goes on to loadInfo, and that to the end.
RunRead(p) ==
    /\ pc[p] = "run" /\ ~Writes(p)
    /\ Openable(login[held[p]])
    /\ HandBack(p)
    /\ held' = [held EXCEPT ![p] = None]
    /\ \/ call[p].kind = "read" /\ End(p)
       \/ /\ call[p].kind = "ping"
          /\ call' = [call EXCEPT ![p] = Simple("info")]
          /\ Goto(p, "acquire")
          /\ UNCHANGED <<job, budget, snap, was>>
       \/ /\ call[p].kind = "info"
          /\ Goto(p, "opened")
          /\ UNCHANGED <<call, job, budget, snap, was>>
    /\ UNCHANGED <<server, status, asked, connector, swapped>>

\* enableFallBack, unless the edition has no master to fall back to.
enableFallBack(p) ==
    /\ pc[p] = "opened"
    /\ status' = "open"
    /\ fallBack' \in FallBacks
    /\ End(p)
    /\ UNCHANGED <<server, asked, target, pool, swapped, held>>

\* The server does what the write asks.
Written(c) ==
    \/ /\ c.kind = "close" /\ site[c.db] # "none"
       /\ \E s \in {"shut", "none"} : site' = [site EXCEPT ![c.db] = s]
    \/ /\ c.kind = "rename" /\ site[c.db] = "open" /\ site[c.to] = "none"
       /\ site' = [site EXCEPT ![c.db] = "none", ![c.to] = "open"]

\* The write runs; its caller hears of it, or loses the answer with the
\* connection.
RunWrite(p) ==
    /\ pc[p] = "run" /\ Writes(p)
    /\ Openable(login[held[p]])
    /\ Written(call[p])
    /\ everShut' = everShut \cup {call[p].db}
    /\ held' = [held EXCEPT ![p] = None]
    /\ \/ /\ HandBack(p)
          /\ was' = [was EXCEPT ![p] = target = call[p].db]
          /\ Goto(p, "left")
          /\ UNCHANGED <<status, call, job, budget, snap>>
       \/ Breaks(p) /\ Fails(p)
    /\ UNCHANGED <<asked, connector, swapped>>

-----------------------------------------------------------------------------
(* leftLoginDatabase: under one lock it asks whether the pool logs in to   *)
(* the written database; under another it moves the pool; then it releases *)
(* the idle connections.                                                   *)

leftLoginDatabase(p) ==
    /\ pc[p] = "left"
    /\ IF target = call[p].db
       THEN Goto(p, "retarget") /\ UNCHANGED <<call, job, budget, snap, was>>
       ELSE End(p)
    /\ UNCHANGED <<server, status, asked, connector, pool, swapped, held>>

LeavesIt(p) ==
    /\ pc[p] = "retarget"
    /\ retarget(call[p].db, call[p].to)
    /\ Goto(p, "count")
    /\ job' = [job EXCEPT ![p] = "after"]
    /\ UNCHANGED <<server, status, asked, fallBack, pool, call, budget, snap, held, was>>

-----------------------------------------------------------------------------
\* Another session opens or creates a database, closes or drops it.
Other ==
    /\ \E db \in Others, s \in {"open", "shut", "none"} :
         /\ s # site[db]
         /\ site' = [site EXCEPT ![db] = s]
         /\ everShut' = IF s = "open" THEN everShut ELSE everShut \cup {db}
    /\ UNCHANGED <<status, asked, connector, pool, proc>>

Step(p) ==
    \/ Count(p) \/ Release(p) \/ Take(p) \/ Snapshot(p) \/ Dial(p)
    \/ FallsBack(p) \/ Current(p) \/ Redial(p) \/ GiveUp(p)
    \/ RunFails(p) \/ RunRead(p) \/ RunWrite(p) \/ enableFallBack(p)
    \/ leftLoginDatabase(p) \/ LeavesIt(p)

Begin(p) == Open(p) \/ Read(p) \/ Write(p)

Next == Other \/ \E p \in Procs : Begin(p) \/ Step(p)

Spec == Init /\ [][Next]_vars

\* A goroutine in a call goes on with it: the driver, the runtime and the
\* server answer.  Nothing makes a caller begin a call, or another session act.
FairSpec == Spec /\ \A p \in Procs : WF_vars(Step(p))

-----------------------------------------------------------------------------
(* Properties.                                                             *)

\* "The pool does not move back" (InitialDatabase): once the pool logs in to
\* master it stays there, whatever rename or refusal is still being worked off.
NeverBack == target = Master => target' = Master

\* It gives up a database for master only if that database could not be opened
\* at some time: a refusal of the name a rename left never takes the pool off
\* the name it gave.
ForCause == target # Master /\ target' = Master => target \in everShut

\* However many refusals, renames and writes are worked off at once (retarget).
MovesForCause == [][NeverBack /\ ForCause]_vars

\* Until Connect has returned a Server, and for good if it returned an error,
\* the pool logs in where the caller asked (the fallBack field).
StartsWhereAsked == status # "open" => target = asked

\* A Connect that may fall back is never refused for its database, when there
\* are no renames to follow and a connector can always be built.
NeverRefused == \A p \in Procs : pc[p] = "giveUp" => ~snap[p].fallBack

\* Every call ends: releaseIdle's takes are bounded by the count it read on
\* entry, so goroutines refilling the pool cannot hold it, and Connect dials
\* at most twice.
Ends == \A p \in Procs : pc[p] # "rest" ~> pc[p] = "rest"

\* InitialDatabase: "renaming it moves it to the new name".
RenameFollowed ==
    [][\A p \in Procs :
         call[p].kind = "rename" /\ was[p] /\ call'[p].kind = "none"
            => target # Master]_vars
=============================================================================
