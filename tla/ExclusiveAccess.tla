-------------------------- MODULE ExclusiveAccess ---------------------------
(***************************************************************************)
(* The operations that need a database to themselves: Database.Drop,       *)
(* Detach, Rename and Server.Restore, each as the batch it sends (capture  *)
(* the access mode, take SINGLE_USER, run, release), the repair the client *)
(* makes after a batch that was cut short, and Database.SetUserAccess.     *)
(*                                                                         *)
(* A step is one T-SQL statement of a batch, or one round trip of the      *)
(* client.  A batch can be cut short before any of its statements and      *)
(* before its answer: a cancel, a deadline, a broken connection or a       *)
(* severity-20 error; what has run stays.  Clients share the server and    *)
(* nothing else.                                                           *)
(***************************************************************************)
EXTENDS Naturals

CONSTANTS
    Clients,        \* the callers, each running one operation or none
    Callers,        \* what they run: per caller, the kinds it may run
    MaxAttempts     \* userAccessAttempts

AllKinds == {"drop", "detach", "rename", "restore", "setAccess"}

ASSUME ExclusiveAssumption ==
    /\ Callers \subseteq [Clients -> SUBSET AllKinds]
    /\ MaxAttempts \in Nat \ {0}

\* UserAccess; the operations' database and a bystander; the name an operation
\* is given and the one a rename moves to.
Modes == {"MULTI_USER", "RESTRICTED_USER", "SINGLE_USER"}
Databases == {"db", "other"}
Names == {"old", "new"}
States == {"ONLINE", "STANDBY", "RESTORING"}

VARIABLES
    kinds,      \* the kinds each client may run
    managed,    \* the instance refuses SET SINGLE_USER (refusesSingleUser)
    holder,     \* the database of each name, or "none"
    state,      \* sys.databases.state and is_in_standby, in one
    mode,       \* sys.databases.user_access_desc
    meant,      \* the modes each database was last deliberately given
    pc,         \* where each client is
    req,        \* what each client runs
    before,     \* accessModeBefore's answer
    access,     \* the batch's @access
    closed,     \* the batch's @closed
    failed,     \* the batch's operation failed
    attempt,    \* SetUserAccess's tries
    guessed,    \* a repair released to a mode nobody read
    unreleased  \* a release, or a repair, was itself refused or lost

given == <<kinds, managed>>
server == <<given, holder, state, mode, meant>>
batch == <<before, access, closed, failed, attempt>>
vars == <<server, pc, req, batch, guessed, unreleased>>

\* An operation, and how it clears the database of other sessions: not at
\* all, by killing them, or by an exclusive batch.
Request == [kind : AllKinds, clear : {"none", "kill", "exclusive"}, to : Modes]
NoRequest == [kind |-> "none", clear |-> "none", to |-> "MULTI_USER"]

\* Drop, Rename and Restore kill where the instance refuses SET SINGLE_USER;
\* Detach does not ask.
Requests(c) ==
    {r \in Request :
        /\ r.kind \in kinds[c]
        /\ r.clear = "kill" => managed /\ r.kind \notin {"detach", "setAccess"}
        /\ r.clear = "exclusive" => \/ r.kind = "detach"
                                    \/ r.kind # "setAccess" /\ ~managed
        /\ r.kind # "setAccess" => r.to = "MULTI_USER"}

Phases == {"idle", "read", "capture", "take", "run", "release", "answer",
           "repair", "one", "alter", "wait", "done"}

TypeOK ==
    /\ kinds \in [Clients -> SUBSET AllKinds]
    /\ managed \in BOOLEAN
    /\ holder \in [Names -> Databases \cup {"none"}]
    /\ state \in [Databases -> States]
    /\ mode \in [Databases -> Modes]
    /\ meant \in [Databases -> SUBSET Modes]
    /\ pc \in [Clients -> Phases]
    /\ req \in [Clients -> Request \cup {NoRequest}]
    /\ before \in [Clients -> Modes \cup {"unread"}]
    /\ access \in [Clients -> Modes \cup {"none"}]
    /\ closed \in [Clients -> BOOLEAN]
    /\ failed \in [Clients -> BOOLEAN]
    /\ attempt \in [Clients -> 0..MaxAttempts]
    /\ guessed \in BOOLEAN
    /\ unreleased \in BOOLEAN

\* The new name of a rename may be another database's.
Init ==
    /\ kinds \in Callers
    /\ managed \in BOOLEAN
    /\ holder \in {[n \in Names |-> IF n = "old" THEN "db" ELSE h] : h \in {"none", "other"}}
    /\ state \in {[d \in Databases |-> IF d = "db" THEN s ELSE "ONLINE"] : s \in States}
    /\ mode \in {[d \in Databases |-> IF d = "db" THEN m ELSE "RESTRICTED_USER"] : m \in Modes}
    /\ meant = [d \in Databases |-> {mode[d]}]
    /\ pc = [c \in Clients |-> "idle"]
    /\ req = [c \in Clients |-> NoRequest]
    /\ before = [c \in Clients |-> "unread"]
    /\ access = [c \in Clients |-> "none"]
    /\ closed = [c \in Clients |-> FALSE]
    /\ failed = [c \in Clients |-> FALSE]
    /\ attempt = [c \in Clients |-> 0]
    /\ guessed = FALSE
    /\ unreleased = FALSE

-----------------------------------------------------------------------------
(* The server.                                                             *)

Exists(name) == holder[name] # "none"

\* ALTER DATABASE name SET an access mode is refused unless the database is
\* there, online and read-write (Msg 5011, 5052).
Alterable(name) == Exists(name) /\ state[holder[name]] = "ONLINE"

\* The ALTER.
SetMode(name, m) == mode' = [mode EXCEPT ![holder[name]] = m]

\* releaseMode and releaseAccessMode: RESTRICTED_USER kept, anything else, or
\* no mode read, MULTI_USER.
\* Fault: the release every batch had first.
ReleaseModeMulti(m) == "MULTI_USER"
ReleaseMode(m) == IF m = "RESTRICTED_USER" THEN m ELSE "MULTI_USER"

\* The operation itself takes effect.  A RESTORE replaces the access mode with
\* the backup's; a backup taken SINGLE_USER cannot be told apart from the
\* batch's own SINGLE_USER.
Drops == /\ Exists("old")
         /\ holder' = [holder EXCEPT !["old"] = "none"]
         /\ UNCHANGED <<state, mode, meant>>

Renames == /\ Exists("old") /\ ~Exists("new")
           /\ holder' = [holder EXCEPT !["old"] = "none", !["new"] = holder["old"]]
           /\ UNCHANGED <<state, mode, meant>>

Restores == /\ Exists("old")
            /\ \E s \in States, m \in Modes :
                 /\ state' = [state EXCEPT ![holder["old"]] = s]
                 /\ SetMode("old", m)
                 /\ meant' = [meant EXCEPT ![holder["old"]] =
                                IF m = "SINGLE_USER" THEN @ \cup {m} ELSE {m}]
            /\ UNCHANGED holder

Succeeds(kind) ==
    \/ kind \in {"drop", "detach"} /\ Drops
    \/ kind = "rename" /\ Renames
    \/ kind = "restore" /\ Restores

\* Or it fails: without effect, except that a RESTORE may leave the database
\* RESTORING.
Fails(kind) ==
    /\ \/ UNCHANGED state
       \/ kind = "restore" /\ Exists("old") /\ state' = [state EXCEPT ![holder["old"]] = "RESTORING"]
    /\ UNCHANGED <<holder, mode, meant>>

Goto(c, p) == pc' = [pc EXCEPT ![c] = p]

-----------------------------------------------------------------------------
(* The client, up to the batch.                                            *)

Start(c) ==
    /\ pc[c] = "idle"
    /\ \E r \in Requests(c) :
         /\ req' = [req EXCEPT ![c] = r]
         /\ Goto(c, CASE r.kind = "setAccess" -> "alter"
                      [] r.clear = "exclusive" -> "read"
                      [] OTHER -> "one")
    /\ UNCHANGED <<server, batch, guessed, unreleased>>

\* The bare statement, or the one led by killDatabaseSessionsBatch: no access
\* mode is changed, so none is repaired.
RunPlain(c) ==
    /\ pc[c] = "one"
    /\ Succeeds(req[c].kind) \/ Fails(req[c].kind)
    /\ Goto(c, "done")
    /\ UNCHANGED <<given, req, batch, guessed, unreleased>>

\* accessModeBefore: best effort.
ReadMode(c) ==
    /\ pc[c] = "read"
    /\ \E m \in {"unread"} \cup {mode[holder[n]] : n \in {"old"} \cap {k \in Names : Exists(k)}} :
         before' = [before EXCEPT ![c] = m]
    /\ Goto(c, "capture")
    /\ UNCHANGED <<server, req, access, closed, failed, attempt, guessed, unreleased>>

-----------------------------------------------------------------------------
(* The batch.                                                              *)

\* captureAccessMode.
Capture(c) ==
    /\ pc[c] = "capture"
    /\ access' = [access EXCEPT ![c] = IF Exists("old") THEN mode[holder["old"]] ELSE "none"]
    /\ Goto(c, "take")
    /\ UNCHANGED <<server, req, before, closed, failed, attempt, guessed, unreleased>>

\* SET SINGLE_USER WITH ROLLBACK IMMEDIATE succeeds.
TakeSingleUser(c) ==
    /\ pc[c] = "take"
    /\ Alterable("old")
    /\ ~managed
    /\ SetMode("old", "SINGLE_USER")
    /\ closed' = [closed EXCEPT ![c] = TRUE]
    /\ Goto(c, "run")
    /\ UNCHANGED <<given, holder, state, meant, req, before, access, failed,
                   attempt, guessed, unreleased>>

\* Or it is refused: @@ERROR keeps a drop, a detach and a rename from running;
\* a RESTORE runs all the same.
TakeRefused(c) ==
    /\ pc[c] = "take"
    /\ Alterable("old") \/ req[c].kind = "rename"
    /\ IF req[c].kind = "restore"
       THEN Goto(c, "run") /\ UNCHANGED failed
       ELSE Goto(c, "answer") /\ failed' = [failed EXCEPT ![c] = TRUE]
    /\ UNCHANGED <<server, req, before, access, closed, attempt, guessed, unreleased>>

\* Or the database is in a state that refuses it: one in STANDBY has its
\* sessions killed, another has none.
TakeNothing(c) ==
    /\ pc[c] = "take"
    /\ ~Alterable("old")
    /\ req[c].kind # "rename"
    /\ Goto(c, "run")
    /\ UNCHANGED <<server, req, batch, guessed, unreleased>>

\* A drop or a detach releases in CATCH, a rename on either way out, a restore
\* what is online and SINGLE_USER.
Releases(c, succeeded) ==
    /\ closed[c]
    /\ CASE req[c].kind \in {"drop", "detach"} -> ~succeeded /\ Exists("old")
         [] req[c].kind = "rename" -> TRUE
         [] OTHER -> Exists("old") /\ state'[holder["old"]] = "ONLINE"
                                   /\ mode'[holder["old"]] = "SINGLE_USER"

Run(c) ==
    /\ pc[c] = "run"
    /\ \E succeeded \in BOOLEAN :
         /\ IF succeeded THEN Succeeds(req[c].kind) ELSE Fails(req[c].kind)
         /\ failed' = [failed EXCEPT ![c] = ~succeeded]
         /\ Goto(c, IF Releases(c, succeeded) THEN "release" ELSE "answer")
    /\ UNCHANGED <<given, req, before, access, closed, attempt, guessed, unreleased>>

\* Fault: a failed rename is released under the name it was to have.
ReleasedNameNew(c) == IF req[c].kind = "rename" THEN "new" ELSE "old"

\* After a rename, the new name; never the new name of one that failed.
ReleasedName(c) == IF req[c].kind = "rename" /\ ~failed[c] THEN "new" ELSE "old"

\* releaseAccessMode: SINGLE_USER is left as it is.
Release(c) ==
    /\ pc[c] = "release"
    /\ \/ access[c] = "SINGLE_USER" /\ UNCHANGED <<mode, unreleased>>
       \/ /\ access[c] # "SINGLE_USER"
          /\ Alterable(ReleasedName(c))
          /\ SetMode(ReleasedName(c), ReleaseMode(access[c]))
          /\ UNCHANGED unreleased
       \/ /\ access[c] # "SINGLE_USER"
          /\ unreleased' = TRUE
          /\ UNCHANGED mode
    /\ Goto(c, "answer")
    /\ UNCHANGED <<given, holder, state, meant, req, batch, guessed>>

\* The batch's own result or its ordinary error reaches the client.
Answer(c) ==
    /\ pc[c] = "answer"
    /\ Goto(c, "done")
    /\ UNCHANGED <<server, req, batch, guessed, unreleased>>

-----------------------------------------------------------------------------
(* The repair.                                                             *)

InBatch == {"capture", "take", "run", "release", "answer"}

\* Fault: an error is an error, and nothing is repaired.
CutShortUnrepaired(c) ==
    /\ pc[c] \in InBatch
    /\ Goto(c, "done")
    /\ UNCHANGED <<server, req, batch, guessed, unreleased>>

\* batchCutShort: the batch was not sent, or ended where it stood, or its
\* answer was lost.
CutShort(c) ==
    /\ pc[c] \in InBatch
    /\ Goto(c, "repair")
    /\ UNCHANGED <<server, req, batch, guessed, unreleased>>

\* The name a repair is of: after a rename, the old one if it still exists.
RepairedName(c) ==
    IF req[c].kind = "rename" /\ ~Exists("old") THEN "new" ELSE "old"

\* A repair after a restore is of a database that is SINGLE_USER; every
\* repair is of one that was not when its mode was read.
Repairs(c) ==
    /\ before[c] # "SINGLE_USER"
    /\ Alterable(RepairedName(c))
    /\ req[c].kind = "restore" => mode[holder[RepairedName(c)]] = "SINGLE_USER"

\* restoreAccessMode, restoreAccessModeAfterRename and releaseAfterRestore:
\* once, off the caller's context, best effort.
Repair(c) ==
    /\ pc[c] = "repair"
    /\ \/ /\ Repairs(c)
          /\ SetMode(RepairedName(c), ReleaseMode(before[c]))
          /\ guessed' = (guessed \/ before[c] = "unread")
          /\ UNCHANGED unreleased
       \/ /\ Repairs(c)
          /\ unreleased' = TRUE
          /\ UNCHANGED <<mode, guessed>>
       \/ ~Repairs(c) /\ UNCHANGED <<mode, guessed, unreleased>>
    /\ Goto(c, "done")
    /\ UNCHANGED <<given, holder, state, meant, req, batch>>

-----------------------------------------------------------------------------
(* SetUserAccess.                                                          *)

\* The ALTER at DEADLOCK_PRIORITY HIGH takes, whether or not its answer arrives.
AlterTakes(c) ==
    /\ pc[c] = "alter"
    /\ Alterable("old")
    /\ managed => req[c].to # "SINGLE_USER"
    /\ SetMode("old", req[c].to)
    /\ meant' = [meant EXCEPT ![holder["old"]] = {req[c].to}]
    /\ attempt' = [attempt EXCEPT ![c] = @ + 1]
    /\ Goto(c, "done")
    /\ UNCHANGED <<given, holder, state, req, before, access, closed, failed,
                   guessed, unreleased>>

AlterFails(c) ==
    /\ pc[c] = "alter"
    /\ attempt' = [attempt EXCEPT ![c] = @ + 1]
    /\ Goto(c, "done")
    /\ UNCHANGED <<server, req, before, access, closed, failed, guessed, unreleased>>

\* Fault: contention is tried again however often it was.
AlterContendedForever(c) ==
    /\ pc[c] = "alter"
    /\ Exists("old")
    /\ attempt' = [attempt EXCEPT ![c] = (@ + 1) % MaxAttempts]
    /\ Goto(c, "wait")
    /\ UNCHANGED <<server, req, before, access, closed, failed, guessed, unreleased>>

\* isUserAccessContention: refused for another session's sake, nothing changed.
AlterContended(c) ==
    /\ pc[c] = "alter"
    /\ Exists("old")
    /\ attempt' = [attempt EXCEPT ![c] = @ + 1]
    /\ Goto(c, IF attempt'[c] >= MaxAttempts THEN "done" ELSE "wait")
    /\ UNCHANGED <<server, req, before, access, closed, failed, guessed, unreleased>>

\* The pause before the next try, or the end of the context.
Wait(c) ==
    /\ pc[c] = "wait"
    /\ Goto(c, "alter") \/ Goto(c, "done")
    /\ UNCHANGED <<server, req, batch, guessed, unreleased>>

-----------------------------------------------------------------------------

Batch(c) ==
    \/ Capture(c) \/ TakeSingleUser(c) \/ TakeRefused(c) \/ TakeNothing(c)
    \/ Run(c) \/ Release(c)

Client(c) ==
    \/ RunPlain(c) \/ ReadMode(c) \/ Batch(c) \/ Answer(c) \/ CutShort(c) \/ Repair(c)
    \/ AlterTakes(c) \/ AlterFails(c) \/ AlterContended(c) \/ Wait(c)

AllDone == \A c \in Clients : kinds[c] = {} \/ pc[c] = "done"
Finished == AllDone /\ UNCHANGED vars

Next == (\E c \in Clients : Start(c) \/ Client(c)) \/ Finished

Spec == Init /\ [][Next]_vars

\* A call that was made is driven to its end: every round trip answers or fails.
FairSpec == Spec /\ \A c \in Clients : WF_vars(Client(c))

-----------------------------------------------------------------------------
(* Properties.                                                             *)

\* When a caller's operation is over, and no other's was on its way at the same
\* time, a database that is still there and online has the access mode it was meant
\* to have: the one it had, or the one a restored backup or SetUserAccess gave it
\* (Drop: "puts the database back to the user-access mode it had").  Excepted are a
\* release that was itself refused, and a repair that had no mode to go by.
Restored ==
    \A n \in Names :
        Exists(n) /\ state[holder[n]] = "ONLINE" => mode[holder[n]] \in meant[holder[n]]
Alone == \E c \in Clients : \A d \in Clients \ {c} : kinds[d] = {}

\* That holds of every operation a caller makes alone; and the database that owns
\* the name its rename asked for keeps its own mode throughout ("the other database is never touched").
AccessKept ==
    Alone => /\ AllDone /\ ~guessed /\ ~unreleased => Restored
             /\ mode["other"] = "RESTRICTED_USER"

\* At no moment, and however many callers drop, detach and rename it at once, is
\* the database open to more users than it was meant to be: a batch and its repair
\* only ever make it SINGLE_USER or give it back a mode it had (captureAccessMode's
\* comment).
ForcedOnly == \A c \in Clients : kinds[c] \cap {"restore", "setAccess"} = {}
NeverOpened ==
    ForcedOnly /\ ~guessed => mode["db"] \in meant["db"] \cup {"SINGLE_USER"}

\* Every operation ends.
Ends == \A c \in Clients : pc[c] # "idle" ~> pc[c] = "done"

\* A refused operation leaves the access mode alone whether or not the mode
\* could be read first ("a database deliberately left RESTRICTED_USER whose
\* forced drop was refused must not come back MULTI_USER").
RestrictedStaysRestricted ==
    \A d \in Databases : meant[d] = {"RESTRICTED_USER"} => mode[d] # "MULTI_USER"
=============================================================================
