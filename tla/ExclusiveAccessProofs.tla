----------------------- MODULE ExclusiveAccessProofs ------------------------
(***************************************************************************)
(* Proofs about ExclusiveAccess for any number of callers: the type        *)
(* invariant, and that no mix of drops, detaches and renames, however they *)
(* overlap and wherever they are cut short, ever opens the database to     *)
(* more users than it was meant for.                                       *)
(***************************************************************************)
EXTENDS ExclusiveAccess, TLAPS

\* SetUserAccess has a try left until it has used them.
TriesLeft == \A c \in Clients : pc[c] \in {"idle", "alter", "wait"} => attempt[c] < MaxAttempts

LEMMA InitType == Init => TypeOK /\ TriesLeft
  <1> SUFFICES ASSUME Init PROVE TypeOK /\ TriesLeft
    OBVIOUS
  <1> USE ExclusiveAssumption DEF Init
  <1>1. /\ holder \in [Names -> Databases \cup {"none"}]
        /\ state \in [Databases -> States]
        /\ mode \in [Databases -> Modes]
    BY DEF Names, Databases, States, Modes
  <1>2. meant \in [Databases -> SUBSET Modes]
    BY <1>1
  <1>3. /\ pc \in [Clients -> Phases]
        /\ req \in [Clients -> Request \cup {NoRequest}]
        /\ before \in [Clients -> Modes \cup {"unread"}]
        /\ access \in [Clients -> Modes \cup {"none"}]
        /\ closed \in [Clients -> BOOLEAN] /\ failed \in [Clients -> BOOLEAN]
        /\ managed \in BOOLEAN /\ guessed \in BOOLEAN /\ unreleased \in BOOLEAN
    BY DEF Phases
  <1>4. attempt \in [Clients -> 0..MaxAttempts] /\ TriesLeft
    BY DEF TriesLeft
  <1> QED
    BY <1>1, <1>2, <1>3, <1>4 DEF TypeOK

\* Where a step may take a client, and the operation's effect on the types.
LEMMA EffectType ==
  ASSUME TypeOK, NEW kind \in AllKinds, Succeeds(kind) \/ Fails(kind)
  PROVE  /\ holder' \in [Names -> Databases \cup {"none"}]
         /\ state' \in [Databases -> States]
         /\ mode' \in [Databases -> Modes]
         /\ meant' \in [Databases -> SUBSET Modes]
  <1> USE DEF TypeOK, Exists, SetMode
  <1>1. CASE Drops
    BY <1>1 DEF Drops, Names
  <1>2. CASE Renames
    BY <1>2 DEF Renames, Names
  <1>3. CASE Restores
    <2>1. PICK s \in States, m \in Modes :
            /\ state' = [state EXCEPT ![holder["old"]] = s]
            /\ mode' = [mode EXCEPT ![holder["old"]] = m]
            /\ meant' = [meant EXCEPT ![holder["old"]] =
                           IF m = "SINGLE_USER" THEN @ \cup {m} ELSE {m}]
      BY <1>3 DEF Restores
    <2>2. UNCHANGED holder
      BY <1>3 DEF Restores
    <2> QED
      BY <2>1, <2>2
  <1>4. CASE Fails(kind)
    BY <1>4 DEF Fails, States
  <1> QED
    BY <1>1, <1>2, <1>3, <1>4 DEF Succeeds

LEMMA StepType == TypeOK /\ TriesLeft /\ [Next]_vars => TypeOK' /\ TriesLeft'
  <1> SUFFICES ASSUME TypeOK, TriesLeft, [Next]_vars PROVE TypeOK' /\ TriesLeft'
    OBVIOUS
  <1> USE ExclusiveAssumption DEF given, server, batch, TriesLeft
  <1>1. CASE UNCHANGED vars
    BY <1>1 DEF TypeOK, vars
  <1>2. CASE \E c \in Clients : Start(c) \/ Client(c)
    <2> PICK c \in Clients : Start(c) \/ Client(c)
      BY <1>2
    <2>1. CASE Start(c)
      <3>1. PICK r \in Requests(c) : req' = [req EXCEPT ![c] = r]
        BY <2>1 DEF Start
      <3>2. r \in Request
        BY DEF Requests
      <3>3. req' \in [Clients -> Request \cup {NoRequest}]
        BY <3>1, <3>2 DEF TypeOK
      <3>4. \E p \in {"alter", "read", "one"} : pc' = [pc EXCEPT ![c] = p]
        BY <2>1 DEF Start, Goto
      <3>5. pc' \in [Clients -> Phases] /\ TriesLeft'
        BY <2>1, <3>4 DEF Start, TypeOK, Phases
      <3> QED
        BY <2>1, <3>3, <3>5 DEF Start, TypeOK
    <2>2. CASE RunPlain(c)
      <3>1. /\ Succeeds(req[c].kind) \/ Fails(req[c].kind)
            /\ UNCHANGED <<given, req, batch, guessed, unreleased>>
            /\ pc' = [pc EXCEPT ![c] = "done"]
        BY <2>2 DEF RunPlain, Goto
      <3>2. CASE req[c].kind \in AllKinds
        BY <3>1, <3>2, EffectType DEF TypeOK, Phases
      <3>3. CASE req[c].kind = "none"
        BY <3>1, <3>3 DEF Succeeds, Fails, TypeOK, Phases
      <3>4. req[c].kind \in AllKinds \cup {"none"}
        BY DEF TypeOK, Request, NoRequest
      <3> QED
        BY <3>2, <3>3, <3>4
    <2>3. CASE ReadMode(c)
      <3>1. PICK m \in {"unread"} \cup {mode[holder[n]] : n \in {"old"} \cap {k \in Names : Exists(k)}} :
              before' = [before EXCEPT ![c] = m]
        BY <2>3 DEF ReadMode
      <3>2. m \in Modes \cup {"unread"}
        BY DEF TypeOK, Exists, Names
      <3> QED
        BY <2>3, <3>1, <3>2 DEF ReadMode, Goto, TypeOK, Phases
    <2>4. CASE Capture(c)
      BY <2>4 DEF Capture, Goto, TypeOK, Phases, Exists, Names
    <2>5. CASE TakeSingleUser(c)
      BY <2>5 DEF TakeSingleUser, Goto, TypeOK, Phases, SetMode, Alterable, Exists, Names, Modes
    <2>6. CASE TakeRefused(c) \/ TakeNothing(c) \/ Answer(c) \/ CutShort(c) \/ Wait(c)
      BY <2>6 DEF TakeRefused, TakeNothing, Answer, CutShort, Wait, Goto, TypeOK, Phases
    <2>7. CASE Run(c)
      <3>1. PICK s \in BOOLEAN :
              /\ IF s THEN Succeeds(req[c].kind) ELSE Fails(req[c].kind)
              /\ failed' = [failed EXCEPT ![c] = ~s]
              /\ pc' = [pc EXCEPT ![c] = IF Releases(c, s) THEN "release" ELSE "answer"]
        BY <2>7 DEF Run, Goto
      <3>2. /\ failed' \in [Clients -> BOOLEAN] /\ pc' \in [Clients -> Phases]
        BY <3>1 DEF TypeOK, Phases
      <3>3. UNCHANGED <<given, req, before, access, closed, attempt, guessed, unreleased>>
        BY <2>7 DEF Run
      <3>4. CASE req[c].kind \in AllKinds
        BY <3>1, <3>2, <3>3, <3>4, EffectType DEF TypeOK
      <3>5. CASE req[c].kind = "none"
        BY <3>1, <3>2, <3>3, <3>5 DEF Succeeds, Fails, TypeOK
      <3>6. req[c].kind \in AllKinds \cup {"none"}
        BY DEF TypeOK, Request, NoRequest
      <3> QED
        BY <3>4, <3>5, <3>6
    <2>8. CASE Release(c)
      <3>1. ReleaseMode(access[c]) \in Modes /\ ReleasedName(c) \in Names
        BY DEF ReleaseMode, ReleasedName, Modes, Names
      <3>2. \/ UNCHANGED mode
            \/ mode' = [mode EXCEPT ![holder[ReleasedName(c)]] = ReleaseMode(access[c])]
        BY <2>8 DEF Release, SetMode
      <3>3. mode' \in [Databases -> Modes] /\ unreleased' \in BOOLEAN
        BY <2>8, <3>1, <3>2 DEF Release, TypeOK
      <3> QED
        BY <2>8, <3>3 DEF Release, Goto, TypeOK, Phases
    <2>9. CASE Repair(c)
      <3>1. ReleaseMode(before[c]) \in Modes /\ RepairedName(c) \in Names
        BY DEF ReleaseMode, RepairedName, Modes, Names
      <3>2. \/ UNCHANGED mode
            \/ mode' = [mode EXCEPT ![holder[RepairedName(c)]] = ReleaseMode(before[c])]
        BY <2>9 DEF Repair, SetMode
      <3>3. /\ mode' \in [Databases -> Modes]
            /\ unreleased' \in BOOLEAN /\ guessed' \in BOOLEAN
        BY <2>9, <3>1, <3>2 DEF Repair, TypeOK
      <3> QED
        BY <2>9, <3>3 DEF Repair, Goto, TypeOK, Phases
    <2>10. CASE AlterTakes(c)
      <3>1. req[c].to \in Modes
        BY DEF TypeOK, Request, NoRequest, Modes
      <3>2. mode' \in [Databases -> Modes] /\ meant' \in [Databases -> SUBSET Modes]
        BY <2>10, <3>1 DEF AlterTakes, SetMode, TypeOK
      <3> QED
        BY <2>10, <3>2 DEF AlterTakes, Goto, TypeOK, Phases
    <2>11. CASE AlterFails(c)
      BY <2>11 DEF AlterFails, Goto, TypeOK, Phases
    <2>12. CASE AlterContended(c)
      BY <2>12 DEF AlterContended, Goto, TypeOK, Phases
    <2> QED
      BY <2>1, <2>2, <2>3, <2>4, <2>5, <2>6, <2>7, <2>8, <2>9, <2>10, <2>11,
         <2>12 DEF Client, Batch
  <1> QED
    BY <1>1, <1>2 DEF Next, Finished

\* Whatever the callers run, the variables keep their types.
THEOREM ExclusiveTypeCorrect == Spec => []TypeOK
  <1>1. (TypeOK /\ TriesLeft) /\ [Next]_vars => (TypeOK /\ TriesLeft)'
    BY StepType
  <1> QED
    BY InitType, <1>1, PTL DEF Spec

-----------------------------------------------------------------------------
(***************************************************************************)
(* Drops, detaches and renames.  They never change what a database is      *)
(* meant to be, so every mode one of them read, before its batch or in it, *)
(* is one the database was meant to have or another's SINGLE_USER.         *)
(***************************************************************************)

Allowed == meant["db"] \cup {"SINGLE_USER"}

\* What NeverOpened needs to be inductive: the subject's name only ever holds
\* the database; the modes read are allowed; and a batch that took SINGLE_USER
\* had captured a mode.
Harmless ==
    /\ holder["old"] \in {"db", "none"}
    /\ NeverOpened
    /\ \A c \in Clients :
         /\ req[c].kind \notin {"restore", "setAccess"}
         /\ pc[c] \notin {"alter", "wait"}
         /\ ~guessed => before[c] \in Allowed \cup {"unread"}
         /\ ~guessed => access[c] \in Allowed \cup {"none"}
         /\ pc[c] \in {"idle", "read", "capture", "take"} => ~closed[c]
         /\ pc[c] = "take" /\ access[c] = "none" => ~Exists("old")
         /\ pc[c] = "release" => closed[c]
         /\ closed[c] => access[c] # "none"

LEMMA InitHarmless == Init => Harmless
  BY DEF Init, Harmless, NeverOpened, Allowed, Names, Databases, NoRequest, Exists

\* A mode that was read, and is not SINGLE_USER, is released as it was.
LEMMA ReleaseKeeps ==
  ASSUME TypeOK, NEW m \in Allowed, m # "SINGLE_USER"
  PROVE  ReleaseMode(m) \in Allowed
  BY DEF TypeOK, Allowed, ReleaseMode, Modes, Databases

\* Setting an allowed mode, on whatever name, leaves the database's allowed.
LEMMA SetAllowed ==
  ASSUME TypeOK, mode["db"] \in Allowed, NEW m \in Allowed, NEW name,
         mode' = [mode EXCEPT ![holder[name]] = m]
  PROVE  mode'["db"] \in Allowed
  BY DEF TypeOK, Databases

LEMMA KindsStay == [Next]_vars => kinds' = kinds
  BY DEF Next, Start, Client, Batch, Finished, vars, server, given, RunPlain, ReadMode, Capture,
         TakeSingleUser, TakeRefused, TakeNothing, Run, Release, Answer, CutShort, Repair,
         AlterTakes, AlterFails, AlterContended, Wait

LEMMA StepHarmless ==
  ASSUME ForcedOnly
  PROVE  TypeOK /\ Harmless /\ [Next]_vars => Harmless'
  <1> SUFFICES ASSUME TypeOK, Harmless, [Next]_vars PROVE Harmless'
    OBVIOUS
  <1>0. ForcedOnly'
    BY KindsStay DEF ForcedOnly
  <1> USE DEF given, server, batch, Allowed, Exists
  <1>1. CASE UNCHANGED vars
    BY <1>1 DEF vars, Harmless, NeverOpened
  <1>2. CASE \E c \in Clients : Start(c) \/ Client(c)
    <2> PICK c \in Clients : Start(c) \/ Client(c)
      BY <1>2
    <2> DEFINE Mine == /\ req[c].kind \notin {"restore", "setAccess"}
                       /\ pc[c] \notin {"alter", "wait"}
    <2>0. Mine
      BY DEF Harmless
    <2>1. CASE Start(c)
      <3>1. PICK r \in Requests(c) :
              /\ req' = [req EXCEPT ![c] = r]
              /\ pc' = [pc EXCEPT ![c] = CASE r.kind = "setAccess" -> "alter"
                                           [] r.clear = "exclusive" -> "read"
                                           [] OTHER -> "one"]
        BY <2>1 DEF Start, Goto
      <3>2. r.kind \notin {"restore", "setAccess"}
        BY DEF Requests, ForcedOnly
      <3>3. pc' = [pc EXCEPT ![c] = "read"] \/ pc' = [pc EXCEPT ![c] = "one"]
        BY <3>1, <3>2
      <3> QED
        BY <2>1, <3>1, <3>2, <3>3 DEF Start, Harmless, NeverOpened, TypeOK
    <2>2. CASE RunPlain(c)
      <3>1. /\ UNCHANGED <<mode, meant>> /\ holder'["old"] \in {holder["old"], "none"}
            /\ pc' = [pc EXCEPT ![c] = "done"]
            /\ UNCHANGED <<given, req, batch, guessed, unreleased>>
        BY <2>2, <2>0 DEF RunPlain, Goto, Succeeds, Fails, Drops, Renames, TypeOK, Names
      <3> QED
        BY <3>1 DEF Harmless, NeverOpened, TypeOK
    <2>3. CASE ReadMode(c)
      <3>1. PICK m \in {"unread"} \cup {mode[holder[n]] : n \in {"old"} \cap {k \in Names : Exists(k)}} :
              before' = [before EXCEPT ![c] = m]
        BY <2>3 DEF ReadMode
      <3>2. ~guessed => m \in Allowed \cup {"unread"}
        BY DEF Harmless, NeverOpened
      <3> QED
        BY <2>3, <3>1, <3>2 DEF ReadMode, Goto, Harmless, NeverOpened, TypeOK
    <2>4. CASE Capture(c)
      <3>1. ~guessed => access'[c] \in Allowed \cup {"none"}
        BY <2>4 DEF Capture, Harmless, NeverOpened, TypeOK
      <3>2. access'[c] = "none" => ~Exists("old")
        BY <2>4 DEF Capture, TypeOK, Modes, Names
      <3> QED
        BY <2>4, <3>1, <3>2 DEF Capture, Goto, Harmless, NeverOpened, TypeOK
    <2>5. CASE TakeSingleUser(c)
      <3>1. access[c] # "none"
        BY <2>5 DEF TakeSingleUser, Alterable, Harmless
      <3>2. mode'["db"] \in {mode["db"], "SINGLE_USER"}
        BY <2>5 DEF TakeSingleUser, SetMode, TypeOK, Databases
      <3> QED
        BY <2>5, <3>1, <3>2 DEF TakeSingleUser, Goto, Harmless, NeverOpened, TypeOK
    <2>6. CASE TakeRefused(c) \/ TakeNothing(c) \/ Answer(c) \/ CutShort(c)
      BY <2>6 DEF TakeRefused, TakeNothing, Answer, CutShort, Goto, Harmless, NeverOpened, TypeOK
    <2>7. CASE Run(c)
      <3>1. PICK s \in BOOLEAN :
              /\ IF s THEN Succeeds(req[c].kind) ELSE Fails(req[c].kind)
              /\ pc' = [pc EXCEPT ![c] = IF Releases(c, s) THEN "release" ELSE "answer"]
        BY <2>7 DEF Run, Goto
      <3>2. UNCHANGED <<mode, meant>> /\ holder'["old"] \in {holder["old"], "none"}
        BY <3>1, <2>0 DEF Succeeds, Fails, Drops, Renames, TypeOK, Names
      <3>3. pc'[c] = "answer" \/ (pc'[c] = "release" /\ closed[c])
        BY <3>1 DEF Releases, TypeOK
      <3>4. UNCHANGED <<req, before, access, closed, guessed>>
        BY <2>7 DEF Run
      <3> QED
        BY <3>1, <3>2, <3>3, <3>4 DEF Harmless, NeverOpened, TypeOK
    <2>8. CASE Release(c)
      <3>1. ~guessed => mode'["db"] \in Allowed
        <4>1. CASE UNCHANGED mode
          BY <4>1 DEF Harmless, NeverOpened
        <4>2. CASE /\ access[c] # "SINGLE_USER"
                   /\ mode' = [mode EXCEPT ![holder[ReleasedName(c)]] = ReleaseMode(access[c])]
          <5>1. access[c] # "none"
            BY <2>8 DEF Release, Harmless
          <5>2. ~guessed => ReleaseMode(access[c]) \in Allowed
            BY <4>2, <5>1, ReleaseKeeps DEF Harmless
          <5> QED
            BY <4>2, <5>2, SetAllowed DEF Harmless, NeverOpened
        <4> QED
          BY <2>8, <4>1, <4>2 DEF Release, SetMode
      <3> QED
        BY <2>8, <3>1 DEF Release, Goto, Harmless, NeverOpened, TypeOK
    <2>9. CASE Repair(c)
      <3>1. ~guessed' => mode'["db"] \in Allowed
        <4>1. CASE UNCHANGED <<mode, guessed>>
          BY <4>1 DEF Harmless, NeverOpened
        <4>2. CASE /\ before[c] # "SINGLE_USER"
                   /\ guessed' = (guessed \/ before[c] = "unread")
                   /\ mode' = [mode EXCEPT ![holder[RepairedName(c)]] = ReleaseMode(before[c])]
          <5>1. ~guessed' => ReleaseMode(before[c]) \in Allowed
            BY <4>2, ReleaseKeeps DEF Harmless
          <5> QED
            BY <4>2, <5>1, SetAllowed DEF Harmless, NeverOpened
        <4> QED
          BY <2>9, <4>1, <4>2 DEF Repair, Repairs, SetMode
      <3>2. guessed => guessed'
        BY <2>9 DEF Repair, TypeOK
      <3> QED
        BY <2>9, <3>1, <3>2 DEF Repair, Goto, Harmless, NeverOpened, TypeOK
    <2>10. CASE AlterTakes(c) \/ AlterFails(c) \/ AlterContended(c) \/ Wait(c)
      BY <2>10, <2>0 DEF AlterTakes, AlterFails, AlterContended, Wait
    <2> QED
      BY <2>1, <2>2, <2>3, <2>4, <2>5, <2>6, <2>7, <2>8, <2>9, <2>10 DEF Client, Batch
  <1> QED
    BY <1>1, <1>2 DEF Next, Finished

\* However many callers drop, detach and rename the database at once, and
\* wherever their batches are cut short, it is never open to more users than
\* it was meant for, unless a repair had no mode to go by.
THEOREM NeverOpenedByForce == Spec => []NeverOpened
  <1> DEFINE Inv == TypeOK /\ TriesLeft /\ (ForcedOnly => Harmless)
  <1>1. Init => Inv
    BY InitType, InitHarmless
  <1>2. Inv /\ [Next]_vars => Inv'
    <2>1. [Next]_vars /\ ForcedOnly' => ForcedOnly
      BY KindsStay DEF ForcedOnly
    <2> QED
      BY <2>1, StepType, StepHarmless
  <1>3. Inv => NeverOpened
    BY DEF Harmless, NeverOpened
  <1> QED
    BY <1>1, <1>2, <1>3, PTL DEF Spec

-----------------------------------------------------------------------------
(***************************************************************************)
(* One caller alone: the mode the database had comes back, and the one     *)
(* that owns the name a rename asks for keeps its own.                     *)
(***************************************************************************)

\* While there is a database to have a mode, and one that can be set.
Settled ==
    (holder["old"] = "db" \/ holder["new"] = "db") /\ state["db"] = "ONLINE"
        => mode["db"] \in meant["db"]

\* Where the database is: renamed, it has the new name.
Placed(c) ==
    /\ holder["old"] \in {"db", "none"}
    /\ holder["new"] = "db" => req[c].kind = "rename" /\ holder["old"] = "none"
    /\ pc[c] \in InBatch \cup {"repair"} /\ req[c].kind = "rename" /\ holder["old"] = "none"
          => holder["new"] = "db"
    /\ pc[c] \in {"idle", "read", "capture", "take", "run", "one", "alter", "wait"}
          => holder["old"] = "db"
    /\ mode["other"] = "RESTRICTED_USER" /\ meant["other"] = {"RESTRICTED_USER"}

\* The batch has yet to change anything.
Untouched(c) ==
    /\ pc[c] \in {"idle", "read", "capture", "take"}
          => ~closed[c] /\ ~failed[c] /\ meant["db"] = {mode["db"]}
    /\ pc[c] \in {"one", "alter", "wait"} => mode["db"] \in meant["db"]
    /\ pc[c] = "take" => access[c] = mode["db"]

\* It may be cut short where it stands: the database is as it was meant to be, or
\* closed by the batch, and what the repair would go by is what it was meant to be,
\* unless a restore has made something else of it.
Repairable(c) ==
    /\ pc[c] \in InBatch \cup {"read", "repair"}
          => req[c].kind \in {"drop", "detach", "rename", "restore"}
    /\ pc[c] \in InBatch \cup {"repair"} =>
          /\ Settled \/ mode["db"] = "SINGLE_USER"
          /\ \/ before[c] \in meant["db"] \cup {"unread"}
             \/ /\ pc[c] \in {"answer", "repair"}
                /\ req[c].kind = "restore" /\ mode["db"] # "SINGLE_USER"

\* And it releases what it closed.
Releasing(c) ==
    /\ pc[c] = "run" =>
          /\ ~failed[c] /\ meant["db"] = {access[c]}
          /\ closed[c] => mode["db"] = "SINGLE_USER" /\ state["db"] = "ONLINE"
          /\ ~closed[c] => mode["db"] = access[c] /\ req[c].kind # "rename"
    /\ pc[c] = "release" =>
          holder[ReleasedName(c)] = "db" /\ mode["db"] = "SINGLE_USER" /\ access[c] \in meant["db"]
    /\ pc[c] = "answer" => Settled \/ unreleased
    /\ pc[c] = "done" => Settled \/ unreleased \/ guessed

Course(c) == Placed(c) /\ Untouched(c) /\ Repairable(c) /\ Releasing(c)

\* Who may run nothing does nothing.
Bystanders == \A c \in Clients : kinds[c] = {} => pc[c] = "idle"
OnlyOne(c) == \A d \in Clients \ {c} : kinds[d] = {}
Courses == Bystanders /\ \A c \in Clients : OnlyOne(c) => Course(c)

LEMMA InitCourses == Init => Courses
<1> SUFFICES ASSUME Init PROVE Courses
  OBVIOUS
<1>1. /\ holder["old"] = "db" /\ holder["new"] # "db" /\ meant["db"] = {mode["db"]}
      /\ mode["other"] = "RESTRICTED_USER" /\ meant["other"] = {"RESTRICTED_USER"}
  BY DEF Init, Names, Databases
<1>2. \A c \in Clients : pc[c] = "idle" /\ ~closed[c] /\ ~failed[c]
  BY DEF Init
<1> QED BY <1>1, <1>2 DEF Courses, Bystanders, Course, Placed, Untouched, Repairable, Releasing, InBatch

\* A mode set on the name the database has is set on the database.
LEMMA SetOnIt ==
  ASSUME TypeOK, NEW name, holder[name] = "db", NEW m, SetMode(name, m)
  PROVE  mode'["db"] = m /\ mode'["other"] = mode["other"]
  BY DEF TypeOK, SetMode, Databases

\* A mode that was read, and is not SINGLE_USER, is released as it was.
LEMMA ReleaseExact ==
  ASSUME NEW m \in Modes, m # "SINGLE_USER"
  PROVE  ReleaseMode(m) = m
  BY DEF ReleaseMode, Modes

LEMMA StartCourse ==
  ASSUME TypeOK, NEW c \in Clients, Course(c), Start(c)
  PROVE  Course(c)'
<1>1. PICK r \in Requests(c) :
        /\ req' = [req EXCEPT ![c] = r]
        /\ pc' = [pc EXCEPT ![c] = CASE r.kind = "setAccess" -> "alter"
                                     [] r.clear = "exclusive" -> "read"
                                     [] OTHER -> "one"]
  BY DEF Start, Goto
<1>2. r.kind \in AllKinds
  BY DEF Requests, Request
<1>3. \/ pc'[c] = "alter"
      \/ pc'[c] = "one"
      \/ pc'[c] = "read" /\ r.kind # "setAccess"
  <2>1. pc'[c] = CASE r.kind = "setAccess" -> "alter"
                   [] r.clear = "exclusive" -> "read"
                   [] OTHER -> "one"
    BY <1>1 DEF TypeOK
  <2>2. r.clear = "exclusive" => r.kind # "setAccess"
    BY DEF Requests
  <2> QED BY <2>1, <2>2
<1>4. req'[c] = r /\ pc[c] = "idle" /\ UNCHANGED <<server, batch, guessed, unreleased>>
  BY <1>1 DEF Start, TypeOK
<1>5. holder["old"] = "db" /\ meant["db"] = {mode["db"]} /\ ~closed[c] /\ ~failed[c]
  BY <1>4 DEF Course, Placed, Untouched
<1>6. Placed(c)'
  BY <1>3, <1>4, <1>5 DEF Course, Placed, InBatch, server
<1>7. Untouched(c)'
  BY <1>3, <1>4, <1>5 DEF Untouched, server, batch
<1>8. Repairable(c)' /\ Releasing(c)'
  BY <1>2, <1>3, <1>4 DEF Repairable, Releasing, InBatch, AllKinds
<1> QED BY <1>6, <1>7, <1>8 DEF Course

LEMMA PlainCourse ==
  ASSUME TypeOK, NEW c \in Clients, Course(c), RunPlain(c)
  PROVE  Course(c)'
<1>1. /\ pc[c] = "one" /\ pc'[c] = "done" /\ req' = req
      /\ Succeeds(req[c].kind) \/ Fails(req[c].kind)
  BY DEF RunPlain, Goto, TypeOK
<1>2. /\ holder["old"] = "db" /\ holder["new"] # "db" /\ mode["db"] \in meant["db"]
      /\ mode["other"] = "RESTRICTED_USER" /\ meant["other"] = {"RESTRICTED_USER"}
  BY <1>1 DEF Course, Placed, Untouched
<1>3. /\ holder'["old"] \in {"db", "none"}
      /\ holder'["new"] = "db" => req[c].kind = "rename" /\ holder'["old"] = "none"
      /\ mode'["other"] = mode["other"] /\ meant'["other"] = meant["other"]
      /\ mode'["db"] \in meant'["db"]
  <2>1. CASE Drops \/ Fails(req[c].kind)
    BY <2>1, <1>2 DEF Drops, Fails, TypeOK, Names
  <2>2. CASE req[c].kind = "rename" /\ Renames
    BY <2>2, <1>2 DEF Renames, Exists, TypeOK, Names
  <2>3. CASE Restores
    BY <2>3, <1>2 DEF Restores, SetMode, TypeOK, Databases
  <2> QED BY <1>1, <2>1, <2>2, <2>3 DEF Succeeds
<1>4. Placed(c)'
  BY <1>1, <1>2, <1>3 DEF Placed, InBatch
<1>5. Untouched(c)' /\ Repairable(c)' /\ Releasing(c)'
  BY <1>1, <1>3 DEF Untouched, Repairable, Releasing, Settled, InBatch
<1> QED BY <1>4, <1>5 DEF Course

LEMMA ReadCourse ==
  ASSUME TypeOK, NEW c \in Clients, Course(c), ReadMode(c) \/ Capture(c)
  PROVE  Course(c)'
<1>1. holder["old"] = "db" /\ meant["db"] = {mode["db"]} /\ ~closed[c] /\ ~failed[c]
  BY DEF Course, Placed, Untouched, ReadMode, Capture
<1>2. /\ \/ pc[c] = "read" /\ pc'[c] = "capture" /\ before'[c] \in {"unread", mode["db"]}
         \/ /\ pc[c] = "capture" /\ pc'[c] = "take" /\ UNCHANGED before
            /\ access'[c] = mode["db"]
      /\ UNCHANGED <<server, req, closed, failed>>
  BY <1>1 DEF ReadMode, Capture, Goto, TypeOK, Exists, Names
<1>3. Placed(c)'
  BY <1>2 DEF Course, Placed, InBatch, server
<1>4. Untouched(c)'
  BY <1>1, <1>2 DEF Untouched, server
<1>5. Repairable(c)'
  BY <1>1, <1>2 DEF Course, Repairable, Settled, InBatch, server
<1>6. Releasing(c)'
  BY <1>2 DEF Releasing
<1> QED BY <1>3, <1>4, <1>5, <1>6 DEF Course

LEMMA TakeCourse ==
  ASSUME TypeOK, NEW c \in Clients, Course(c),
         TakeSingleUser(c) \/ TakeRefused(c) \/ TakeNothing(c)
  PROVE  Course(c)'
<1>1. /\ pc[c] = "take" /\ holder["old"] = "db" /\ meant["db"] = {mode["db"]}
      /\ ~closed[c] /\ ~failed[c] /\ access[c] = mode["db"]
  BY DEF Course, Placed, Untouched, TakeSingleUser, TakeRefused, TakeNothing
<1>2. holder["new"] # "db"
  BY <1>1 DEF Course, Placed
<1>3. CASE TakeSingleUser(c)
  <2>1. /\ pc'[c] = "run" /\ closed'[c] = TRUE /\ state["db"] = "ONLINE"
        /\ UNCHANGED <<holder, state, meant, req, before, access, failed>>
    BY <1>1, <1>3 DEF TakeSingleUser, Goto, Alterable, TypeOK
  <2>2. mode'["db"] = "SINGLE_USER" /\ mode'["other"] = mode["other"]
    BY <1>1, <1>3, SetOnIt DEF TakeSingleUser
  <2>3. Placed(c)'
    BY <2>1, <2>2, <1>1, <1>2 DEF Course, Placed
  <2>4. Untouched(c)' /\ Releasing(c)'
    BY <2>1, <2>2, <1>1 DEF Untouched, Releasing
  <2>5. Repairable(c)'
    <3>1. before[c] \in meant["db"] \cup {"unread"}
      BY <1>1 DEF Course, Repairable, InBatch
    <3> QED BY <2>1, <2>2, <3>1, <1>1 DEF Course, Repairable, InBatch
  <2> QED BY <2>3, <2>4, <2>5 DEF Course
<1>4. CASE TakeRefused(c) \/ TakeNothing(c)
  <2>1. /\ \/ pc'[c] = "run" /\ req[c].kind # "rename" /\ UNCHANGED failed
           \/ pc'[c] = "answer"
        /\ UNCHANGED <<server, req, before, access, closed, unreleased>>
    BY <1>4 DEF TakeRefused, TakeNothing, Goto, TypeOK, batch
  <2>2. Placed(c)'
    BY <2>1, <1>1, <1>2 DEF Course, Placed, server
  <2>3. Untouched(c)'
    BY <2>1 DEF Untouched
  <2>4. Repairable(c)'
    BY <2>1, <1>1 DEF Course, Repairable, Settled, InBatch, server
  <2>5. Releasing(c)'
    BY <2>1, <1>1 DEF Releasing, Settled, server
  <2> QED BY <2>2, <2>3, <2>4, <2>5 DEF Course
<1> QED BY <1>3, <1>4

\* What the batch's operation makes of the database that is there, and of the name.
LEMMA RunEffect ==
  ASSUME TypeOK, NEW c \in Clients, holder["old"] = "db", holder["new"] # "db",
         req[c].kind \in {"drop", "detach", "rename", "restore"},
         NEW succeeded \in BOOLEAN,
         IF succeeded THEN Succeeds(req[c].kind) ELSE Fails(req[c].kind)
  PROVE  /\ mode'["other"] = mode["other"] /\ meant'["other"] = meant["other"]
         /\ \/ /\ succeeded /\ req[c].kind \in {"drop", "detach"} /\ UNCHANGED <<state, mode, meant>>
               /\ holder'["old"] = "none" /\ holder'["new"] # "db"
            \/ /\ succeeded /\ req[c].kind = "rename" /\ UNCHANGED <<state, mode, meant>>
               /\ holder'["old"] = "none" /\ holder'["new"] = "db"
            \/ /\ succeeded /\ req[c].kind = "restore" /\ UNCHANGED holder
               /\ \/ mode'["db"] = "SINGLE_USER" /\ meant'["db"] = meant["db"] \cup {"SINGLE_USER"}
                  \/ mode'["db"] # "SINGLE_USER" /\ mode'["db"] \in meant'["db"]
            \/ ~succeeded /\ UNCHANGED <<holder, mode, meant, state>>
            \/ /\ ~succeeded /\ req[c].kind = "restore" /\ UNCHANGED <<holder, mode, meant>>
               /\ state'["db"] = "RESTORING"
<1>1. CASE succeeded /\ Drops /\ req[c].kind \in {"drop", "detach"}
  BY <1>1 DEF Drops, TypeOK, Names
<1>2. CASE succeeded /\ Renames /\ req[c].kind = "rename"
  BY <1>2 DEF Renames, TypeOK, Names
<1>3. CASE succeeded /\ Restores /\ req[c].kind = "restore"
  <2>1. PICK m \in Modes :
          /\ SetMode("old", m)
          /\ meant' = [meant EXCEPT !["db"] = IF m = "SINGLE_USER" THEN @ \cup {m} ELSE {m}]
    BY <1>3 DEF Restores
  <2>2. mode'["db"] = m /\ mode'["other"] = mode["other"]
    BY <2>1, SetOnIt
  <2>3. /\ meant'["db"] = IF m = "SINGLE_USER" THEN meant["db"] \cup {m} ELSE {m}
        /\ meant'["other"] = meant["other"]
    BY <2>1 DEF TypeOK, Databases
  <2> QED BY <1>3, <2>2, <2>3 DEF Restores
<1>4. CASE ~succeeded
  BY <1>4 DEF Fails, TypeOK, Databases
<1> QED BY <1>1, <1>2, <1>3, <1>4 DEF Succeeds

LEMMA RunCourse ==
  ASSUME TypeOK, NEW c \in Clients, Course(c), Run(c)
  PROVE  Course(c)'
<1>1. /\ pc[c] = "run" /\ holder["old"] = "db" /\ holder["new"] # "db" /\ meant["db"] = {access[c]}
      /\ req[c].kind \in {"drop", "detach", "rename", "restore"}
      /\ before[c] \in meant["db"] \cup {"unread"}
      /\ closed[c] => mode["db"] = "SINGLE_USER" /\ state["db"] = "ONLINE"
      /\ ~closed[c] => mode["db"] = access[c] /\ req[c].kind # "rename"
  BY DEF Course, Placed, Repairable, Releasing, InBatch, Run
<1>2. PICK succeeded \in BOOLEAN :
        /\ IF succeeded THEN Succeeds(req[c].kind) ELSE Fails(req[c].kind)
        /\ failed' = [failed EXCEPT ![c] = ~succeeded]
        /\ pc' = [pc EXCEPT ![c] = IF Releases(c, succeeded) THEN "release" ELSE "answer"]
  BY DEF Run, Goto
<1>3. /\ pc'[c] = IF Releases(c, succeeded) THEN "release" ELSE "answer"
      /\ failed'[c] = ~succeeded
      /\ UNCHANGED <<req, before, access, closed, unreleased>>
  BY <1>2 DEF Run, TypeOK
<1>4. mode'["other"] = mode["other"] /\ meant'["other"] = meant["other"]
  BY <1>1, <1>2, RunEffect
<1>5. \/ /\ succeeded /\ req[c].kind \in {"drop", "detach"} /\ UNCHANGED <<state, mode, meant>>
         /\ holder'["old"] = "none" /\ holder'["new"] # "db"
      \/ /\ succeeded /\ req[c].kind = "rename" /\ UNCHANGED <<state, mode, meant>>
         /\ holder'["old"] = "none" /\ holder'["new"] = "db"
      \/ /\ succeeded /\ req[c].kind = "restore" /\ UNCHANGED holder
         /\ \/ mode'["db"] = "SINGLE_USER" /\ meant'["db"] = meant["db"] \cup {"SINGLE_USER"}
            \/ mode'["db"] # "SINGLE_USER" /\ mode'["db"] \in meant'["db"]
      \/ ~succeeded /\ UNCHANGED <<holder, mode, meant, state>>
      \/ /\ ~succeeded /\ req[c].kind = "restore" /\ UNCHANGED <<holder, mode, meant>>
         /\ state'["db"] = "RESTORING"
  BY <1>1, <1>2, RunEffect
<1>6. Placed(c)'
  BY <1>1, <1>3, <1>4, <1>5 DEF Course, Placed, InBatch
<1>7. Untouched(c)'
  BY <1>3 DEF Untouched
<1>8. /\ (Settled \/ mode["db"] = "SINGLE_USER")'
      /\ \/ before[c] \in meant'["db"] \cup {"unread"}
         \/ req[c].kind = "restore" /\ mode'["db"] # "SINGLE_USER"
  BY <1>1, <1>5 DEF Settled
<1>9. Releases(c, succeeded) =>
        /\ closed[c] /\ mode'["db"] = "SINGLE_USER" /\ access[c] \in meant'["db"]
        /\ holder'[IF req[c].kind = "rename" /\ succeeded THEN "new" ELSE "old"] = "db"
  BY <1>1, <1>5 DEF Releases, Exists
<1>10. ~Releases(c, succeeded) => Settled'
  BY <1>1, <1>5 DEF Releases, Exists, Settled
<1>11. Repairable(c)'
  BY <1>1, <1>3, <1>8, <1>9 DEF Repairable, InBatch
<1>12. Releasing(c)'
  BY <1>3, <1>9, <1>10 DEF Releasing, ReleasedName
<1> QED BY <1>6, <1>7, <1>11, <1>12 DEF Course

LEMMA ReleaseCourse ==
  ASSUME TypeOK, NEW c \in Clients, Course(c), Release(c)
  PROVE  Course(c)'
<1>1. /\ pc[c] = "release" /\ holder[ReleasedName(c)] = "db" /\ mode["db"] = "SINGLE_USER"
      /\ access[c] \in meant["db"] /\ req[c].kind \in {"drop", "detach", "rename", "restore"}
      /\ before[c] \in meant["db"] \cup {"unread"}
  BY DEF Course, Repairable, Releasing, InBatch, Release
<1>2. /\ pc'[c] = "answer"
      /\ UNCHANGED <<holder, state, meant, req, before, access, closed, failed, guessed>>
  BY DEF Release, Goto, TypeOK, batch
<1>3. /\ mode'["other"] = mode["other"]
      /\ mode'["db"] \in meant["db"] \/ (mode'["db"] = "SINGLE_USER" /\ unreleased')
  <2>1. CASE access[c] = "SINGLE_USER" /\ UNCHANGED <<mode, unreleased>>
    BY <2>1, <1>1
  <2>2. CASE access[c] # "SINGLE_USER" /\ SetMode(ReleasedName(c), ReleaseMode(access[c]))
    <3>1. access[c] \in Modes
      BY <1>1 DEF TypeOK, Databases
    <3>2. ReleaseMode(access[c]) = access[c]
      BY <2>2, <3>1, ReleaseExact
    <3> QED BY <2>2, <3>2, <1>1, SetOnIt
  <2>3. CASE unreleased' = TRUE /\ UNCHANGED mode
    BY <2>3, <1>1
  <2> QED BY <2>1, <2>2, <2>3 DEF Release
<1>4. Placed(c)'
  BY <1>1, <1>2, <1>3 DEF Course, Placed, InBatch
<1>5. Untouched(c)' /\ Releasing(c)'
  BY <1>2, <1>3 DEF Untouched, Releasing, Settled
<1>6. Repairable(c)'
  BY <1>1, <1>2, <1>3 DEF Repairable, Settled
<1> QED BY <1>4, <1>5, <1>6 DEF Course

LEMMA AnswerCourse ==
  ASSUME TypeOK, NEW c \in Clients, Course(c), Answer(c) \/ CutShort(c)
  PROVE  Course(c)'
<1>1. /\ pc[c] \in InBatch
      /\ (pc[c] = "answer" /\ pc'[c] = "done") \/ pc'[c] = "repair"
      /\ UNCHANGED <<holder, state, mode, meant, req, batch, guessed, unreleased>>
  BY DEF Answer, CutShort, Goto, TypeOK, server, InBatch
<1>2. Placed(c)'
  BY <1>1 DEF Course, Placed, InBatch
<1>3. Untouched(c)' /\ Releasing(c)'
  BY <1>1 DEF Course, Untouched, Releasing, Settled
<1>4. Repairable(c)'
  BY <1>1 DEF Course, Repairable, Settled, InBatch, batch
<1> QED BY <1>2, <1>3, <1>4 DEF Course

LEMMA RepairCourse ==
  ASSUME TypeOK, NEW c \in Clients, Course(c), Repair(c)
  PROVE  Course(c)'
<1>1. /\ pc[c] = "repair" /\ pc'[c] = "done"
      /\ UNCHANGED <<holder, state, meant, req>>
      /\ Settled \/ mode["db"] = "SINGLE_USER"
      /\ \/ before[c] \in meant["db"] \cup {"unread"}
         \/ req[c].kind = "restore" /\ mode["db"] # "SINGLE_USER"
  BY DEF Course, Repairable, Repair, Goto, TypeOK
<1>2. /\ holder["old"] \in {"db", "none"}
      /\ holder["new"] = "db" => req[c].kind = "rename" /\ holder["old"] = "none"
      /\ req[c].kind = "rename" /\ holder["old"] = "none" => holder["new"] = "db"
      /\ mode["other"] = "RESTRICTED_USER" /\ meant["other"] = {"RESTRICTED_USER"}
  BY <1>1 DEF Course, Placed
<1>3. Repairs(c) => holder[RepairedName(c)] = "db"
  BY <1>2 DEF Repairs, RepairedName, Alterable, Exists
<1>4. mode'["other"] = mode["other"] /\ (Settled' \/ unreleased' \/ guessed')
  <2>1. CASE Repairs(c) /\ SetMode(RepairedName(c), ReleaseMode(before[c]))
             /\ guessed' = (guessed \/ before[c] = "unread")
    <3>1. mode'["db"] = ReleaseMode(before[c]) /\ mode'["other"] = mode["other"]
      BY <2>1, <1>3, SetOnIt
    <3>2. before[c] # "SINGLE_USER" /\ (req[c].kind = "restore" => mode["db"] = "SINGLE_USER")
      BY <2>1, <1>3 DEF Repairs
    <3>3. CASE before[c] = "unread"
      BY <2>1, <3>1, <3>3
    <3>4. CASE before[c] \in meant["db"]
      <4>1. before[c] \in Modes
        BY <3>4 DEF TypeOK, Databases
      <4>2. mode'["db"] \in meant["db"]
        BY <3>1, <3>2, <3>4, <4>1, ReleaseExact
      <4> QED BY <3>1, <4>2, <1>1 DEF Settled
    <3> QED BY <3>2, <3>3, <3>4, <1>1
  <2>2. CASE unreleased' = TRUE /\ UNCHANGED mode
    BY <2>2
  <2>3. CASE ~Repairs(c) /\ UNCHANGED mode
    <3>1. CASE Settled
      BY <3>1, <2>3, <1>1 DEF Settled
    <3>2. CASE mode["db"] = "SINGLE_USER" /\ before[c] \in meant["db"] /\ before[c] = "SINGLE_USER"
      BY <3>2, <2>3, <1>1 DEF Settled
    <3>3. CASE mode["db"] = "SINGLE_USER" /\ before[c] # "SINGLE_USER"
      <4>1. (holder["old"] = "db" \/ holder["new"] = "db") => holder[RepairedName(c)] = "db"
        BY <1>2 DEF RepairedName, Exists
      <4>2. ~((holder["old"] = "db" \/ holder["new"] = "db") /\ state["db"] = "ONLINE")
        BY <2>3, <3>3, <4>1 DEF Repairs, Alterable, Exists
      <4> QED BY <2>3, <4>2, <1>1 DEF Settled
    <3> QED BY <3>1, <3>2, <3>3, <1>1
  <2> QED BY <2>1, <2>2, <2>3 DEF Repair
<1>5. Placed(c)'
  BY <1>1, <1>2, <1>4 DEF Placed, InBatch
<1>6. Untouched(c)' /\ Repairable(c)' /\ Releasing(c)'
  BY <1>1, <1>4 DEF Untouched, Repairable, Releasing, InBatch
<1> QED BY <1>5, <1>6 DEF Course

LEMMA AlterCourse ==
  ASSUME TypeOK, NEW c \in Clients, Course(c),
         AlterTakes(c) \/ AlterFails(c) \/ AlterContended(c) \/ Wait(c)
  PROVE  Course(c)'
<1>1. /\ pc[c] \in {"alter", "wait"} /\ pc'[c] \in {"alter", "wait", "done"}
      /\ UNCHANGED <<holder, state, req, before, access, closed, failed, guessed, unreleased>>
  BY DEF AlterTakes, AlterFails, AlterContended, Wait, Goto, TypeOK, server, batch
<1>2. /\ holder["old"] = "db" /\ holder["new"] # "db" /\ mode["db"] \in meant["db"]
      /\ mode["other"] = "RESTRICTED_USER" /\ meant["other"] = {"RESTRICTED_USER"}
  BY <1>1 DEF Course, Placed, Untouched
<1>3. /\ mode'["db"] \in meant'["db"]
      /\ mode'["other"] = mode["other"] /\ meant'["other"] = meant["other"]
  <2>1. CASE AlterTakes(c)
    <3>1. mode'["db"] = req[c].to /\ mode'["other"] = mode["other"]
      BY <2>1, <1>2, SetOnIt DEF AlterTakes
    <3>2. meant'["db"] = {req[c].to} /\ meant'["other"] = meant["other"]
      BY <2>1, <1>2 DEF AlterTakes, TypeOK, Databases
    <3> QED BY <3>1, <3>2
  <2>2. CASE AlterFails(c) \/ AlterContended(c) \/ Wait(c)
    BY <2>2, <1>2 DEF AlterFails, AlterContended, Wait, server
  <2> QED BY <2>1, <2>2
<1>4. Placed(c)'
  BY <1>1, <1>2, <1>3 DEF Placed, InBatch
<1>5. Untouched(c)' /\ Repairable(c)' /\ Releasing(c)'
  BY <1>1, <1>3 DEF Untouched, Repairable, Releasing, Settled, InBatch
<1> QED BY <1>4, <1>5 DEF Course

LEMMA StepCourses == TypeOK /\ Courses /\ [Next]_vars => Courses'
<1> SUFFICES ASSUME TypeOK, Courses, [Next]_vars PROVE Courses'
  OBVIOUS
<1>1. kinds' = kinds
  BY KindsStay
<1>2. CASE UNCHANGED vars
  BY <1>2 DEF vars, server, given, batch, Courses, Bystanders, OnlyOne, Course, Placed, Untouched,
              Repairable, Releasing, Settled, ReleasedName
<1>3. CASE \E e \in Clients : Start(e) \/ Client(e)
  <2>1. PICK e \in Clients : Start(e) \/ Client(e)
    BY <1>3
  <2>2. kinds[e] # {}
    <3>1. CASE Start(e)
      BY <3>1 DEF Start, Requests
    <3>2. CASE Client(e)
      <4>1. pc[e] # "idle"
        BY <3>2 DEF Client, Batch, RunPlain, ReadMode, Capture, TakeSingleUser, TakeRefused, TakeNothing,
                    Run, Release, Answer, CutShort, Repair, InBatch, AlterTakes, AlterFails,
                    AlterContended, Wait
      <4> QED BY <4>1 DEF Courses, Bystanders
    <3> QED BY <2>1, <3>1, <3>2
  <2>3. \A d \in Clients \ {e} : pc'[d] = pc[d]
    BY <2>1 DEF Start, Client, Batch, RunPlain, ReadMode, Capture, TakeSingleUser, TakeRefused, TakeNothing,
                Run, Release, Answer, CutShort, Repair, AlterTakes, AlterFails, AlterContended, Wait,
                Goto, TypeOK
  <2>4. Bystanders'
    BY <1>1, <2>2, <2>3 DEF Courses, Bystanders
  <2>5. ASSUME NEW c \in Clients, OnlyOne(c)' PROVE Course(c)'
    <3>1. c = e /\ Course(c)
      BY <1>1, <2>2, <2>5 DEF OnlyOne, Courses
    <3> QED
      BY <2>1, <3>1, StartCourse, PlainCourse, ReadCourse, TakeCourse, RunCourse, ReleaseCourse,
         AnswerCourse, RepairCourse, AlterCourse DEF Client, Batch
  <2> QED BY <2>4, <2>5 DEF Courses
<1> QED BY <1>2, <1>3 DEF Next, Finished

\* Whatever one caller does to the database alone, and wherever its batch is cut
\* short, the mode it was meant to have is back in the end, and the database that
\* owns the name a rename asks for keeps its own.
THEOREM AloneKeepsAccess == Spec => []AccessKept
<1> DEFINE Inv == TypeOK /\ TriesLeft /\ Courses
<1>1. Init => Inv
  BY InitType, InitCourses
<1>2. Inv /\ [Next]_vars => Inv'
  BY StepType, StepCourses
<1>3. Inv => AccessKept
  <2> SUFFICES ASSUME Inv, Alone
               PROVE  /\ AllDone /\ ~guessed /\ ~unreleased => Restored
                      /\ mode["other"] = "RESTRICTED_USER"
    BY DEF AccessKept
  <2>1. PICK c \in Clients : OnlyOne(c)
    BY DEF Alone, OnlyOne
  <2>2. Course(c)
    BY <2>1 DEF Courses
  <2>3. mode["other"] = "RESTRICTED_USER" /\ meant["other"] = {"RESTRICTED_USER"}
    BY <2>2 DEF Course, Placed
  <2>4. ASSUME AllDone, ~guessed, ~unreleased, NEW n \in Names,
               Exists(n), state[holder[n]] = "ONLINE"
        PROVE  mode[holder[n]] \in meant[holder[n]]
    <3>1. pc[c] = "done" \/ pc[c] = "idle"
      BY <2>4 DEF AllDone, Courses, Bystanders
    <3>2. Settled
      BY <3>1, <2>2, <2>4 DEF Course, Untouched, Releasing, Settled
    <3>3. holder[n] = "db" \/ holder[n] = "other"
      BY <2>4 DEF TypeOK, Exists, Databases
    <3>4. n = "old" \/ n = "new"
      BY DEF Names
    <3> QED BY <2>3, <2>4, <3>2, <3>3, <3>4 DEF Settled
  <2> QED BY <2>3, <2>4 DEF Restored
<1> QED BY <1>1, <1>2, <1>3, PTL DEF Spec
=============================================================================
