------------------------- MODULE PooledSessionProofs -------------------------
(***************************************************************************)
(* Proofs about PooledSession, for any goroutines and any size of pool.    *)
(***************************************************************************)
EXTENDS PooledSession, TLAPS

Places == {"rest", "acquire", "prologue", "run", "recheck", "rows", "capture",
           "batch", "stop", "load", "back", "again", "letGo", "wait"}
WithConnection == {"prologue", "run", "recheck", "rows", "capture", "batch", "stop",
                   "load", "back"}
WithNone == {"rest", "acquire", "wait"}

\* A goroutine has a connection to itself while it uses one, and waits only
\* for an attempt it has left.
Owned ==
    /\ \A p \in Procs :
         /\ held[p] # None => held[p] \in open \ idle
         /\ pc[p] \in WithConnection => held[p] # None
         /\ pc[p] \in WithNone => held[p] = None
         /\ pc[p] = "wait" => attempt[p] < readRetryAttempts
    /\ \A p, r \in Procs : p # r /\ held[p] # None => held[p] # held[r]

LEMMA FreshTyped == Fresh \in Session
  BY DEF Fresh, Session, Databases

LEMMA InitOwned == Init => TypeOK /\ Owned
<1> SUFFICES ASSUME Init PROVE TypeOK /\ Owned
  OBVIOUS
<1>1. session \in [Conns -> Session]
  BY FreshTyped DEF Init
<1>2. TypeOK
  BY <1>1 DEF Init, TypeOK, Errors, readRetryAttempts
<1>3. Owned
  BY DEF Init, Owned, WithConnection, WithNone
<1> QED BY <1>2, <1>3

\* What every session a step leaves behind is.
LEMMA SessionsTyped ==
    ASSUME TypeOK, NEW p \in Procs, held[p] \in Conns
    PROVE  /\ \A m \in SUBSET Marks : Marked(p, m) => session' \in [Conns -> Session]
           /\ \A db \in Databases :
                Switched(p, db) => session' \in [Conns -> Session]
           /\ \A m \in SUBSET Marks :
                session' = [session EXCEPT ![held[p]].marks = @ \ m]
                   => session' \in [Conns -> Session]
  <1>1. session \in [Conns -> Session]
    BY DEF TypeOK
  <1>2. /\ session[held[p]].db \in Databases
        /\ session[held[p]].marks \subseteq Marks
        /\ session[held[p]] \in Session
    BY <1>1 DEF Session
  <1>3. \A s \in Session, m \in SUBSET Marks, db \in Databases :
          /\ [s EXCEPT !.marks = s.marks \cup m] \in Session
          /\ [s EXCEPT !.marks = s.marks \ m] \in Session
          /\ [s EXCEPT !.db = db] \in Session
    BY DEF Session
  <1> QED BY <1>1, <1>2, <1>3 DEF Marked, Switched

\* stop's are as it left them.
LEMMA StopIs ==
    ASSUME TypeOK, NEW p \in Procs, held[p] \in Conns, NEW n \in SUBSET {"leftOn"},
           session' = [session EXCEPT ![held[p]].marks = (@ \ {"capturing"}) \cup n]
    PROVE  /\ session' \in [Conns -> Session]
           /\ \A c \in Conns \ {held[p]} : session'[c] = session[c]
           /\ session'[held[p]].db = session[held[p]].db
           /\ session'[held[p]].marks = (session[held[p]].marks \ {"capturing"}) \cup n
  <1>1. session \in [Conns -> Session] /\ session[held[p]] \in Session
    BY DEF TypeOK
  <1>2. \A s \in Session :
          [s EXCEPT !.marks = (s.marks \ {"capturing"}) \cup n] \in Session
    BY DEF Session, Marks
  <1>3. \A s \in Session : DOMAIN s = {"db", "marks"}
    BY DEF Session
  <1> QED BY <1>1, <1>2, <1>3 DEF Session

LEMMA BadEndTyped ==
    ASSUME TypeOK, NEW p \in Procs, held[p] \in Conns,
           Refused(p) \/ Broke(p) \/ CutShort(p)
    PROVE  session' \in [Conns -> Session] /\ err' \in [Procs -> Errors]
  <1>1. {"broken"} \in SUBSET Marks /\ "master" \in Databases
    BY DEF Marks, Databases
  <1>2. session' \in [Conns -> Session]
    BY <1>1, SessionsTyped DEF TypeOK, Reported, Refused, Broke, CutShort
  <1>3. err' \in [Procs -> Errors]
    BY DEF TypeOK, Reported, Refused, Broke, CutShort, Raise, Errors
  <1> QED BY <1>2, <1>3

\* The steps that use the connection they have, or fail without one: they leave
\* the pool and every goroutine's connection alone.
LEMMA InPlace ==
    ASSUME TypeOK, Owned, NEW p \in Procs, UNCHANGED <<pool, op, held, attempt, ended>>,
           NEW label \in Places, Goto(p, label), pc[p] # "rest",
           label \in WithConnection => held[p] # None, label \notin WithNone,
           session' \in [Conns -> Session], err' \in [Procs -> Errors],
           applied' \in [Procs -> Nat]
    PROVE  TypeOK' /\ Owned'
  <1>1. TypeOK'
    BY DEF Goto, TypeOK, Places, pool
  <1>2. Owned'
    BY DEF Goto, TypeOK, Owned, WithNone, pool
  <1> QED BY <1>1, <1>2

\* The steps that end with the connection closed.
LEMMA LettingGo ==
    ASSUME TypeOK, Owned, NEW p \in Procs, Close(p), UNCHANGED session,
           \/ Return(p)
           \/ /\ Goto(p, "wait") /\ attempt[p] < readRetryAttempts
              /\ UNCHANGED <<op, attempt, err, ended, applied>>
    PROVE  TypeOK' /\ Owned'
  <1>1. /\ held' = [held EXCEPT ![p] = None]
        /\ open' \subseteq Conns /\ idle' \subseteq open'
        /\ \A r \in Procs \ {p} : held[r] # None => held[r] \in open' \ idle'
    BY DEF Close, TypeOK, Owned
  <1>2. /\ op' \in [Procs -> AllOps \cup {"none"}]
        /\ attempt' \in [Procs -> 1..readRetryAttempts]
        /\ err' \in [Procs -> Errors]
        /\ ended' \in [Procs -> BOOLEAN]
        /\ applied' \in [Procs -> Nat]
    <2>1. CASE Return(p)
      <3>1. ended' \in [Procs -> BOOLEAN]
        BY <2>1, Zenon DEF Return, TypeOK
      <3>2. op' \in [Procs -> AllOps \cup {"none"}] /\ err' \in [Procs -> Errors]
        BY <2>1 DEF Return, Raise, TypeOK, Errors
      <3>3. attempt' \in [Procs -> 1..readRetryAttempts] /\ applied' \in [Procs -> Nat]
        BY <2>1 DEF Return, TypeOK, readRetryAttempts
      <3> QED BY <3>1, <3>2, <3>3
    <2>2. CASE UNCHANGED <<op, attempt, err, ended, applied>>
      BY <2>2 DEF TypeOK
    <2> QED BY <2>1, <2>2
  <1>3. \E label \in {"rest", "wait"} : pc' = [pc EXCEPT ![p] = label]
    BY DEF Return, Goto
  <1>4. TypeOK'
    BY <1>1, <1>2, <1>3 DEF TypeOK
  <1>5. Owned'
    BY <1>1, <1>3, PooledAssumption DEF Owned, TypeOK, Goto, Return, WithConnection, WithNone
  <1> QED BY <1>4, <1>5

\* Between calls: beginning one, its context ending, its backoff over.
LEMMA Waiting ==
    ASSUME TypeOK, Owned, NEW p \in Procs, UNCHANGED <<pool, session, held>>,
           Begin(p) \/ ContextEnds(p) \/ Wait(p)
    PROVE  TypeOK' /\ Owned'
  <1>1. CASE Begin(p)
    <2>1. op' \in [Procs -> AllOps \cup {"none"}]
      <3>1. PICK o \in Ops[p] : op' = [op EXCEPT ![p] = o]
        BY <1>1 DEF Begin
      <3>2. Ops[p] \subseteq AllOps
        BY PooledAssumption
      <3> QED BY <3>1, <3>2 DEF TypeOK
    <2> QED BY <1>1, <2>1 DEF Begin, Goto, TypeOK, Owned, WithConnection, WithNone, pool
  <1>2. CASE ContextEnds(p)
    <2>1. ended' \in [Procs -> BOOLEAN]
      BY <1>2, Zenon DEF ContextEnds, TypeOK
    <2> QED BY <1>2, <2>1 DEF ContextEnds, TypeOK, Owned, pool
  <1>3. CASE Wait(p)
    <2>1. CASE Return(p)
      <3>1. ended' \in [Procs -> BOOLEAN]
        BY <2>1, Zenon DEF Return, TypeOK
      <3>2. op' \in [Procs -> AllOps \cup {"none"}] /\ err' \in [Procs -> Errors]
        BY <2>1 DEF Return, Raise, TypeOK, Errors
      <3>3. attempt' \in [Procs -> 1..readRetryAttempts] /\ applied' \in [Procs -> Nat]
        BY <2>1 DEF Return, TypeOK, readRetryAttempts
      <3>4. pc' = [pc EXCEPT ![p] = "rest"] /\ held[p] = None
        BY <1>3, <2>1 DEF Return, Goto, Wait, Owned, WithNone
      <3>5. attempt' = [attempt EXCEPT ![p] = 1]
        BY <2>1 DEF Return
      <3>6. TypeOK'
        BY <3>1, <3>2, <3>3, <3>4 DEF TypeOK, pool
      <3>7. Owned'
        BY <3>4, <3>5 DEF TypeOK, Owned, WithConnection, WithNone, pool
      <3> QED BY <3>6, <3>7
    <2>2. CASE /\ Goto(p, "acquire")
               /\ attempt' = [attempt EXCEPT ![p] = @ + 1]
               /\ Raise(p, "none")
               /\ UNCHANGED <<op, ended, applied>>
      <3>1. attempt[p] < readRetryAttempts /\ held[p] = None
        BY <1>3 DEF Wait, Owned, WithNone
      <3>2. attempt' \in [Procs -> 1..readRetryAttempts]
        BY <2>2, <3>1 DEF TypeOK, readRetryAttempts
      <3> QED BY <2>2, <3>1, <3>2 DEF Goto, Raise, TypeOK, Owned, Errors,
                                       WithConnection, WithNone, pool
    <2> QED BY <1>3, <2>1, <2>2 DEF Wait
  <1> QED BY <1>1, <1>2, <1>3

\* Checking a connection out of the pool.
LEMMA Acquiring ==
    ASSUME TypeOK, Owned, NEW p \in Procs, Acquire(p)
    PROVE  TypeOK' /\ Owned'
  <1>1. PICK c \in Available : /\ held' = [held EXCEPT ![p] = c]
                               /\ open' = open \cup {c}
                               /\ idle' = idle \ {c}
                               /\ session' = [session EXCEPT ![c] = Fresh]
    BY DEF Acquire
  <1>2. c \in Conns /\ (c \in idle \/ c \notin open)
    BY <1>1 DEF Available, TypeOK
  <1>3. PICK label \in {"prologue", "run"} : pc' = [pc EXCEPT ![p] = label]
    BY DEF Acquire, Goto
  <1>4. UNCHANGED <<op, attempt, err, ended, applied>>
    BY DEF Acquire
  <1>5. TypeOK'
    BY <1>1, <1>2, <1>3, <1>4, FreshTyped DEF TypeOK
  <1>6. \A r \in Procs : r # p => held[r] # c
    BY <1>2, PooledAssumption DEF Owned, TypeOK
  <1>7. Owned'
    BY <1>1, <1>2, <1>3, <1>4, <1>6, PooledAssumption DEF Owned, TypeOK, WithConnection, WithNone
  <1> QED BY <1>5, <1>7

\* Every step keeps the types and the ownership of connections: the steps on a
\* connection by InPlace, each with the label it leads to.
LEMMA StepOwned ==
    ASSUME TypeOK, Owned, [Next]_vars
    PROVE  TypeOK' /\ Owned'
<1>1. ASSUME NEW p \in Procs, Step(p) PROVE TypeOK' /\ Owned'
  <2> DEFINE Stays == UNCHANGED <<pool, op, held, attempt, ended>>
  <2>0. /\ pc[p] \in WithConnection => held[p] \in Conns
        /\ session \in [Conns -> Session] /\ err \in [Procs -> Errors]
        /\ applied \in [Procs -> Nat]
        /\ \A e \in Errors : Raise(p, e) => err' \in [Procs -> Errors]
        /\ MayHaveApplied(p) => applied' \in [Procs -> Nat]
        /\ applied' = [applied EXCEPT ![p] = @ + 1] => applied' \in [Procs -> Nat]
    BY DEF TypeOK, Owned, Raise, MayHaveApplied
  <2>m. /\ {"broken"} \in SUBSET Marks /\ {"impersonated"} \in SUBSET Marks
        /\ {"capturing"} \in SUBSET Marks /\ {"loading", "broken"} \in SUBSET Marks
        /\ {"leftOn"} \in SUBSET Marks /\ {} \in SUBSET Marks
        /\ {"login", "master", "target", "other"} = Databases
    BY DEF Marks, Databases
  <2>f. Failed(p) \in {"again", "letGo"}
    BY DEF Failed
  <2>1. CASE Acquire(p)
    BY <2>1, Acquiring
  <2>2. CASE NotAcquired(p)
    <3>1. Stays /\ Goto(p, "again") /\ pc[p] # "rest" /\ UNCHANGED <<session, applied>>
      BY <2>2 DEF NotAcquired, pool
    <3>2. err' \in [Procs -> Errors]
      BY <2>0, <2>2 DEF NotAcquired, Errors
    <3> QED BY <2>0, <3>1, <3>2, InPlace DEF Places, WithNone, WithConnection
  <2>3. CASE Run(p)
    <3>1. PICK label \in {"letGo", "rows"} : Goto(p, label)
      BY <2>3 DEF Run
    <3>2. session' \in [Conns -> Session]
      BY <2>0, <2>m, <2>3 DEF Run, WithConnection, Session
    <3>3. Stays /\ held[p] # None /\ UNCHANGED err /\ applied' \in [Procs -> Nat] /\ pc[p] # "rest"
      BY <2>0, <2>3 DEF Run, pool, Owned, WithConnection
    <3> QED BY <2>0, <3>1, <3>2, <3>3, InPlace DEF Places, WithNone
  <2>4. CASE RunFails(p)
    <3>1. PICK label \in {"recheck", "again", "letGo"} : Goto(p, label)
      BY <2>f, <2>4 DEF RunFails
    <3>2. session' \in [Conns -> Session] /\ err' \in [Procs -> Errors]
      <4>1. CASE Reported(p) /\ (UNCHANGED session \/ Switched(p, "master"))
        BY <2>0, <2>m, <2>4, <4>1, SessionsTyped DEF RunFails, WithConnection, Reported, Errors
      <4>3. CASE Raise(p, "context") /\ Switched(p, "master")
        BY <2>0, <2>m, <2>4, <4>3, SessionsTyped DEF RunFails, WithConnection, Errors
      <4>2. CASE Refused(p) \/ Broke(p) \/ CutShort(p)
        BY <2>0, <2>4, <4>2, BadEndTyped DEF RunFails, WithConnection
      <4> QED BY <2>4, <4>1, <4>2, <4>3 DEF RunFails
    <3>3. Stays /\ held[p] # None /\ applied' \in [Procs -> Nat] /\ pc[p] # "rest"
      BY <2>0, <2>4 DEF RunFails, pool, Owned, WithConnection
    <3> QED BY <3>1, <3>2, <3>3, InPlace DEF Places, WithNone
  <2>5. CASE Recheck(p)
    <3>1. PICK label \in {"again", "letGo"} : Goto(p, label)
      BY <2>f, <2>5 DEF Recheck
    <3>2. session' \in [Conns -> Session] /\ err' \in [Procs -> Errors]
      BY <2>0, <2>5, BadEndTyped DEF Recheck, WithConnection
    <3>3. Stays /\ held[p] # None /\ UNCHANGED applied /\ pc[p] # "rest"
      BY <2>0, <2>5 DEF Recheck, pool, Owned, WithConnection
    <3> QED BY <2>0, <3>1, <3>2, <3>3, InPlace DEF Places, WithNone
  <2>6. CASE ReadRows(p)
    <3>1. Goto(p, "letGo")
      BY <2>6 DEF ReadRows
    <3>2. session' \in [Conns -> Session]
      BY <2>0, <2>m, <2>6, SessionsTyped DEF ReadRows, WithConnection
    <3>3. err' \in [Procs -> Errors]
      BY <2>0, <2>6 DEF ReadRows, WithConnection, Errors
    <3>4. Stays /\ held[p] # None /\ applied' \in [Procs -> Nat] /\ pc[p] # "rest"
      BY <2>0, <2>6 DEF ReadRows, pool, Owned, WithConnection
    <3> QED BY <3>1, <3>2, <3>3, <3>4, InPlace DEF Places, WithNone
  <2>7. CASE RowsFail(p)
    <3>1. Goto(p, "letGo")
      BY <2>7 DEF RowsFail
    <3>2. session' \in [Conns -> Session]
      BY <2>0, <2>m, <2>7, SessionsTyped DEF RowsFail, WithConnection
    <3>3. err' \in [Procs -> Errors]
      BY <2>0, <2>7 DEF RowsFail, WithConnection, Errors
    <3>4. Stays /\ held[p] # None /\ applied' \in [Procs -> Nat] /\ pc[p] # "rest"
      BY <2>0, <2>7 DEF RowsFail, pool, Owned, WithConnection
    <3> QED BY <3>1, <3>2, <3>3, <3>4, InPlace DEF Places, WithNone
  <2>8. CASE Prologue(p)
    <3>1. PICK label \in {"capture", "load"} : Goto(p, label)
      BY <2>8 DEF Prologue
    <3>2. session' \in [Conns -> Session]
      BY <2>0, <2>m, <2>8, SessionsTyped DEF Prologue, WithConnection
    <3>3. err' \in [Procs -> Errors]
      BY <2>0, <2>8 DEF Prologue, WithConnection, Errors
    <3>4. Stays /\ held[p] # None /\ applied' \in [Procs -> Nat] /\ pc[p] # "rest"
      BY <2>0, <2>8 DEF Prologue, pool, Owned, WithConnection
    <3> QED BY <3>1, <3>2, <3>3, <3>4, InPlace DEF Places, WithNone
  <2>9. CASE PrologueFails(p)
    <3>1. Goto(p, "again")
      BY <2>9 DEF PrologueFails
    <3>2. session' \in [Conns -> Session]
      BY <2>0, <2>m, <2>9, SessionsTyped, BadEndTyped DEF PrologueFails, WithConnection
    <3>3. err' \in [Procs -> Errors]
      BY <2>0, <2>9, BadEndTyped DEF PrologueFails, WithConnection, Errors
    <3>4. Stays /\ held[p] # None /\ applied' \in [Procs -> Nat] /\ pc[p] # "rest"
      BY <2>0, <2>9 DEF PrologueFails, pool, Owned, WithConnection
    <3> QED BY <3>1, <3>2, <3>3, <3>4, InPlace DEF Places, WithNone
  <2>10. CASE Capture(p)
    <3>1. PICK label \in {"batch", "back"} : Goto(p, label)
      BY <2>10 DEF Capture
    <3>2. session' \in [Conns -> Session]
      BY <2>0, <2>m, <2>10, SessionsTyped, BadEndTyped DEF Capture, WithConnection
    <3>3. err' \in [Procs -> Errors]
      BY <2>0, <2>10, BadEndTyped DEF Capture, WithConnection, Errors
    <3>4. Stays /\ held[p] # None /\ applied' \in [Procs -> Nat] /\ pc[p] # "rest"
      BY <2>0, <2>10 DEF Capture, pool, Owned, WithConnection
    <3> QED BY <3>1, <3>2, <3>3, <3>4, InPlace DEF Places, WithNone
  <2>11. CASE Batch(p)
    <3>1. Goto(p, "stop")
      BY <2>11 DEF Batch
    <3>2. session' \in [Conns -> Session]
      BY <2>0, <2>m, <2>11, SessionsTyped, BadEndTyped DEF Batch, WithConnection
    <3>3. err' \in [Procs -> Errors]
      BY <2>0, <2>11, BadEndTyped DEF Batch, WithConnection, Errors
    <3>4. Stays /\ held[p] # None /\ applied' \in [Procs -> Nat] /\ pc[p] # "rest"
      BY <2>0, <2>11 DEF Batch, pool, Owned, WithConnection
    <3> QED BY <3>1, <3>2, <3>3, <3>4, InPlace DEF Places, WithNone
  <2>12. CASE Stop(p)
    <3>1. Goto(p, "back")
      BY <2>12 DEF Stop
    <3>2. session' \in [Conns -> Session]
      <4>1. CASE Marked(p, {"broken"})
        BY <2>0, <2>m, <2>12, <4>1, SessionsTyped DEF Stop, WithConnection
      <4>2. CASE \E m \in SUBSET {"leftOn"} :
                   session' = [session EXCEPT ![held[p]].marks = (@ \ {"capturing"}) \cup m]
        BY <2>0, <2>12, <4>2, StopIs DEF Stop, WithConnection
      <4> QED BY <2>12, <4>1, <4>2 DEF Stop
    <3>3. err' \in [Procs -> Errors]
      BY <2>0, <2>12 DEF Stop, WithConnection, Errors
    <3>4. Stays /\ held[p] # None /\ applied' \in [Procs -> Nat] /\ pc[p] # "rest"
      BY <2>0, <2>12 DEF Stop, pool, Owned, WithConnection
    <3> QED BY <3>1, <3>2, <3>3, <3>4, InPlace DEF Places, WithNone
  <2>13. CASE Load(p)
    <3>1. Goto(p, "back")
      BY <2>13 DEF Load
    <3>2. session' \in [Conns -> Session]
      BY <2>0, <2>m, <2>13 DEF Load, WithConnection
    <3>3. err' \in [Procs -> Errors]
      BY <2>0, <2>13 DEF Load, WithConnection, Errors
    <3>4. Stays /\ held[p] # None /\ applied' \in [Procs -> Nat] /\ pc[p] # "rest"
      BY <2>0, <2>13 DEF Load, pool, Owned, WithConnection
    <3> QED BY <3>1, <3>2, <3>3, <3>4, InPlace DEF Places, WithNone
  <2>14. CASE LoadFails(p)
    <3>1. Goto(p, "back")
      BY <2>14 DEF LoadFails
    <3>2. session' \in [Conns -> Session]
      BY <2>0, <2>m, <2>14, SessionsTyped, BadEndTyped DEF LoadFails, WithConnection
    <3>3. err' \in [Procs -> Errors]
      BY <2>0, <2>14, BadEndTyped DEF LoadFails, WithConnection, Errors
    <3>4. Stays /\ held[p] # None /\ applied' \in [Procs -> Nat] /\ pc[p] # "rest"
      BY <2>0, <2>14 DEF LoadFails, pool, Owned, WithConnection
    <3> QED BY <3>1, <3>2, <3>3, <3>4, InPlace DEF Places, WithNone
  <2>15. CASE SwitchBack(p)
    <3>1. Goto(p, "letGo")
      BY <2>15 DEF SwitchBack
    <3>2. session' \in [Conns -> Session]
      BY <2>0, <2>m, <2>15, SessionsTyped DEF SwitchBack, WithConnection
    <3>3. err' \in [Procs -> Errors]
      BY <2>0, <2>15 DEF SwitchBack, WithConnection, Errors
    <3>4. Stays /\ held[p] # None /\ applied' \in [Procs -> Nat] /\ pc[p] # "rest"
      BY <2>0, <2>15 DEF SwitchBack, pool, Owned, WithConnection
    <3> QED BY <3>1, <3>2, <3>3, <3>4, InPlace DEF Places, WithNone
  <2>16. CASE LetGo(p)
    BY <2>16, LettingGo DEF LetGo
  <2>17. CASE Again(p)
    BY <2>17, LettingGo DEF Again
  <2>18. CASE Wait(p)
    BY <2>18, Waiting DEF Wait
  <2> QED
    BY <1>1, <2>1, <2>2, <2>3, <2>4, <2>5, <2>6, <2>7, <2>8, <2>9, <2>10, <2>11, <2>12, <2>13, <2>14, <2>15, <2>16, <2>17, <2>18 DEF Step
<1>2. ASSUME NEW p \in Procs, Begin(p) \/ ContextEnds(p) PROVE TypeOK' /\ Owned'
  BY <1>2, Waiting DEF Begin, ContextEnds
<1>3. CASE UNCHANGED vars
  BY <1>3 DEF vars, pool, call, TypeOK, Owned
<1> QED BY <1>1, <1>2, <1>3 DEF Next

\* Every variable keeps its type: at most readRetryAttempts attempts, every
\* idle connection open.
THEOREM PooledTypeCorrect == Spec => []TypeOK
<1> QED BY InitOwned, StepOwned, PTL DEF Spec

-----------------------------------------------------------------------------
(* What the session of a checked-out connection may be, by where its call   *)
(* is: IdleClean is inductive only together with it.                        *)

Clean(s) == s.db = "login" /\ s.marks = {}
LeftOn(s) == s.marks = {"leftOn"}
Poolable(s) == LeftOn(s) \/ (s.marks = {} /\ s.db \in {"login", "master"})
IsBroken(s) == "broken" \in s.marks

Expected(at, o, s) ==
    /\ at \in {"prologue", "run", "recheck"} => Clean(s)
    /\ at = "rows" => /\ s.db \in {"login", "master"}
                      /\ s.marks \subseteq {"impersonated"}
                      /\ o # "impersonate" => s.marks = {}
    /\ at \in {"capture", "load"} => s.marks = {}
    /\ at \in {"batch", "stop"} => IsBroken(s) \/ s.marks \subseteq {"capturing"}
    /\ at = "back" => IsBroken(s) \/ LeftOn(s) \/ s.marks = {}
    /\ at \in {"again", "letGo"} => IsBroken(s) \/ Poolable(s)

Tidy ==
    /\ IdleClean
    /\ \A p \in Procs : held[p] # None => Expected(pc[p], op[p], session[held[p]])

\* The sessions of other connections are nobody else's to change.
LEMMA TidyInPlace ==
    ASSUME TypeOK, Owned, Tidy, NEW p \in Procs, held[p] \in Conns,
           UNCHANGED <<pool, op, held>>, NEW label, Goto(p, label),
           \A c \in Conns \ {held[p]} : session'[c] = session[c],
           Expected(label, op[p], session'[held[p]])
    PROVE  Tidy'
  <1>1. IdleClean'
    BY PooledAssumption DEF Tidy, IdleClean, Owned, TypeOK, pool
  <1>2. ASSUME NEW r \in Procs, held[r] # None
        PROVE  Expected(pc'[r], op[r], session'[held[r]])
    <2>1. CASE r = p
      BY <2>1 DEF Goto, TypeOK
    <2>2. CASE r # p
      <3>1. pc'[r] = pc[r] /\ held[r] \in Conns \ {held[p]}
        BY <1>2, <2>2, PooledAssumption DEF Goto, TypeOK, Owned
      <3> QED BY <1>2, <3>1 DEF Tidy
    <2> QED BY <2>1, <2>2
  <1> QED BY <1>1, <1>2 DEF Tidy

\* What the ways to change a session do to it, and leave alone.
Others(p) == \A c \in Conns \ {held[p]} : session'[c] = session[c]
Now(p) == session'[held[p]]

LEMMA SessionsAre ==
    ASSUME TypeOK, NEW p \in Procs, held[p] \in Conns
    PROVE  /\ UNCHANGED session => Others(p) /\ Now(p) = Mine(p)
           /\ \A m : Marked(p, m) => /\ Others(p)
                                     /\ Now(p).db = Mine(p).db
                                     /\ Now(p).marks = Mine(p).marks \cup m
           /\ \A m : session' = [session EXCEPT ![held[p]].marks = @ \ m]
                       => /\ Others(p)
                          /\ Now(p).db = Mine(p).db
                          /\ Now(p).marks = Mine(p).marks \ m
           /\ \A db : Switched(p, db) => /\ Others(p)
                                         /\ Now(p).db = db
                                         /\ Now(p).marks = Mine(p).marks
  <1>1. session \in [Conns -> Session] /\ session[held[p]] \in Session
    BY DEF TypeOK
  <1>2. \A s \in Session : DOMAIN s = {"db", "marks"}
    BY DEF Session
  <1> QED BY <1>1, <1>2 DEF Others, Now, Mine, Marked, Switched, Session

LEMMA BadEndIs ==
    ASSUME TypeOK, NEW p \in Procs, held[p] \in Conns,
           Refused(p) \/ Broke(p) \/ CutShort(p)
    PROVE  Others(p) /\ (Now(p) = Mine(p) \/ IsBroken(Now(p)))
  BY SessionsAre DEF Refused, Broke, CutShort, IsBroken

\* No session is idle with more on it than IdleClean allows (withSessionIn: "a
\* session left in d must not reach the pool either way"): whatever a step does
\* to the session it has, it leaves it as its place expects.
LEMMA StepTidy ==
    ASSUME TypeOK, Owned, Tidy, [Next]_vars
    PROVE  Tidy'
<1>1. ASSUME NEW p \in Procs, Step(p) PROVE Tidy'
  <2> DEFINE Stays == UNCHANGED <<pool, op, held>>
  <2>0. pc[p] \in WithConnection => held[p] \in Conns /\ Expected(pc[p], op[p], Mine(p))
    BY DEF TypeOK, Owned, Tidy, Mine
  <2>f. Failed(p) \in {"again", "letGo"}
    BY DEF Failed
  <2>1. CASE Run(p)
    <3>1. Stays /\ held[p] \in Conns /\ Expected(pc[p], op[p], Mine(p))
      BY <2>0, <2>1 DEF Run, pool, WithConnection
    <3>2. \E label \in {"rows", "letGo"} :
            Goto(p, label) /\ Others(p) /\ Expected(label, op[p], Now(p))
      <4>1. PICK db \in {"login", "master"} :
              session' = [session EXCEPT ![held[p]] =
                            [db |-> db,
                             marks |-> IF op[p] = "impersonate" THEN {"impersonated"} ELSE {}]]
        BY <2>1 DEF Run
      <4>2. Others(p) /\ Now(p).db = db
        BY <3>1, <4>1 DEF TypeOK, Others, Now
      <4>3. Now(p).marks = IF op[p] = "impersonate" THEN {"impersonated"} ELSE {}
        BY <3>1, <4>1 DEF TypeOK, Now
      <4>4. IF op[p] = "write" THEN Goto(p, "letGo") ELSE Goto(p, "rows")
        BY <2>1 DEF Run
      <4> QED BY <4>2, <4>3, <4>4 DEF Expected, Poolable
    <3> QED BY <3>1, <3>2, TidyInPlace DEF Others, Now
  <2>2. CASE RunFails(p)
    <3>1. Stays /\ held[p] \in Conns /\ Expected(pc[p], op[p], Mine(p))
      BY <2>0, <2>2 DEF RunFails, pool, WithConnection
    <3>2. Clean(Mine(p))
      BY <2>2, <3>1 DEF RunFails, Expected
    <3>3. /\ Others(p)
          /\ \/ Goto(p, "recheck") /\ Now(p) = Mine(p)
             \/ /\ Goto(p, Failed(p))
                /\ \/ Now(p) = Mine(p) \/ IsBroken(Now(p))
                   \/ Now(p).db = "master" /\ Now(p).marks = Mine(p).marks
      BY <2>2, <3>1, SessionsAre, BadEndIs DEF RunFails, Refused
    <3>4. \E label \in {"recheck", "again", "letGo"} :
            Goto(p, label) /\ Others(p) /\ Expected(label, op[p], Now(p))
      BY <2>f, <3>2, <3>3 DEF Expected, Clean, Poolable
    <3> QED BY <3>1, <3>4, TidyInPlace DEF Others, Now
  <2>3. CASE Recheck(p)
    <3>1. Stays /\ held[p] \in Conns /\ Expected(pc[p], op[p], Mine(p))
      BY <2>0, <2>3 DEF Recheck, pool, WithConnection
    <3>2. \E label \in {"again", "letGo"} :
            Goto(p, label) /\ Others(p) /\ Expected(label, op[p], Now(p))
      BY <2>f, <2>3, <3>1, SessionsAre, BadEndIs
      DEF Recheck, Expected, Clean, Poolable, IsBroken
    <3> QED BY <3>1, <3>2, TidyInPlace DEF Others, Now
  <2>4. CASE ReadRows(p)
    <3>1. Stays /\ held[p] \in Conns /\ Expected(pc[p], op[p], Mine(p))
      BY <2>0, <2>4 DEF ReadRows, pool, WithConnection
    <3>2. session' = [session EXCEPT ![held[p]].marks = @ \ {"impersonated"}]
             => /\ Others(p)
                /\ Now(p).db = Mine(p).db
                /\ Now(p).marks = Mine(p).marks \ {"impersonated"}
      BY <3>1, SessionsAre
    <3>3. \E label \in {"letGo"} :
            Goto(p, label) /\ Others(p) /\ Expected(label, op[p], Now(p))
      BY <2>4, <3>1, <3>2, SessionsAre DEF ReadRows, Expected, Clean, Poolable, IsBroken
    <3> QED BY <3>1, <3>3, TidyInPlace DEF Others, Now
  <2>5. CASE RowsFail(p)
    <3>1. Stays /\ held[p] \in Conns /\ Expected(pc[p], op[p], Mine(p))
      BY <2>0, <2>5 DEF RowsFail, pool, WithConnection
    <3>2. \E label \in {"letGo"} :
            Goto(p, label) /\ Others(p) /\ Expected(label, op[p], Now(p))
      BY <2>f, <2>5, <3>1, SessionsAre, BadEndIs
      DEF RowsFail, Expected, Clean, Poolable, IsBroken
    <3> QED BY <3>1, <3>2, TidyInPlace DEF Others, Now
  <2>6. CASE Prologue(p)
    <3>1. Stays /\ held[p] \in Conns /\ Expected(pc[p], op[p], Mine(p))
      BY <2>0, <2>6 DEF Prologue, pool, WithConnection
    <3>2. \E label \in {"capture", "load"} :
            Goto(p, label) /\ Others(p) /\ Expected(label, op[p], Now(p))
      BY <2>f, <2>6, <3>1, SessionsAre, BadEndIs
      DEF Prologue, Expected, Clean, Poolable, IsBroken
    <3> QED BY <3>1, <3>2, TidyInPlace DEF Others, Now
  <2>7. CASE PrologueFails(p)
    <3>1. Stays /\ held[p] \in Conns /\ Expected(pc[p], op[p], Mine(p))
      BY <2>0, <2>7 DEF PrologueFails, pool, WithConnection
    <3>2. \E label \in {"again"} :
            Goto(p, label) /\ Others(p) /\ Expected(label, op[p], Now(p))
      BY <2>f, <2>7, <3>1, SessionsAre, BadEndIs
      DEF PrologueFails, Expected, Clean, Poolable, IsBroken
    <3> QED BY <3>1, <3>2, TidyInPlace DEF Others, Now
  <2>8. CASE Capture(p)
    <3>1. Stays /\ held[p] \in Conns /\ Expected(pc[p], op[p], Mine(p))
      BY <2>0, <2>8 DEF Capture, pool, WithConnection
    <3>2. \E label \in {"batch", "back"} :
            Goto(p, label) /\ Others(p) /\ Expected(label, op[p], Now(p))
      BY <2>f, <2>8, <3>1, SessionsAre, BadEndIs
      DEF Capture, Expected, Clean, Poolable, LeftOn, IsBroken
    <3> QED BY <3>1, <3>2, TidyInPlace DEF Others, Now
  <2>9. CASE Batch(p)
    <3>1. Stays /\ held[p] \in Conns /\ Expected(pc[p], op[p], Mine(p))
      BY <2>0, <2>9 DEF Batch, pool, WithConnection
    <3>2. \E label \in {"stop"} :
            Goto(p, label) /\ Others(p) /\ Expected(label, op[p], Now(p))
      BY <2>f, <2>9, <3>1, SessionsAre, BadEndIs
      DEF Batch, Expected, Clean, Poolable, IsBroken
    <3> QED BY <3>1, <3>2, TidyInPlace DEF Others, Now
  <2>10. CASE Stop(p)
    <3>1. Stays /\ held[p] \in Conns /\ Expected(pc[p], op[p], Mine(p))
      BY <2>0, <2>10 DEF Stop, pool, WithConnection
    <3>2. \E label \in {"back"} :
            Goto(p, label) /\ Others(p) /\ Expected(label, op[p], Now(p))
      <4>1. Goto(p, "back") /\ pc[p] = "stop"
        BY <2>10 DEF Stop
      <4>2. CASE Marked(p, {"broken"})
        BY <3>1, <4>1, <4>2, SessionsAre DEF Expected, IsBroken
      <4>3. CASE \E m \in SUBSET {"leftOn"} :
                   session' = [session EXCEPT ![held[p]].marks = (@ \ {"capturing"}) \cup m]
        <5>1. PICK m \in SUBSET {"leftOn"} :
                session' = [session EXCEPT ![held[p]].marks = (@ \ {"capturing"}) \cup m]
          BY <4>3
        <5>2. Others(p) /\ Now(p).marks = (Mine(p).marks \ {"capturing"}) \cup m
          BY <3>1, <5>1, StopIs DEF Others, Now, Mine
        <5> QED BY <3>1, <4>1, <5>2 DEF Expected, LeftOn, IsBroken
      <4> QED BY <2>10, <4>2, <4>3 DEF Stop
    <3> QED BY <3>1, <3>2, TidyInPlace DEF Others, Now
  <2>11. CASE Load(p)
    <3>1. Stays /\ held[p] \in Conns /\ Expected(pc[p], op[p], Mine(p))
      BY <2>0, <2>11 DEF Load, pool, WithConnection
    <3>2. \E label \in {"back"} :
            Goto(p, label) /\ Others(p) /\ Expected(label, op[p], Now(p))
      BY <2>f, <2>11, <3>1, SessionsAre, BadEndIs
      DEF Load, Expected, Clean, Poolable, IsBroken
    <3> QED BY <3>1, <3>2, TidyInPlace DEF Others, Now
  <2>12. CASE LoadFails(p)
    <3>1. Stays /\ held[p] \in Conns /\ Expected(pc[p], op[p], Mine(p))
      BY <2>0, <2>12 DEF LoadFails, pool, WithConnection
    <3>2. \E label \in {"back"} :
            Goto(p, label) /\ Others(p) /\ Expected(label, op[p], Now(p))
      BY <2>f, <2>12, <3>1, SessionsAre, BadEndIs
      DEF LoadFails, Expected, Clean, Poolable, IsBroken
    <3> QED BY <3>1, <3>2, TidyInPlace DEF Others, Now
  <2>13. CASE SwitchBack(p)
    <3>1. Stays /\ held[p] \in Conns /\ Expected(pc[p], op[p], Mine(p))
      BY <2>0, <2>13 DEF SwitchBack, pool, WithConnection
    <3>2. \E label \in {"letGo"} :
            Goto(p, label) /\ Others(p) /\ Expected(label, op[p], Now(p))
      BY <2>f, <2>13, <3>1, SessionsAre, BadEndIs
      DEF SwitchBack, Expected, Clean, Poolable, LeftOn, IsBroken
    <3> QED BY <3>1, <3>2, TidyInPlace DEF Others, Now
  <2>14. CASE Acquire(p)
    <3>1. PICK c \in Available : /\ held' = [held EXCEPT ![p] = c]
                                 /\ idle' = idle \ {c}
                                 /\ session' = [session EXCEPT ![c] = Fresh]
      BY <2>14 DEF Acquire
    <3>2. PICK label \in {"prologue", "run"} : pc' = [pc EXCEPT ![p] = label]
      BY <2>14 DEF Acquire, Goto
    <3>3. c \in Conns /\ (c \in idle \/ c \notin open) /\ UNCHANGED op
      BY <2>14, <3>1 DEF Acquire, Available, TypeOK
    <3>4. \A r \in Procs : r # p => held[r] # c
      BY <3>3, PooledAssumption DEF Owned, TypeOK
    <3>5. IdleClean'
      BY <3>1, <3>3 DEF Tidy, IdleClean, TypeOK
    <3>6. Expected(pc'[p], op'[p], session'[held'[p]])
      BY <3>1, <3>2, <3>3 DEF TypeOK, Expected, Clean, Fresh
    <3>7. \A r \in Procs \ {p} : held'[r] # None => Expected(pc'[r], op'[r], session'[held'[r]])
      BY <3>1, <3>2, <3>3, <3>4 DEF Tidy, TypeOK
    <3> QED BY <3>5, <3>6, <3>7 DEF Tidy
  <2>15. CASE NotAcquired(p)
    <3>1. UNCHANGED <<idle, session, op, held>> /\ Goto(p, "again") /\ pc[p] = "acquire"
      BY <2>15 DEF NotAcquired, pool
    <3>2. held[p] = None
      BY <3>1 DEF Owned, WithNone
    <3> QED BY <3>1, <3>2 DEF Tidy, IdleClean, Goto, TypeOK
  <2>16. CASE LetGo(p) \/ Again(p)
    <3>1. /\ Close(p) /\ UNCHANGED session
          /\ pc[p] \in {"again", "letGo"}
          /\ held' = [held EXCEPT ![p] = None]
      BY <2>16 DEF LetGo, Again, Close
    <3>2. \A r \in Procs \ {p} : pc'[r] = pc[r] /\ op'[r] = op[r]
      BY <2>16 DEF LetGo, Again, Return, Goto, TypeOK
    <3>3. IdleClean'
      BY <3>1, PooledAssumption DEF Close, Poolable, LeftOn, Tidy, IdleClean, Expected, IsBroken, Mine,
                                   TypeOK
    <3> QED BY <3>1, <3>2, <3>3 DEF Tidy, TypeOK
  <2>17. CASE Wait(p)
    <3>1. UNCHANGED <<idle, session, held>> /\ held[p] = None
      BY <2>17 DEF Wait, pool, Owned, WithNone
    <3>2. \A r \in Procs \ {p} : pc'[r] = pc[r] /\ op'[r] = op[r]
      BY <2>17 DEF Wait, Return, Goto, TypeOK
    <3> QED BY <3>1, <3>2 DEF Tidy, IdleClean
  <2> QED
    BY <1>1, <2>1, <2>2, <2>3, <2>4, <2>5, <2>6, <2>7, <2>8, <2>9, <2>10, <2>11,
       <2>12, <2>13, <2>14, <2>15, <2>16, <2>17 DEF Step
<1>2. ASSUME NEW p \in Procs, Begin(p) \/ ContextEnds(p) PROVE Tidy'
  <2>1. UNCHANGED <<idle, session, held>>
    BY <1>2 DEF Begin, ContextEnds, pool
  <2>2. CASE Begin(p)
    <3>1. held[p] = None
      BY <2>2 DEF Begin, Owned, WithNone
    <3>2. \A r \in Procs \ {p} : pc'[r] = pc[r] /\ op'[r] = op[r]
      BY <2>2 DEF Begin, Goto, TypeOK
    <3> QED BY <2>1, <3>1, <3>2 DEF Tidy, IdleClean
  <2>3. CASE ContextEnds(p)
    BY <2>1, <2>3 DEF ContextEnds, Tidy, IdleClean
  <2> QED BY <1>2, <2>2, <2>3
<1>3. CASE UNCHANGED vars
  BY <1>3 DEF vars, pool, call, Tidy, IdleClean
<1> QED BY <1>1, <1>2, <1>3 DEF Next

\* Whatever becomes of a capture, a load, an impersonated read or their
\* contexts, a session in the pool has nothing left on it and is in no database
\* a call went to, unless it is one whose SET ... ON, or OFF, ended in an error
\* with the capture on: the pool keeps that under the capture (IdleClean), for
\* the reset of its next checkout to end.
THEOREM PooledSessionsClean == Spec => []IdleClean
<1> DEFINE IInv == TypeOK /\ Owned /\ Tidy
<1>1. Init => IInv
  <2> SUFFICES ASSUME Init PROVE Tidy
    BY InitOwned
  <2> QED BY DEF Init, Tidy, IdleClean
<1>2. IInv /\ [Next]_vars => IInv'
  BY StepOwned, StepTidy
<1>3. IInv => IdleClean
  BY DEF Tidy
<1> QED BY <1>1, <1>2, <1>3, PTL DEF Spec
-----------------------------------------------------------------------------
(* How often a call's statement has taken effect, by where the call is: a read  *)
(* once for each attempt that ran it, anything else once, and it is over then.   *)

Reading == {"read", "impersonate"}

Counted(at, o, applies, try, e) ==
    /\ at = "rest" => try = 1 /\ e = "none"
    /\ at # "rest" => o # "none"
    /\ at \in {"rest", "acquire"} => applies = 0 \/ (o \in Reading /\ applies < try)
    /\ at \in {"run", "recheck"} => o \in Reading \cup {"write"}
    /\ at \in {"prologue", "back"} => o \in {"plan", "bulk"}
    /\ at \in {"capture", "batch", "stop"} => o = "plan"
    /\ at = "load" => o = "bulk"
    /\ at = "rows" => o \in Reading
    /\ at \in {"acquire", "prologue", "run", "recheck", "capture", "batch", "load"} =>
          applies < IF o \in Reading THEN try ELSE 1
    /\ at \in {"again", "wait"} => applies <= IF o \in Reading THEN try ELSE 0
    /\ at \in {"rows", "letGo", "stop", "back"} => applies <= IF o \in Reading THEN try ELSE 1
    /\ at \in {"acquire", "prologue", "run", "capture", "batch", "load"} => e = "none"
    /\ at \in {"recheck", "again", "wait"} => e # "none"
    /\ at \in {"rows", "letGo", "stop", "back"} => e # "none" \/ applies > 0

Count(p) == Counted(pc[p], op[p], applied[p], attempt[p], err[p])
Tally == \A p \in Procs : Count(p)

\* A goroutine's step is its own.
LEMMA OnlyItsOwn ==
    ASSUME TypeOK, NEW p \in Procs, Begin(p) \/ ContextEnds(p) \/ Step(p), NEW r \in Procs, r # p
    PROVE  /\ pc'[r] = pc[r] /\ op'[r] = op[r] /\ applied'[r] = applied[r]
           /\ attempt'[r] = attempt[r] /\ err'[r] = err[r]
<1> USE DEF TypeOK, Goto, Raise
<1>1. CASE Begin(p) \/ ContextEnds(p)
  BY <1>1 DEF Begin, ContextEnds
<1>2. CASE Acquire(p) \/ NotAcquired(p) \/ Run(p) \/ RunFails(p) \/ Recheck(p)
  BY <1>2 DEF Acquire, NotAcquired, Run, RunFails, Recheck, Refused, Reported, Broke, CutShort,
              MayHaveApplied
<1>3. CASE ReadRows(p) \/ RowsFail(p) \/ Prologue(p) \/ PrologueFails(p) \/ Capture(p)
  BY <1>3 DEF ReadRows, RowsFail, Prologue, PrologueFails, Capture, Refused, Reported, Broke,
              CutShort
<1>4. CASE Batch(p)
  BY <1>4 DEF Batch, Broke, MayHaveApplied
<1>5. CASE Stop(p) \/ Load(p) \/ LoadFails(p) \/ SwitchBack(p)
  BY <1>5 DEF Stop, Load, LoadFails, SwitchBack, Refused, Reported, Broke, CutShort,
              MayHaveApplied
<1>6. CASE LetGo(p) \/ Again(p) \/ Wait(p)
  BY <1>6 DEF LetGo, Again, Wait, Return
<1> QED BY <1>1, <1>2, <1>3, <1>4, <1>5, <1>6 DEF Step

LEMMA StepCounts ==
    ASSUME TypeOK, Tally, NEW p \in Procs, Begin(p) \/ ContextEnds(p) \/ Step(p)
    PROVE  Count(p)'
<1> USE DEF TypeOK, Goto, Raise, Reading, readRetryAttempts
<1>0. Counted(pc[p], op[p], applied[p], attempt[p], err[p]) /\ op[p] \in AllOps \cup {"none"}
  BY DEF Tally, Count
<1>1. CASE Begin(p)
  <2>1. PICK o \in AllOps : op' = [op EXCEPT ![p] = o]
    BY <1>1, PooledAssumption DEF Begin
  <2> QED BY <1>0, <1>1, <2>1 DEF Begin, Count, Counted, AllOps
<1>2. CASE ContextEnds(p)
  BY <1>0, <1>2 DEF ContextEnds, Count, Counted
<1>3. CASE Acquire(p)
  BY <1>0, <1>3 DEF Acquire, Count, Counted, AllOps
<1>4. CASE NotAcquired(p)
  BY <1>0, <1>4 DEF NotAcquired, Count, Counted
<1>5. CASE Run(p)
  BY <1>0, <1>5 DEF Run, Count, Counted
<1>6. CASE RunFails(p)
  <2>1. err'[p] # "none" /\ applied'[p] \in {applied[p], applied[p] + 1}
    BY <1>6 DEF RunFails, Refused, Reported, Broke, CutShort, MayHaveApplied
  <2>2. \/ pc'[p] = "recheck" /\ applied'[p] = applied[p]
        \/ pc'[p] = Failed(p)
    BY <1>6 DEF RunFails
  <2> QED BY <1>0, <1>6, <2>1, <2>2 DEF RunFails, Failed, Count, Counted
<1>7. CASE Recheck(p)
  <2>1. err'[p] = err[p] \/ err'[p] # "none"
    BY <1>7 DEF Recheck, Refused, Reported, Broke
  <2> QED BY <1>0, <1>7, <2>1 DEF Recheck, Failed, Count, Counted
<1>8. CASE ReadRows(p)
  BY <1>0, <1>8 DEF ReadRows, Count, Counted
<1>9. CASE RowsFail(p)
  BY <1>0, <1>9 DEF RowsFail, Count, Counted
<1>10. CASE Prologue(p)
  BY <1>0, <1>10 DEF Prologue, Count, Counted
<1>11. CASE PrologueFails(p)
  <2>1. err'[p] # "none"
    BY <1>11 DEF PrologueFails, Refused, Reported, Broke
  <2> QED BY <1>0, <1>11, <2>1 DEF PrologueFails, Count, Counted
<1>12. CASE Capture(p)
  <2>1. \/ pc'[p] = "batch" /\ err'[p] = err[p]
        \/ pc'[p] = "back" /\ err'[p] # "none"
    <3>1. CASE Goto(p, "batch") /\ UNCHANGED err
      BY <3>1
    <3>2. CASE (Refused(p) \/ Broke(p) \/ CutShort(p)) /\ Goto(p, "back")
      <4>1. err'[p] # "none"
        BY <3>2 DEF Refused, Reported, Broke, CutShort
      <4> QED BY <3>2, <4>1
    <3>3. CASE Raise(p, "context") /\ Goto(p, "back")
      BY <3>3
    <3>4. \/ Goto(p, "batch") /\ UNCHANGED err
          \/ (Refused(p) \/ Broke(p) \/ CutShort(p)) /\ Goto(p, "back")
          \/ Raise(p, "context") /\ Goto(p, "back")
      BY <1>12, Zenon DEF Capture
    <3> QED BY <3>1, <3>2, <3>3, <3>4
  <2> QED BY <1>0, <1>12, <2>1 DEF Capture, Count, Counted
<1>13. CASE Batch(p)
  <2>1. applied'[p] \in {applied[p], applied[p] + 1}
    BY <1>13 DEF Batch, MayHaveApplied
  <2>2. err'[p] = "none" => applied'[p] = applied[p] + 1
    BY <1>13 DEF Batch
  <2> QED BY <1>0, <1>13, <2>1, <2>2 DEF Batch, Count, Counted
<1>14. CASE Stop(p)
  BY <1>0, <1>14 DEF Stop, Count, Counted
<1>15. CASE Load(p)
  BY <1>0, <1>15 DEF Load, Count, Counted
<1>16. CASE LoadFails(p)
  <2>1. err'[p] # "none" /\ applied'[p] \in {applied[p], applied[p] + 1}
    BY <1>16 DEF LoadFails, Refused, Reported, Broke, CutShort, MayHaveApplied
  <2> QED BY <1>0, <1>16, <2>1 DEF LoadFails, Count, Counted
<1>17. CASE SwitchBack(p)
  BY <1>0, <1>17 DEF SwitchBack, Count, Counted
<1>18. CASE LetGo(p)
  BY <1>0, <1>18 DEF LetGo, Return, Count, Counted
<1>19. CASE Again(p)
  BY <1>0, <1>19 DEF Again, Return, Count, Counted
<1>20. CASE Wait(p)
  BY <1>0, <1>20 DEF Wait, Return, Count, Counted
<1> QED BY <1>1, <1>2, <1>3, <1>4, <1>5, <1>6, <1>7, <1>8, <1>9, <1>10, <1>11, <1>12,
           <1>13, <1>14, <1>15, <1>16, <1>17, <1>18, <1>19, <1>20 DEF Step

\* Whatever becomes of a call's connections, its write is not applied twice, its
\* read not more often than it may be tried, and neither is reported done undone.
THEOREM WritesAtMostOnce == Spec => []AtMostOnce
<1> DEFINE IInv == TypeOK /\ Owned /\ Tally
<1>1. Init => IInv
  <2> SUFFICES ASSUME Init PROVE Tally
    BY InitOwned
  <2> QED BY DEF Init, Tally, Count, Counted
<1>2. IInv /\ [Next]_vars => IInv'
  <2> SUFFICES ASSUME IInv, [Next]_vars PROVE Tally'
    BY StepOwned
  <2>1. CASE UNCHANGED vars
    BY <2>1 DEF vars, call, Tally, Count
  <2>2. ASSUME NEW p \in Procs, Begin(p) \/ ContextEnds(p) \/ Step(p) PROVE Tally'
    <3>1. Count(p)'
      BY <2>2, StepCounts
    <3>2. ASSUME NEW r \in Procs, r # p PROVE Count(r)'
      BY <2>2, <3>2, OnlyItsOwn DEF Tally, Count
    <3> QED BY <3>1, <3>2 DEF Tally
  <2> QED BY <2>1, <2>2 DEF Next
<1>3. IInv => AtMostOnce
  BY DEF TypeOK, Tally, Count, Counted, AtMostOnce, Reading, readRetryAttempts
<1> QED BY <1>1, <1>2, <1>3, PTL DEF Spec
=============================================================================
