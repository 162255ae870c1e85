-------------------------- MODULE TxSessionProofs ---------------------------
(***************************************************************************)
(* Proofs about TxSession, for any databases, any mix of statements and    *)
(* any bounds: its type invariant; that COMMIT never puts a half-done      *)
(* atomic write in force; and, for statements that send no USE of their    *)
(* own, that every statement runs in the database it names.                *)
(***************************************************************************)
EXTENDS TxSession, Induction

\* The database the transaction began in is known from the first statement on.
HomeKnown ==
    phase \in {"fn", "homeThenCommit", "homeThenRollback", "commit", "rollback"}
        => home \in Databases

\* A running statement has a number, and only a database has read follow-ups
\* and plan captures.
OpInProgress ==
    /\ op # NoOp => calls \in 1..MaxCalls
    /\ op.form \in ReadStages \cup {"plan"} => op.at \in Databases

\* A half-done write among the uncommitted ones is on record, and a recorded
\* failure keeps fn's nil from COMMIT.
HalfDoneRecorded ==
    /\ failed \/ \A i \in DOMAIN effects : effects[i].parts = effects[i].of
    /\ phase \in {"homeThenCommit", "commit"} => ~failed

Base == TypeOK /\ HomeKnown /\ OpInProgress /\ HalfDoneRecorded /\ NoHalfWrite

-----------------------------------------------------------------------------

LEMMA EmptyWrites == <<>> \in Seq(Write) /\ <<>> \in Seq(Effect)
  BY EmptySeq

LEMMA InitBase == Init => Base
  <1> SUFFICES ASSUME Init PROVE Base
    OBVIOUS
  <1>1. TypeOK
    <2>1. /\ pending \in Seq(Write) /\ heard \in Seq(Write)
          /\ effects \in Seq(Effect) /\ inForce \in Seq(Effect)
      BY EmptyWrites DEF Init
    <2>2. served \in [target : Databases, ran : Databases]
      BY DEF Init
    <2>3. depth \in 0..MaxDepth /\ calls \in 0..MaxCalls
      BY TxAssumption DEF Init
    <2>4. /\ phase \in Phases
          /\ verdict \in {"none", "nil", "error", "panic"}
          /\ xact \in {"none", "open", "committed", "gone"}
          /\ ctxEnded \in BOOLEAN /\ failed \in BOOLEAN /\ strayed \in BOOLEAN
      BY DEF Init, Phases
    <2> QED
      BY <2>1, <2>2, <2>3, <2>4 DEF Init, TypeOK
  <1>2. HomeKnown /\ OpInProgress
    BY DEF Init, HomeKnown, OpInProgress, NoOp, ReadStages
  <1>3. HalfDoneRecorded /\ NoHalfWrite
    BY DEF Init, HalfDoneRecorded, NoHalfWrite
  <1> QED
    BY <1>1, <1>2, <1>3 DEF Base

\* What a failed round trip leaves of the writes is of the type of writes,
\* whole if they were or recorded.
LEMMA SurvivesType ==
  ASSUME TypeOK, NEW kept \in Seq(Effect), SurvivesOrGone(kept)
  PROVE  /\ xact' \in {"none", "open", "committed", "gone"}
         /\ effects' \in Seq(Effect)
         /\ effects' = kept \/ effects' = <<>>
  <1>1. CASE xact' = xact /\ effects' = kept
    BY <1>1 DEF TypeOK
  <1>2. CASE xact' = "gone" /\ effects' = <<>>
    BY <1>2, EmptyWrites
  <1> QED
    BY <1>1, <1>2 DEF SurvivesOrGone

LEMMA DoneType ==
  ASSUME TypeOK, OpInProgress, op # NoOp, NEW k \in Nat
  PROVE  /\ Done(op, k) \in Effect
         /\ Named(op) \in Write
         /\ Done(op, k).parts = k /\ Done(op, k).of = Parts(op)
         /\ Parts(op) \in Nat /\ Parts(op) >= 1
  BY TxAssumption DEF TypeOK, OpInProgress, Done, Named, Effect, Write, Op, Parts

LEMMA UnansweredType ==
  ASSUME TypeOK, OpInProgress, op # NoOp, NEW k \in Nat
  PROVE  /\ Unanswered(op, k) \in Effect
         /\ Unanswered(op, k).parts = k /\ Unanswered(op, k).of = Parts(op)
         /\ ~Unanswered(op, k).seen
  BY DoneType DEF Unanswered, Effect

\* Appending a whole write keeps the writes whole.
LEMMA AppendWhole ==
  ASSUME NEW es \in Seq(Effect), NEW e \in Effect, e.parts = e.of,
         \A i \in DOMAIN es : es[i].parts = es[i].of
  PROVE  \A i \in DOMAIN Append(es, e) : Append(es, e)[i].parts = Append(es, e)[i].of
  <1> SUFFICES ASSUME NEW i \in DOMAIN Append(es, e)
               PROVE  Append(es, e)[i].parts = Append(es, e)[i].of
    OBVIOUS
  <1>1. i \in 1..(Len(es) + 1)
    OBVIOUS
  <1>2. CASE i = Len(es) + 1
    BY <1>2
  <1>3. CASE i \in 1..Len(es)
    BY <1>3
  <1> QED
    BY <1>1, <1>2, <1>3

LEMMA StepBase == Base /\ [Next]_vars => Base'
  <1> SUFFICES ASSUME Base, [Next]_vars
               PROVE  Base'
    OBVIOUS
  <1> USE TxAssumption
  <1>1. CASE Begin
    BY <1>1 DEF Begin, Base, TypeOK, HomeKnown, OpInProgress,
                HalfDoneRecorded, NoHalfWrite, Phases, client
  <1>2. CASE ReadHome
    BY <1>2 DEF ReadHome, Base, TypeOK, HomeKnown, OpInProgress,
                HalfDoneRecorded, NoHalfWrite, Phases, Reachable
  <1>3. CASE Issue
    BY <1>3 DEF NoOp,  Issue, Base, TypeOK, HomeKnown, OpInProgress, Requests,
                HalfDoneRecorded, NoHalfWrite, Phases, client, server, ReadStages,
                ServerForms, DatabaseForms, Op
  <1>4. CASE Join \/ LeaveJoined \/ FnReturnsNil \/ FnFails
    BY <1>4 DEF Join, LeaveJoined, FnReturnsNil, FnFails, Base, TypeOK, HomeKnown,
                OpInProgress, HalfDoneRecorded, NoHalfWrite, Phases, client, server
  <1>5. CASE GoHome
    <2>1. /\ current' \in Databases \cup {Unknown} /\ session' \in Databases
          /\ strayed' \in BOOLEAN /\ phase' \in Phases
          /\ phase' = "commit" => phase = "homeThenCommit"
          /\ phase' \in {"commit", "rollback"}
      BY <1>5 DEF GoHome, AfterHome, MayHaveMovedTo, In, Base, TypeOK, HomeKnown, Phases
    <2> QED
      BY <1>5, <2>1 DEF GoHome, Base, TypeOK, HomeKnown, OpInProgress, HalfDoneRecorded,
                        NoHalfWrite
  <1>6. CASE Commit
    <2>1. /\ effects' \in Seq(Effect) /\ inForce' \in Seq(Effect)
          /\ effects' = effects \/ effects' = <<>>
          /\ (inForce' = effects /\ ~failed) \/ inForce' = inForce
      BY <1>6, EmptyWrites DEF Commit, Base, TypeOK, HalfDoneRecorded
    <2>2. phase' \in {"report", "done"}
      BY <1>6 DEF Commit
    <2> QED
      BY <1>6, <2>1, <2>2 DEF Commit, Base, TypeOK, HomeKnown, OpInProgress,
                        HalfDoneRecorded, NoHalfWrite, Phases, client
  <1>7. CASE Rollback \/ DriverRollsBack \/ ContextEnds \/ Returned \/ CommitRefused
             \/ UNCHANGED vars
    <2>1. /\ effects' \in Seq(Effect)
          /\ effects' = effects \/ effects' = <<>>
      BY <1>7, EmptyWrites DEF Rollback, DriverRollsBack, ContextEnds, Returned,
                        CommitRefused, vars, server, Base, TypeOK
    <2>2. /\ phase' = phase \/ phase' \in {"done", "homeThenRollback"}
          /\ phase' = "homeThenRollback" /\ phase' # phase => phase = "commit"
          /\ xact' \in {xact, "gone"}
          /\ ctxEnded' \in BOOLEAN
          /\ verdict' \in {verdict, "error"}
      BY <1>7 DEF Rollback, DriverRollsBack, ContextEnds, Returned, CommitRefused,
                  vars, server, Base, TypeOK
    <2>3. UNCHANGED <<depth, op, calls, client, heard, session, inForce, served, strayed,
                   untracked>>
      BY <1>7 DEF Rollback, DriverRollsBack, ContextEnds, Returned, CommitRefused,
                  vars, server, client
    <2> QED
      BY <2>1, <2>2, <2>3 DEF Base, TypeOK, HomeKnown, OpInProgress, HalfDoneRecorded,
                        NoHalfWrite, Phases, client
  <1>8. CASE Report
    <2>1. heard' \in Seq(Write)
      <3>1. CASE Len(heard) < Len(pending)
        <4>1. heard \in Seq(Write) /\ pending \in Seq(Write)
          BY DEF Base, TypeOK
        <4>2. Len(heard) + 1 \in 1..Len(pending)
          BY <3>1, <4>1, LenProperties
        <4>3. pending[Len(heard) + 1] \in Write
          BY <4>1, <4>2, ElementOfSeq
        <4>4. heard' = Append(heard, pending[Len(heard) + 1])
          BY <1>8, <3>1 DEF Report
        <4> QED
          BY <4>1, <4>3, <4>4, AppendProperties
      <3> QED
        BY <1>8, <3>1 DEF Report, Base, TypeOK
    <2> QED
      BY <1>8, <2>1 DEF Report, Base, TypeOK, HomeKnown, OpInProgress,
                HalfDoneRecorded, NoHalfWrite, Phases, client, server
  <1>9. CASE Statement
    <2> USE DEF Base, HomeKnown, KeepCall, KeepClient, EndOp, client, Phases
    <2> DEFINE Kept == /\ xact' \in {"none", "open", "committed", "gone"}
                       /\ effects' \in Seq(Effect)
                       /\ effects' = effects \/ effects' = <<>>
    <2>1. CASE SwitchSession
      BY <2>1 DEF SwitchSession, Switching, Target, TypeOK, OpInProgress,
                  HalfDoneRecorded, NoHalfWrite, Op, NoOp
    <2>2. CASE SwitchSessionFails
      <3>1. Kept
        BY <2>2, SurvivesType DEF SwitchSessionFails, TypeOK
      <3> QED
        BY <2>2, <3>1 DEF SwitchSessionFails, Switching, MayHaveMovedTo, Target,
                          TypeOK, OpInProgress, HalfDoneRecorded, NoHalfWrite, Op,
                          NoOp, ReadStages
    <2>3. CASE RunWrite
      <3>1. /\ Done(op, Parts(op)) \in Effect /\ Named(op) \in Write
            /\ Done(op, Parts(op)).parts = Done(op, Parts(op)).of
        BY <2>3, DoneType DEF RunWrite, Ready
      <3>2. /\ effects' \in Seq(Effect)
            /\ failed \/ \A i \in DOMAIN effects' : effects'[i].parts = effects'[i].of
        BY <2>3, <3>1, AppendWhole DEF RunWrite, TypeOK, HalfDoneRecorded
      <3>3. pending' \in Seq(Write)
        BY <2>3, <3>1 DEF RunWrite, Hold, TypeOK
      <3>4. served' \in [target : Databases, ran : Databases]
        BY <2>3 DEF RunWrite, Ready, In, Serve, TypeOK
      <3> QED
        BY <2>3, <3>2, <3>3, <3>4 DEF RunWrite, Ready, TypeOK, OpInProgress,
                          HalfDoneRecorded, NoHalfWrite, NoOp, ReadStages
    <2>4. CASE RunWriteFails
      <3>1. PICK k \in 0..Parts(op) :
              IF k > 0
              THEN /\ Reachable
                   /\ SurvivesOrGone(Append(effects, Unanswered(op, k)))
                   /\ Serve(Target(op), session)
              ELSE SurvivesOrGone(effects) /\ UNCHANGED served
        BY <2>4 DEF RunWriteFails
      <3>2. /\ Parts(op) \in Nat /\ k \in Nat /\ Unanswered(op, k) \in Effect
            /\ Unanswered(op, k).parts = k /\ Unanswered(op, k).of = Parts(op)
            /\ k > 0 /\ op.form # "atomic" => k = Parts(op)
        BY <2>4, DoneType, UnansweredType DEF RunWriteFails, Ready, Parts
      <3>3. /\ xact' \in {"none", "open", "committed", "gone"}
            /\ effects' \in Seq(Effect)
            /\ effects' \in {effects, <<>>, Append(effects, Unanswered(op, k))}
            /\ k = 0 => effects' \in {effects, <<>>}
        <4>1. CASE k > 0
          <5>1. Append(effects, Unanswered(op, k)) \in Seq(Effect)
            BY <3>2 DEF TypeOK
          <5>2. SurvivesOrGone(Append(effects, Unanswered(op, k)))
            BY <3>1, <4>1
          <5>3. /\ xact' \in {"none", "open", "committed", "gone"}
                /\ effects' \in Seq(Effect)
                /\ effects' = Append(effects, Unanswered(op, k)) \/ effects' = <<>>
            BY <5>1, <5>2, SurvivesType
          <5> QED
            BY <3>2, <4>1, <5>3
        <4>2. CASE ~(k > 0)
          BY <3>1, <4>2, SurvivesType DEF TypeOK
        <4> QED
          BY <4>1, <4>2
      <3>4. failed' \/ \A i \in DOMAIN effects' : effects'[i].parts = effects'[i].of
        <4>1. CASE op.form = "atomic"
          BY <2>4, <4>1 DEF RunWriteFails
        <4>2. CASE effects' \in {effects, <<>>}
          BY <2>4, <4>2 DEF RunWriteFails, HalfDoneRecorded, TypeOK
        <4>3. CASE op.form # "atomic" /\ effects' = Append(effects, Unanswered(op, k))
                   /\ k # 0
          <5>1. ~failed => \A i \in DOMAIN effects' : effects'[i].parts = effects'[i].of
            BY <3>2, <4>3, AppendWhole DEF HalfDoneRecorded, TypeOK
          <5> QED BY <2>4, <5>1 DEF RunWriteFails
        <4> QED
          BY <3>3, <4>1, <4>2, <4>3
      <3>5. served' \in [target : Databases, ran : Databases]
        BY <2>4, <3>1 DEF RunWriteFails, Ready, In, Serve, TypeOK
      <3> QED
        BY <2>4, <3>3, <3>4, <3>5 DEF RunWriteFails, Ready, AfterFailure, TypeOK,
                          OpInProgress, HalfDoneRecorded, NoHalfWrite, NoOp, ReadStages
    <2>5. CASE RunServerRead
      <3>1. Kept
        BY <2>5, SurvivesType DEF RunServerRead, TypeOK
      <3> QED
        BY <2>5, <3>1 DEF RunServerRead, Ready, In, Target, Serve, TypeOK,
                          OpInProgress, HalfDoneRecorded, NoHalfWrite, NoOp, ReadStages
    <2>6. CASE RunGrant
      <3>1. /\ Done(op, 1) \in Effect /\ Named(op) \in Write
            /\ Done(op, 1).parts = Done(op, 1).of
            /\ Unanswered(op, 1) \in Effect
            /\ Unanswered(op, 1).parts = Unanswered(op, 1).of
        BY <2>6, DoneType, UnansweredType DEF RunGrant, Ready, Parts
      <3>2. /\ xact' \in {"none", "open", "committed", "gone"}
            /\ effects' \in Seq(Effect)
            /\ failed \/ \A i \in DOMAIN effects' : effects'[i].parts = effects'[i].of
            /\ pending' \in Seq(Write)
        <4>1. CASE effects' = Append(effects, Done(op, 1)) /\ Hold(op) /\ UNCHANGED xact
          BY <3>1, <4>1, AppendWhole DEF Hold, TypeOK, HalfDoneRecorded
        <4>2. CASE SurvivesOrGone(effects) /\ UNCHANGED pending
          BY <4>2, SurvivesType DEF TypeOK, HalfDoneRecorded
        <4>3. CASE SurvivesOrGone(Append(effects, Unanswered(op, 1))) /\ UNCHANGED pending
          <5>1. /\ Append(effects, Unanswered(op, 1)) \in Seq(Effect)
                /\ pending \in Seq(Write)
            BY <3>1 DEF TypeOK
          <5>2. /\ xact' \in {"none", "open", "committed", "gone"}
                /\ effects' \in Seq(Effect)
                /\ effects' = Append(effects, Unanswered(op, 1)) \/ effects' = <<>>
            BY <4>3, <5>1, SurvivesType
          <5>3. failed \/ \A i \in DOMAIN effects' : effects'[i].parts = effects'[i].of
            <6>1. CASE failed \/ effects' = <<>>
              BY <6>1
            <6>2. CASE ~failed /\ effects' = Append(effects, Unanswered(op, 1))
              <7>1. /\ effects \in Seq(Effect)
                    /\ \A i \in DOMAIN effects : effects[i].parts = effects[i].of
                BY <6>2 DEF TypeOK, HalfDoneRecorded
              <7> QED
                BY <3>1, <6>2, <7>1, AppendWhole
            <6> QED
              BY <5>2, <6>1, <6>2
          <5> QED
            BY <4>3, <5>1, <5>2, <5>3
        <4> QED
          BY <2>6, <4>1, <4>2, <4>3 DEF RunGrant
      <3> QED
        BY <2>6, <3>2 DEF RunGrant, Ready, MayHaveMovedTo, TypeOK, OpInProgress,
                          HalfDoneRecorded, NoHalfWrite, NoOp, ReadStages
    <2>7. CASE RunFromMaster
      <3>1. Kept
        BY <2>7, SurvivesType DEF RunFromMaster, TypeOK
      <3> QED
        BY <2>7, <3>1 DEF RunFromMaster, Ready, MayHaveMovedTo, AfterFailure, TypeOK,
                          OpInProgress, HalfDoneRecorded, NoHalfWrite, NoOp, ReadStages
    <2>8. CASE RunPlan
      <3>1. /\ Done(op, 1) \in Effect
            /\ Done(op, 1).parts = Done(op, 1).of
            /\ Unanswered(op, 1) \in Effect
            /\ Unanswered(op, 1).parts = Unanswered(op, 1).of
        BY <2>8, DoneType, UnansweredType DEF RunPlan, Ready, Parts
      <3>2. /\ xact' \in {"none", "open", "committed", "gone"}
            /\ effects' \in Seq(Effect)
            /\ failed \/ \A i \in DOMAIN effects' : effects'[i].parts = effects'[i].of
        <4>1. CASE effects' = Append(effects, Done(op, 1)) /\ UNCHANGED xact
          BY <3>1, <4>1, AppendWhole DEF TypeOK, HalfDoneRecorded
        <4>2. CASE effects' = effects /\ UNCHANGED xact
          BY <4>2 DEF TypeOK, HalfDoneRecorded
        <4>3. CASE SurvivesOrGone(effects)
          BY <4>3, SurvivesType DEF TypeOK, HalfDoneRecorded
        <4>4. CASE SurvivesOrGone(Append(effects, Unanswered(op, 1)))
          <5>1. /\ Append(effects, Unanswered(op, 1)) \in Seq(Effect)
                /\ pending \in Seq(Write)
            BY <3>1 DEF TypeOK
          <5>2. /\ xact' \in {"none", "open", "committed", "gone"}
                /\ effects' \in Seq(Effect)
                /\ effects' = Append(effects, Unanswered(op, 1)) \/ effects' = <<>>
            BY <4>4, <5>1, SurvivesType
          <5>3. failed \/ \A i \in DOMAIN effects' : effects'[i].parts = effects'[i].of
            <6>1. CASE failed \/ effects' = <<>>
              BY <6>1
            <6>2. CASE ~failed /\ effects' = Append(effects, Unanswered(op, 1))
              <7>1. /\ effects \in Seq(Effect)
                    /\ \A i \in DOMAIN effects : effects[i].parts = effects[i].of
                BY <6>2 DEF TypeOK, HalfDoneRecorded
              <7> QED
                BY <3>1, <6>2, <7>1, AppendWhole
            <6> QED
              BY <5>2, <6>1, <6>2
          <5> QED
            BY <4>4, <5>1, <5>2, <5>3
        <4> QED
          BY <2>8, <4>1, <4>2, <4>3, <4>4 DEF RunPlan
      <3>3. served' \in [target : Databases, ran : Databases]
        BY <2>8 DEF RunPlan, Ready, In, Target, Serve, TypeOK, OpInProgress
      <3> QED
        BY <2>8, <3>2, <3>3 DEF RunPlan, Ready, MayHaveMovedTo, TypeOK, OpInProgress,
                          HalfDoneRecorded, NoHalfWrite, NoOp, ReadStages
    <2>9. CASE RunDatabaseRead
      BY <2>9 DEF RunDatabaseRead, Serve, TypeOK, OpInProgress, HalfDoneRecorded,
                  NoHalfWrite, Op, NoOp, ReadStages
    <2>10. CASE RunDatabaseReadFails
      <3>1. Kept
        BY <2>10, SurvivesType DEF RunDatabaseReadFails, TypeOK
      <3>2. op \in Op /\ op.at \in Databases /\ op # NoOp
        BY <2>10 DEF RunDatabaseReadFails, TypeOK, Op, NoOp
      <3>3. op' \in Op /\ op'.at = op.at
        BY <2>10, <3>2 DEF RunDatabaseReadFails, Op, ReadStages
      <3> QED
        BY <2>10, <3>1, <3>2, <3>3 DEF RunDatabaseReadFails, MayHaveMovedTo, TypeOK, OpInProgress,
                           HalfDoneRecorded, NoHalfWrite, Op, NoOp, ReadStages
    <2>11. CASE RecheckUse
      <3>1. Kept
        BY <2>11, SurvivesType DEF RecheckUse, TypeOK
      <3>2. op \in Op /\ op.at \in Databases /\ op # NoOp
        BY <2>11 DEF RecheckUse, TypeOK, OpInProgress, NoOp, ReadStages
      <3>3. op' = NoOp \/ (op' \in Op /\ op'.at = op.at)
        BY <2>11, <3>2 DEF RecheckUse, Op, ReadStages
      <3> QED
        BY <2>11, <3>1, <3>2, <3>3 DEF RecheckUse, MayHaveMovedTo, TypeOK, OpInProgress,
                           HalfDoneRecorded, NoHalfWrite, Op, NoOp, ReadStages
    <2>12. CASE RerunRead
      <3>1. Kept
        BY <2>12, SurvivesType DEF RerunRead, TypeOK
      <3> QED
        BY <2>12, <3>1 DEF RerunRead, Serve, TypeOK, OpInProgress, HalfDoneRecorded,
                           NoHalfWrite, Op, NoOp, ReadStages
    <2> QED
      BY <1>9, <2>1, <2>2, <2>3, <2>4, <2>5, <2>6, <2>7, <2>8, <2>9, <2>10,
         <2>11, <2>12 DEF Statement
  <1> QED
    BY <1>1, <1>2, <1>3, <1>4, <1>5, <1>6, <1>7, <1>8, <1>9
       DEF Next, Call, Fn

\* Whatever fn issues, the variables keep their types.
THEOREM TypeCorrect == Spec => []TypeOK
  <1>1. Base /\ [Next]_vars => Base'
    BY StepBase
  <1>2. Base => TypeOK
    BY DEF Base
  <1> QED
    BY InitBase, <1>1, <1>2, PTL DEF Spec

\* COMMIT never puts a half-done atomic write in force, whatever fn issues and
\* however many of its failures fn tolerates (serverTx.fail).
THEOREM CommitsNoHalfWrite == Spec => []NoHalfWrite
  <1>1. Base /\ [Next]_vars => Base'
    BY StepBase
  <1>2. Base => NoHalfWrite
    BY DEF Base
  <1> QED
    BY InitBase, <1>1, <1>2, PTL DEF Spec

-----------------------------------------------------------------------------
(***************************************************************************)
(* The session's database, for as long as every USE is the package's to    *)
(* follow: a refused fromMaster batch, or a caller's batch under a plan    *)
(* capture, moves the session behind serverTx.current.                     *)
(***************************************************************************)

\* What makes RunsInItsDatabase inductive: the belief is right while fn runs,
\* still right about home afterwards, and right while a read is run again.
Followed ==
    /\ phase = "fn" /\ current # Unknown => session = current
    /\ phase \in {"homeThenCommit", "homeThenRollback", "commit", "rollback"} /\ In(home)
         => session = home
    /\ phase \in {"commit", "rollback"} /\ ~strayed => session = home
    /\ op.form \in ReadStages => current = Unknown
    /\ op.form = "rerun" => session = op.at
    /\ served.ran = served.target

Tracked ==
    /\ op # NoOp => phase = "fn"
    /\ op.form \in Untracked => untracked
    /\ ~untracked => Followed

LEMMA InitTracked == Init => Tracked
  BY DEF Init, Tracked, Followed, NoOp, In, ReadStages, Untracked

\* A statement is issued, finished or looked into, and only while fn runs.
LEMMA StepStatement ==
  ASSUME Base, Tracked, [Next]_vars
  PROVE  /\ op' # NoOp => phase' = "fn"
         /\ op'.form \in Untracked => untracked'
         /\ untracked => untracked'
  <1> USE DEF Tracked, EndOp, KeepCall
  <1>1. CASE Issue
    BY <1>1 DEF Issue
  <1>2. CASE UNCHANGED op \/ op' = NoOp
    <2>1. CASE Join \/ LeaveJoined \/ FnReturnsNil \/ FnFails
      BY <2>1 DEF Join, LeaveJoined, FnReturnsNil, FnFails, NoOp, Untracked
    <2>2. CASE Call
      BY <2>2 DEF Call, Begin, ReadHome, GoHome, CommitRefused, Commit, Rollback, Report,
                  NoOp, Untracked
    <2>3. CASE ContextEnds \/ DriverRollsBack \/ Returned \/ UNCHANGED vars
      BY <2>3 DEF ContextEnds, DriverRollsBack, Returned, vars
    <2>4. CASE Statement
      <3>1. UNCHANGED <<phase, untracked>>
        BY <2>4 DEF Statement, SwitchSession, SwitchSessionFails, RunWrite, RunWriteFails,
                    RunServerRead, RunGrant, RunFromMaster, RunPlan, RunDatabaseRead,
                    RunDatabaseReadFails, RecheckUse, RerunRead
      <3> QED
        BY <1>2, <3>1 DEF NoOp, Untracked
    <2> QED
      BY <1>1, <2>1, <2>2, <2>3, <2>4 DEF Next, Fn
  <1>3. CASE RunDatabaseReadFails \/ RecheckUse
    <2>1. UNCHANGED <<phase, untracked>> /\ phase = "fn"
      BY <1>3 DEF RunDatabaseReadFails, RecheckUse
    <2>2. op' = NoOp \/ \E stage \in ReadStages : op' = [op EXCEPT !.form = stage]
      BY <1>3 DEF RunDatabaseReadFails, RecheckUse, ReadStages
    <2>3. op \in Op
      BY <1>3 DEF RunDatabaseReadFails, RecheckUse, Base, TypeOK, NoOp
    <2>4. op'.form \in ReadStages \cup {"none"}
      BY <2>2, <2>3 DEF Op, NoOp
    <2> QED
      BY <2>1, <2>4 DEF Untracked, ReadStages
  <1>4. op' = op \/ op' = NoOp \/ Issue \/ RunDatabaseReadFails \/ RecheckUse
    BY DEF Next, Statement, Fn, Call, SwitchSession, SwitchSessionFails, RunWrite,
           RunWriteFails, RunServerRead, RunGrant, RunFromMaster, RunPlan,
           RunDatabaseRead, RerunRead, Join, LeaveJoined, FnReturnsNil, FnFails,
           Begin, ReadHome, GoHome, CommitRefused, Commit, Rollback, Report,
           ContextEnds, DriverRollsBack, Returned, vars
  <1> QED
    BY <1>1, <1>2, <1>3, <1>4

LEMMA StepTracked == Base /\ Tracked /\ [Next]_vars => Tracked'
  <1> SUFFICES ASSUME Base, Tracked, [Next]_vars, ~untracked'
               PROVE  Followed'
    BY StepStatement DEF Tracked
  <1> USE TxAssumption DEF Followed, In, ReadStages,
                           KeepCall, KeepClient, EndOp, client
  <1>0. ~untracked /\ Followed /\ op.form \notin {"fromMaster", "plan"}
        /\ (op # NoOp => phase = "fn")
    BY StepStatement DEF Tracked, Untracked
  <1>1. CASE Begin \/ ReadHome
    BY <1>0, <1>1 DEF Begin, ReadHome, NoOp
  <1>2. CASE Issue
    <2>1. op'.form \notin {"recheck", "rerun"}
      BY <1>0, <1>2 DEF Issue, Requests, ServerForms, DatabaseForms
    <2> QED
      BY <1>0, <1>2, <2>1 DEF Issue, server
  <1>3. CASE Join \/ LeaveJoined \/ FnReturnsNil \/ FnFails
    BY <1>0, <1>3 DEF Join, LeaveJoined, FnReturnsNil, FnFails, server
  <1>4. CASE GoHome
    BY <1>0, <1>4 DEF GoHome, AfterHome, MayHaveMovedTo, Base, HomeKnown, NoOp
  <1>5. CASE CommitRefused \/ Commit \/ Rollback \/ Report
    <2>1. UNCHANGED <<op, client, session, served, strayed>>
      BY <1>0, <1>5 DEF CommitRefused, Commit, Rollback, Report, server
    <2>2. op = NoOp /\ phase # "fn"
      BY <1>0, <1>5 DEF CommitRefused, Commit, Rollback, Report
    <2>3. \/ phase' \in {"report", "done"}
          \/ phase = "commit" /\ phase' = "homeThenRollback"
      BY <1>0, <1>5 DEF CommitRefused, Commit, Rollback, Report
    <2> QED
      BY <1>0, <2>1, <2>2, <2>3 DEF NoOp
  <1>6. CASE ContextEnds \/ DriverRollsBack \/ Returned \/ UNCHANGED vars
    BY <1>0, <1>6 DEF ContextEnds, DriverRollsBack, Returned, vars, server
  <1>7. CASE Statement
    <2>1. CASE SwitchSession
      BY <1>0, <2>1 DEF SwitchSession, Switching, Base, OpInProgress, ReadStages
    <2>2. CASE SwitchSessionFails
      BY <1>0, <2>2 DEF SwitchSessionFails, Switching, NoOp
    <2>3. CASE RunWrite \/ RunWriteFails
      BY <1>0, <2>3 DEF RunWrite, RunWriteFails, Ready, Serve, AfterFailure, NoOp
    <2>4. CASE RunServerRead
      BY <1>0, <2>4 DEF RunServerRead, Ready, Target, Serve, NoOp
    <2>5. CASE RunGrant
      BY <1>0, <2>5 DEF RunGrant, Ready, NoOp
    <2>6. CASE RunFromMaster \/ RunPlan
      BY <1>0, <2>6 DEF RunFromMaster, RunPlan, Ready
    <2>7. CASE RunDatabaseRead
      BY <1>0, <2>7 DEF RunDatabaseRead, Serve, NoOp
    <2>8. CASE RunDatabaseReadFails
      <3>1. op \in Op
        BY <1>0, <2>8 DEF RunDatabaseReadFails, Base, TypeOK, NoOp
      <3>2. op'.form = "recheck"
        BY <1>0, <2>8, <3>1 DEF RunDatabaseReadFails, Op
      <3> QED
        BY <1>0, <2>8, <3>2 DEF RunDatabaseReadFails
    <2>9. CASE RecheckUse
      <3>1. op \in Op
        BY <1>0, <2>9 DEF RecheckUse, Base, TypeOK, NoOp
      <3>2. CASE op' = [op EXCEPT !.form = "rerun"] /\ session' = op.at
        <4>1. op'.form = "rerun" /\ op'.at = op.at
          BY <1>0, <3>1, <3>2 DEF Op
        <4> QED
          BY <1>0, <2>9, <3>2, <4>1 DEF RecheckUse
      <3>3. CASE op' = NoOp
        BY <1>0, <2>9, <3>3 DEF RecheckUse, NoOp
      <3> QED
        BY <1>0, <2>9, <3>2, <3>3 DEF RecheckUse
    <2>10. CASE RerunRead
      BY <1>0, <2>10 DEF RerunRead, Serve, NoOp
    <2> QED
      BY <1>0, <1>7, <2>1, <2>2, <2>3, <2>4, <2>5, <2>6, <2>7, <2>8, <2>9,
         <2>10 DEF Statement
  <1> QED
    BY <1>1, <1>2, <1>3, <1>4, <1>5, <1>6, <1>7 DEF Next, Call, Fn

LEMMA AlwaysTracked == Spec => [](Base /\ Tracked)
  <1>1. Init => Base /\ Tracked
    BY InitBase, InitTracked
  <1>2. Base /\ Tracked /\ [Next]_vars => (Base /\ Tracked)'
    BY StepBase, StepTracked
  <1> QED
    BY <1>1, <1>2, PTL DEF Spec

\* Every statement that ran, read or write, ran in the database it names, and
\* a server-scoped one in the database the transaction began in.
THEOREM StatementsRunInTheirDatabase == Spec => []RunsInItsDatabase
  <1>1. Base /\ Tracked => RunsInItsDatabase
    BY DEF Tracked, Followed, RunsInItsDatabase
  <1> QED
    BY AlwaysTracked, <1>1, PTL

\* serverTx.current is right about the session for as long as fn runs.
THEOREM CurrentIsTheSessionsDatabase == Spec => []KnownDatabase
  <1>1. Base /\ Tracked => KnownDatabase
    BY DEF Tracked, Followed, KnownDatabase
  <1> QED
    BY AlwaysTracked, <1>1, PTL

\* The connection goes back to the pool in the database it came in, unless the
\* USE that was to take it there failed (goHome).
THEOREM ConnectionHandedBackHome == Spec => []HandedBackHome
  <1>1. Base /\ Tracked => HandedBackHome
    BY DEF Tracked, Followed, HandedBackHome
  <1> QED
    BY AlwaysTracked, <1>1, PTL

-----------------------------------------------------------------------------
(***************************************************************************)
(* What the observer hears, and that the call is the abstract transaction. *)
(***************************************************************************)

SeenOf(T) == {e \in T : e.seen}

\* The observed writes of a sequence of whole writes.
Told(ws) == Only(ws, SeenOf(Write))

\* Nothing is held without a transaction to hold it; the reports held are of the
\* observed writes among what is uncommitted, and then among what COMMIT put in
\* force; they are made in order, and only after COMMIT.
Lived ==
    /\ xact \in {"none", "gone"} => effects = <<>>
    /\ phase = "idle" => xact = "none"
    /\ xact = "none" => phase \in {"idle", "done"}
    /\ phase = "naming" => effects = <<>>
    /\ phase = "report" => xact = "committed"
    /\ xact = "committed" => phase \in {"report", "done"} /\ ~failed

Unheard ==
    /\ phase \in {"idle", "naming"} => pending = <<>>
    /\ op.seen => op.form \notin {"read", "plan"} \cup ReadStages
    /\ xact = "open" => pending = Told(Whole(effects))
    /\ xact = "committed" => pending = Told(Whole(inForce))
    /\ xact = "open" /\ ~failed => Calls(pending) = Calls(Observed(effects))
    /\ xact = "committed" => Calls(pending) = Calls(Observed(inForce))

Reported ==
    /\ phase \notin {"report", "done"} => heard = <<>> /\ verdict # "nil"
    /\ phase = "report" =>
         Len(heard) <= Len(pending) /\ \A i \in 1..Len(heard) : heard[i] = pending[i]
    /\ phase = "done" => IF verdict = "nil" THEN xact = "committed" /\ heard = pending
                         ELSE heard = <<>>

Outcome == Lived /\ Unheard /\ Reported

LEMMA WholeAppend ==
  ASSUME NEW es \in Seq(Effect), NEW e \in Effect
  PROVE  /\ Whole(Append(es, e)) =
              IF e.parts = e.of THEN Append(Whole(es), [call |-> e.call, seen |-> e.seen])
              ELSE Whole(es)
         /\ Whole(es) \in Seq(Write)
<1> DEFINE S == {x \in Effect : x.parts = x.of}
           map(ws) == [i \in DOMAIN ws |-> [call |-> ws[i].call, seen |-> ws[i].seen]]
<1>1. Only(es, S) \in Seq(Effect)
  <2>1. Only(es, S) \in Seq(Effect \cap S)
    BY OnlyType
  <2>2. Effect \cap S = S
    OBVIOUS
  <2>3. Seq(S) \subseteq Seq(Effect)
    BY SeqMonotonic
  <2> QED BY <2>1, <2>2, <2>3
<1>2. Only(Append(es, e), S) = IF e \in S THEN Append(Only(es, S), e) ELSE Only(es, S)
  BY OnlyAppend
<1>3. ASSUME NEW ws \in Seq(Effect) PROVE map(ws) \in Seq(Write)
  <2>1. Len(ws) \in Nat /\ DOMAIN ws = 1..Len(ws)
    BY LenProperties
  <2>2. ASSUME NEW i \in 1..Len(ws) PROVE [call |-> ws[i].call, seen |-> ws[i].seen] \in Write
    <3>1. ws[i] \in Effect
      BY ElementOfSeq
    <3> QED BY <3>1 DEF Effect, Write
  <2>3. map(ws) \in [1..Len(ws) -> Write]
    BY <2>1, <2>2
  <2> QED BY <2>1, <2>3, IsASeq
<1>4. ASSUME NEW ws \in Seq(Effect)
      PROVE  map(Append(ws, e)) = Append(map(ws), [call |-> e.call, seen |-> e.seen])
  <2>1. /\ Append(ws, e) \in Seq(Effect) /\ DOMAIN Append(ws, e) = 1..(Len(ws) + 1)
        /\ DOMAIN ws = 1..Len(ws) /\ Len(ws) \in Nat
    BY AppendProperties, LenProperties
  <2>2. map(ws) \in Seq(Write) /\ Len(map(ws)) = Len(ws)
    <3>1. map(ws) \in Seq(Write)
      BY <1>3
    <3>2. DOMAIN map(ws) = 1..Len(ws)
      BY <2>1
    <3> QED BY <2>1, <3>1, <3>2, LenProperties
  <2> DEFINE t == Append(ws, e)
             u == Append(map(ws), [call |-> e.call, seen |-> e.seen])
             w == [call |-> e.call, seen |-> e.seen]
  <2>3. w \in Write
    BY DEF Effect, Write
  <2>4. u \in Seq(Write) /\ Len(u) = Len(ws) + 1 /\ u[Len(ws) + 1] = w
        /\ \A i \in 1..Len(ws) : u[i] = map(ws)[i]
    BY <2>2, <2>3, AppendProperties
  <2>5. map(t) \in Seq(Write) /\ Len(map(t)) = Len(ws) + 1
    <3>1. map(t) \in Seq(Write)
      BY <1>3, <2>1
    <3>2. DOMAIN map(t) = 1..(Len(ws) + 1)
      BY <2>1
    <3> QED BY <2>1, <3>1, <3>2, LenProperties
  <2>6. ASSUME NEW i \in 1..(Len(ws) + 1) PROVE map(t)[i] = u[i]
    <3>1. CASE i = Len(ws) + 1
      <4>1. t[i] = e
        BY <3>1, AppendProperties
      <4> QED BY <2>1, <2>4, <3>1, <4>1
    <3>2. CASE i \in 1..Len(ws)
      <4>1. t[i] = ws[i]
        BY <3>2, AppendProperties
      <4> QED BY <2>1, <2>4, <3>2, <4>1
    <3> QED BY <2>1, <3>1, <3>2
  <2> HIDE DEF map, t, u
  <2>7. map(t) = u
    BY <2>4, <2>5, <2>6, SeqEqual
  <2> QED BY <2>7 DEF t, u
<1>5. \A ws : Whole(ws) = map(Only(ws, S))
  BY DEF Whole
<1> HIDE DEF map
<1>6. e \in S <=> e.parts = e.of
  OBVIOUS
<1> HIDE DEF S
<1> QED BY <1>1, <1>2, <1>3, <1>4, <1>5, <1>6

LEMMA CallsAppend ==
  ASSUME NEW T, NEW s \in Seq(T), NEW e \in T
  PROVE  Calls(Append(s, e)) = Append(Calls(s), e.call)
<1> DEFINE U == {e.call} \cup {s[i].call : i \in 1..Len(s)}
           t == Append(s, e)
           u == Append(Calls(s), e.call)
<1>1. /\ t \in Seq(T) /\ Len(t) = Len(s) + 1 /\ t[Len(s) + 1] = e
      /\ DOMAIN t = 1..(Len(s) + 1)
      /\ \A i \in 1..Len(s) : t[i] = s[i]
      /\ DOMAIN s = 1..Len(s) /\ Len(s) \in Nat
  BY AppendProperties, LenProperties
<1> HIDE DEF t
<1>2. Calls(s) \in Seq(U) /\ Len(Calls(s)) = Len(s)
  <2>1. Calls(s) \in [1..Len(s) -> U]
    BY <1>1 DEF Calls
  <2> HIDE DEF U
  <2>2. Calls(s) \in Seq(U) /\ DOMAIN Calls(s) = 1..Len(s)
    BY <1>1, <2>1, IsASeq
  <2> QED BY <1>1, <2>2, LenProperties
<1>3. Calls(t) \in Seq(U) /\ Len(Calls(t)) = Len(s) + 1
  <2>1. Calls(t) \in [1..(Len(s) + 1) -> U]
    <3> SUFFICES ASSUME NEW i \in 1..(Len(s) + 1) PROVE t[i].call \in U
      BY <1>1 DEF Calls
    <3>1. CASE i = Len(s) + 1
      BY <1>1, <3>1
    <3>2. CASE i \in 1..Len(s)
      BY <1>1, <3>2
    <3> QED BY <1>1, <3>1, <3>2
  <2> HIDE DEF U
  <2>2. Calls(t) \in Seq(U) /\ DOMAIN Calls(t) = 1..(Len(s) + 1)
    BY <1>1, <2>1, IsASeq
  <2> QED BY <1>1, <2>2, LenProperties
<1>4. e.call \in U
  OBVIOUS
<1> HIDE DEF U
<1>5. /\ u \in Seq(U) /\ Len(u) = Len(s) + 1 /\ u[Len(s) + 1] = e.call
      /\ \A i \in 1..Len(s) : u[i] = Calls(s)[i]
  BY <1>2, <1>4, AppendProperties
<1> HIDE DEF u
<1>6. ASSUME NEW i \in 1..(Len(s) + 1) PROVE Calls(t)[i] = u[i]
  <2>1. CASE i = Len(s) + 1
    BY <1>1, <1>5, <2>1 DEF Calls
  <2>2. CASE i \in 1..Len(s)
    BY <1>1, <1>5, <2>2 DEF Calls
  <2> QED BY <1>1, <2>1, <2>2
<1>7. Calls(t) = u
  BY <1>3, <1>5, <1>6, SeqEqual
<1> QED BY <1>7 DEF t, u

\* What a statement does to the transaction: nothing, or it loses it, or it is a
\* whole write of it, whose report is held if it is observed, or one that failed
\* and ran, in part or whole, of which nothing is held.
Stays == UNCHANGED <<xact, effects, pending>> /\ (failed => failed')
Lost == xact = "open" /\ xact' = "gone" /\ effects' = <<>> /\ UNCHANGED pending
Wrote ==
    /\ xact = "open" /\ UNCHANGED <<xact, failed>>
    /\ effects' = Append(effects, Done(op, Parts(op)))
    /\ pending' = IF op.seen THEN Append(pending, Named(op)) ELSE pending
FailedWriting ==
    /\ xact = "open" /\ UNCHANGED <<xact, pending>> /\ (failed => failed')
    /\ \E k \in 1..Parts(op) :
         effects' = Append(effects, Unanswered(op, k)) /\ (k < Parts(op) => failed')

LEMMA StatementDoes ==
  ASSUME Base, Tracked, Outcome, Statement
  PROVE  /\ phase = "fn" /\ op # NoOp
         /\ UNCHANGED <<phase, calls, verdict, heard, inForce>>
         /\ op'.seen => op'.form \notin {"read", "plan"} \cup ReadStages
         /\ Stays \/ Lost \/ Wrote \/ FailedWriting
<1> USE DEF KeepCall, KeepClient, EndOp, client, Stays
<1>0. op \in Op \cup {NoOp} /\ NoOp.form = "none" /\ ~NoOp.seen
  BY DEF Base, TypeOK, NoOp, Op
<1>1. ASSUME SurvivesOrGone(effects), UNCHANGED pending, failed => failed'
      PROVE  Stays \/ Lost
  BY <1>1 DEF SurvivesOrGone, Lost
<1>14. ASSUME Reachable, SurvivesOrGone(Append(effects, Unanswered(op, 1))), Parts(op) = 1,
              UNCHANGED <<pending, failed>>
       PROVE  Lost \/ FailedWriting
  <2>1. CASE xact' = xact /\ effects' = Append(effects, Unanswered(op, 1))
    <3>1. 1 \in 1..Parts(op) /\ ~(1 < Parts(op))
      BY <1>14
    <3> QED BY <1>14, <2>1, <3>1 DEF FailedWriting, Reachable
  <2>2. CASE xact = "open" /\ xact' = "gone" /\ effects' = <<>>
    BY <1>14, <2>2 DEF Lost
  <2> QED BY <1>14, <2>1, <2>2 DEF SurvivesOrGone
<1>2. CASE SwitchSession
  BY <1>2 DEF SwitchSession, Switching, Outcome, Unheard
<1>3. CASE SwitchSessionFails
  BY <1>0, <1>1, <1>3 DEF SwitchSessionFails, Switching
<1>4. CASE RunWrite
  BY <1>0, <1>4 DEF RunWrite, Ready, Reachable, Hold, Wrote
<1>5. CASE RunWriteFails
  <2>1. PICK k \in 0..Parts(op) :
          IF k > 0
          THEN Reachable /\ SurvivesOrGone(Append(effects, Unanswered(op, k)))
          ELSE SurvivesOrGone(effects)
    BY <1>5 DEF RunWriteFails
  <2>2. k > 0 /\ k < Parts(op) => op.form = "atomic"
    BY <1>5, <2>1, TxAssumption DEF RunWriteFails, Ready, Parts
  <2>3. Parts(op) \in Nat
    BY TxAssumption DEF Parts
  <2>4. ASSUME k > 0, xact' = xact, effects' = Append(effects, Unanswered(op, k))
        PROVE  FailedWriting
    <3>1. xact = "open" /\ k \in 1..Parts(op)
      BY <2>1, <2>3, <2>4 DEF Reachable
    <3>2. /\ UNCHANGED pending /\ (failed => failed')
          /\ k < Parts(op) => failed'
      BY <1>5, <2>2, <2>4 DEF RunWriteFails
    <3> QED BY <2>4, <3>1, <3>2 DEF FailedWriting
  <2>5. ASSUME xact = "open", xact' = "gone", effects' = <<>>
        PROVE  Lost
    BY <1>5, <2>5 DEF RunWriteFails, Lost
  <2>6. ASSUME ~(k > 0) PROVE Stays \/ Lost
    <3>1. SurvivesOrGone(effects)
      BY <2>1, <2>6
    <3>2. UNCHANGED pending /\ (failed => failed')
      BY <1>5 DEF RunWriteFails
    <3> QED BY <1>1, <3>1, <3>2
  <2>7. Stays \/ Lost \/ FailedWriting
    <3>1. k > 0 => SurvivesOrGone(Append(effects, Unanswered(op, k)))
      BY <2>1
    <3> QED BY <2>4, <2>5, <2>6, <3>1 DEF SurvivesOrGone
  <2> QED BY <1>0, <1>5, <2>7 DEF RunWriteFails, Ready
<1>6. CASE RunServerRead
  BY <1>0, <1>1, <1>6 DEF RunServerRead, Ready
<1>7. CASE RunGrant
  <2>1. CASE Reachable /\ effects' = Append(effects, Done(op, 1)) /\ Hold(op) /\ UNCHANGED xact
    BY <1>0, <1>7, <2>1 DEF RunGrant, Ready, Reachable, Hold, Wrote, Parts
  <2>2. CASE SurvivesOrGone(effects) /\ UNCHANGED pending
    BY <1>0, <1>1, <1>7, <2>2 DEF RunGrant, Ready
  <2>3. CASE Reachable /\ SurvivesOrGone(Append(effects, Unanswered(op, 1)))
             /\ UNCHANGED pending
    <3>1. Parts(op) = 1 /\ UNCHANGED failed
      BY <1>7 DEF RunGrant, Ready, Parts
    <3>2. Lost \/ FailedWriting
      BY <1>14, <2>3, <3>1
    <3> QED BY <1>0, <1>7, <3>2 DEF RunGrant, Ready
  <2> QED BY <1>7, <2>1, <2>2, <2>3 DEF RunGrant
<1>8. CASE RunFromMaster
  BY <1>0, <1>1, <1>8 DEF RunFromMaster, Ready
<1>9. CASE RunPlan
  <2>1. ~op.seen /\ Parts(op) = 1
    BY <1>9 DEF RunPlan, Ready, Outcome, Unheard, Parts
  <2>2. CASE Reachable /\ effects' \in {effects, Append(effects, Done(op, 1))} /\ UNCHANGED xact
    BY <1>0, <1>9, <2>1, <2>2 DEF RunPlan, Ready, Reachable, Wrote
  <2>3. CASE SurvivesOrGone(effects)
    BY <1>0, <1>1, <1>9, <2>3 DEF RunPlan, Ready
  <2>4. CASE Reachable /\ SurvivesOrGone(Append(effects, Unanswered(op, 1)))
    <3>1. UNCHANGED <<pending, failed>>
      BY <1>9 DEF RunPlan
    <3>2. Lost \/ FailedWriting
      BY <1>14, <2>1, <2>4, <3>1
    <3> QED BY <1>0, <1>9, <3>2 DEF RunPlan, Ready
  <2> QED BY <1>9, <2>2, <2>3, <2>4 DEF RunPlan
<1>10. CASE RunDatabaseRead
  BY <1>0, <1>10 DEF RunDatabaseRead
<1>11. CASE RunDatabaseReadFails
  <2>1. op \in Op /\ op # NoOp
    BY <1>0, <1>11 DEF RunDatabaseReadFails
  <2>2. op'.seen = op.seen
    BY <1>11, <2>1 DEF RunDatabaseReadFails, Op
  <2>3. Stays \/ Lost
    BY <1>1, <1>11 DEF RunDatabaseReadFails
  <2>4. op.seen => FALSE
    BY <1>11 DEF RunDatabaseReadFails, Outcome, Unheard
  <2> QED BY <1>11, <2>1, <2>2, <2>3, <2>4 DEF RunDatabaseReadFails
<1>12. CASE RecheckUse
  <2>1. op \in Op /\ op # NoOp /\ ~op.seen
    BY <1>0, <1>12 DEF RecheckUse, Outcome, Unheard, ReadStages
  <2>2. ~op'.seen
    BY <1>0, <1>12, <2>1 DEF RecheckUse, Op
  <2>3. Stays \/ Lost
    BY <1>1, <1>12 DEF RecheckUse
  <2> QED BY <1>12, <2>1, <2>2, <2>3 DEF RecheckUse
<1>13. CASE RerunRead
  BY <1>0, <1>1, <1>13 DEF RerunRead
<1> QED
  BY <1>2, <1>3, <1>4, <1>5, <1>6, <1>7, <1>8, <1>9, <1>10, <1>11, <1>12, <1>13 DEF Statement

\* A whole write adds to what is to be told if it is observed.
LEMMA ToldAppend ==
  ASSUME NEW es \in Seq(Effect), NEW e \in Effect
  PROVE  /\ Told(Whole(Append(es, e))) =
              IF e.parts = e.of /\ e.seen
              THEN Append(Told(Whole(es)), [call |-> e.call, seen |-> e.seen])
              ELSE Told(Whole(es))
         /\ Calls(Observed(Append(es, e))) =
              IF e.seen THEN Append(Calls(Observed(es)), e.call) ELSE Calls(Observed(es))
<1> DEFINE w == [call |-> e.call, seen |-> e.seen]
<1>1. w \in Write /\ (w \in SeenOf(Write) <=> e.seen)
  BY DEF Effect, Write, SeenOf
<1>2. Whole(es) \in Seq(Write)
  BY WholeAppend
<1>3. Told(Append(Whole(es), w)) =
        IF w \in SeenOf(Write) THEN Append(Told(Whole(es)), w) ELSE Told(Whole(es))
  BY <1>1, <1>2, OnlyAppend DEF Told
<1>4. Whole(Append(es, e)) = IF e.parts = e.of THEN Append(Whole(es), w) ELSE Whole(es)
  BY WholeAppend
<1>5. Told(Whole(Append(es, e))) =
        IF e.parts = e.of /\ e.seen THEN Append(Told(Whole(es)), w) ELSE Told(Whole(es))
  BY <1>1, <1>3, <1>4
<1>6. Observed(Append(es, e)) =
        IF e \in {x \in Effect : x.seen} THEN Append(Observed(es), e) ELSE Observed(es)
  BY OnlyAppend DEF Observed
<1>7. Observed(es) \in Seq(Effect \cap {x \in Effect : x.seen})
  BY OnlyType DEF Observed
<1>8. e.seen => e \in Effect \cap {x \in Effect : x.seen}
  OBVIOUS
<1>9. e.seen => Calls(Append(Observed(es), e)) = Append(Calls(Observed(es)), e.call)
  BY <1>7, <1>8, CallsAppend
<1>10. Calls(Observed(Append(es, e))) =
         IF e.seen THEN Append(Calls(Observed(es)), e.call) ELSE Calls(Observed(es))
  BY <1>6, <1>9
<1> QED BY <1>5, <1>10

LEMMA NothingTold ==
  Whole(<<>>) = <<>> /\ Told(<<>>) = <<>> /\ Calls(<<>>) = <<>> /\ Observed(<<>>) = <<>>
<1>1. \A S : Only(<<>>, S) = <<>>
  BY OnlyEmpty
<1>2. DOMAIN <<>> = {} /\ <<>> = [i \in {} |-> {}]
  OBVIOUS
<1>3. Whole(<<>>) = <<>>
  BY <1>1, <1>2 DEF Whole
<1>4. Calls(<<>>) = <<>>
  BY <1>2 DEF Calls
<1> QED BY <1>1, <1>3, <1>4 DEF Told, Observed

LEMMA InitOutcome == Init => Outcome
<1> SUFFICES ASSUME Init PROVE Outcome
  OBVIOUS
<1>1. Lived /\ Reported
  BY DEF Init, Lived, Reported
<1>2. Unheard
  BY DEF Init, Unheard, NoOp, ReadStages
<1> QED BY <1>1, <1>2 DEF Outcome

\* A statement keeps what is held in step with what is written.
LEMMA StatementOutcome ==
  ASSUME Base, Tracked, Outcome, Statement
  PROVE  Outcome'
<1>0. /\ phase = "fn" /\ phase' = "fn" /\ op # NoOp
      /\ UNCHANGED <<calls, verdict, heard, inForce>>
      /\ op'.seen => op'.form \notin {"read", "plan"} \cup ReadStages
      /\ Stays \/ Lost \/ Wrote \/ FailedWriting
  BY StatementDoes
<1>1. xact # "committed" /\ xact # "none" /\ heard = <<>> /\ verdict # "nil"
  BY <1>0 DEF Outcome, Lived, Reported
<1>2. Reported'
  BY <1>0, <1>1 DEF Reported
<1>3. CASE Stays
  <2>1. Lived'
    BY <1>0, <1>1, <1>3 DEF Outcome, Lived, Stays
  <2>2. Unheard'
    BY <1>0, <1>1, <1>3 DEF Outcome, Unheard, Stays, Calls
  <2> QED BY <1>2, <2>1, <2>2 DEF Outcome
<1>4. CASE Lost
  <2>1. Lived'
    BY <1>0, <1>1, <1>4 DEF Outcome, Lived, Lost
  <2>2. Unheard'
    BY <1>0, <1>1, <1>4 DEF Outcome, Unheard, Lost
  <2> QED BY <1>2, <2>1, <2>2 DEF Outcome
<1>5. CASE Wrote
  <2> DEFINE e == Done(op, Parts(op))
  <2>1. /\ e \in Effect /\ Named(op) \in Write /\ e.parts = e.of
        /\ e.seen = op.seen /\ e.call = calls /\ Named(op) = [call |-> e.call, seen |-> e.seen]
        /\ Named(op).call = calls
    BY <1>0, DoneType DEF Base, Done, Named
  <2>2. effects \in Seq(Effect) /\ pending \in Seq(Write) /\ effects' = Append(effects, e)
    BY <1>5 DEF Base, TypeOK, Wrote
  <2> HIDE DEF e
  <2>3. pending' = Told(Whole(effects))'
    <3>1. pending = Told(Whole(effects))
      BY <1>5 DEF Wrote, Outcome, Unheard
    <3>2. Told(Whole(effects')) = IF e.seen THEN Append(Told(Whole(effects)), Named(op))
                                  ELSE Told(Whole(effects))
      BY <2>1, <2>2, ToldAppend
    <3> QED BY <1>5, <2>1, <3>1, <3>2 DEF Wrote
  <2>4. ~failed' => Calls(pending)' = Calls(Observed(effects))'
    <3> SUFFICES ASSUME ~failed' PROVE Calls(pending') = Calls(Observed(effects'))
      BY DEF Calls, Observed
    <3>1. Calls(pending) = Calls(Observed(effects))
      BY <1>5 DEF Wrote, Outcome, Unheard
    <3>2. Calls(Observed(effects')) =
            IF e.seen THEN Append(Calls(Observed(effects)), calls) ELSE Calls(Observed(effects))
      BY <2>1, <2>2, ToldAppend
    <3>3. Calls(Append(pending, Named(op))) = Append(Calls(pending), calls)
      BY <2>1, <2>2, CallsAppend
    <3> QED BY <1>5, <2>1, <3>1, <3>2, <3>3 DEF Wrote
  <2>5. Lived'
    BY <1>0, <1>1, <1>5 DEF Outcome, Lived, Wrote
  <2>6. Unheard'
    BY <1>0, <1>1, <1>5, <2>3, <2>4 DEF Unheard, Wrote
  <2> QED BY <1>2, <2>5, <2>6 DEF Outcome
<1>6. CASE FailedWriting
  <2>1. PICK k \in 1..Parts(op) : effects' = Append(effects, Unanswered(op, k))
    BY <1>6 DEF FailedWriting
  <2>2. k \in Nat
    BY <2>1, TxAssumption DEF Parts
  <2>3. Unanswered(op, k) \in Effect /\ ~Unanswered(op, k).seen
    BY <1>0, <2>2, UnansweredType DEF Base
  <2>4. effects \in Seq(Effect)
    BY DEF Base, TypeOK
  <2>5. /\ Told(Whole(effects')) = Told(Whole(effects))
        /\ Calls(Observed(effects')) = Calls(Observed(effects))
    BY <2>1, <2>3, <2>4, ToldAppend
  <2>6. Lived'
    BY <1>0, <1>1, <1>6 DEF Outcome, Lived, FailedWriting
  <2>7. pending' = Told(Whole(effects))'
    BY <1>6, <2>5 DEF FailedWriting, Outcome, Unheard
  <2>8. ~failed' => Calls(pending)' = Calls(Observed(effects))'
    <3> SUFFICES ASSUME ~failed' PROVE Calls(pending') = Calls(Observed(effects'))
      BY DEF Calls, Observed
    <3>1. xact = "open" /\ ~failed /\ pending' = pending
      BY <1>6 DEF FailedWriting
    <3>2. Calls(pending) = Calls(Observed(effects))
      BY <3>1 DEF Outcome, Unheard
    <3> QED BY <2>5, <3>1, <3>2
  <2>9. Unheard'
    BY <1>0, <1>1, <1>6, <2>7, <2>8 DEF Unheard, FailedWriting
  <2> QED BY <1>2, <2>6, <2>9 DEF Outcome
<1> QED BY <1>0, <1>3, <1>4, <1>5, <1>6

LEMMA StepOutcome == Base /\ Tracked /\ Outcome /\ [Next]_vars => Outcome'
<1> SUFFICES ASSUME Base, Tracked, Outcome, [Next]_vars
             PROVE  Outcome'
  OBVIOUS
<1>1. CASE Statement
  BY <1>1, StatementOutcome
<1> USE DEF client, server
<1>2. CASE Begin
  <2>1. UNCHANGED <<op, failed, pending, heard, effects, inForce>>
    BY <1>2 DEF Begin
  <2>2. phase = "idle" /\ xact = "none" /\ effects = <<>> /\ pending = <<>> /\ heard = <<>>
        /\ verdict # "nil"
    BY <1>2 DEF Begin, Outcome, Lived, Unheard, Reported
  <2>3. \/ xact' = "open" /\ phase' = "naming" /\ UNCHANGED verdict
        \/ UNCHANGED xact /\ phase' = "done" /\ verdict' = "error"
    BY <1>2 DEF Begin
  <2>4. Lived'
    BY <2>1, <2>2, <2>3 DEF Lived
  <2>5. Unheard'
    BY <2>1, <2>2, <2>3, NothingTold DEF Outcome, Unheard
  <2>6. Reported'
    BY <2>1, <2>2, <2>3 DEF Reported
  <2> QED BY <2>4, <2>5, <2>6 DEF Outcome
<1>3. CASE ReadHome
  <2>1. UNCHANGED <<op, failed, pending, heard, effects, inForce>>
    BY <1>3 DEF ReadHome
  <2>2. phase = "naming" /\ effects = <<>> /\ pending = <<>> /\ heard = <<>>
        /\ verdict # "nil" /\ xact # "none" /\ xact # "committed"
    BY <1>3 DEF ReadHome, Outcome, Lived, Unheard, Reported
  <2>3. \/ UNCHANGED <<xact, verdict>> /\ phase' = "fn"
        \/ xact' = "gone" /\ phase' = "done" /\ verdict' = "error"
    BY <1>3 DEF ReadHome
  <2>4. Lived'
    BY <2>1, <2>2, <2>3 DEF Outcome, Lived
  <2>5. Unheard'
    BY <2>1, <2>2, <2>3, NothingTold DEF Outcome, Unheard
  <2>6. Reported'
    BY <2>1, <2>2, <2>3 DEF Outcome, Reported
  <2> QED BY <2>4, <2>5, <2>6 DEF Outcome
<1>4. CASE Issue
  <2>1. UNCHANGED <<phase, verdict, failed, pending, heard, xact, effects, inForce>>
    BY <1>4 DEF Issue
  <2>2. op'.seen => op'.form \notin {"read", "plan"} \cup ReadStages
    BY <1>4 DEF Issue, Requests, ServerForms, DatabaseForms, ReadStages
  <2>3. Lived' /\ Reported'
    BY <2>1 DEF Outcome, Lived, Reported
  <2>4. Unheard'
    BY <2>1, <2>2 DEF Outcome, Unheard
  <2> QED BY <2>3, <2>4 DEF Outcome
<1>5. CASE Join \/ LeaveJoined \/ FnReturnsNil \/ FnFails
  <2>1. UNCHANGED <<op, failed, pending, heard, xact, effects, inForce>>
    BY <1>5 DEF Join, LeaveJoined, FnReturnsNil, FnFails
  <2>2. /\ phase = "fn" /\ phase' \in {"fn", "homeThenCommit", "homeThenRollback"}
        /\ verdict' \in {verdict, "error", "panic"}
    BY <1>5 DEF Join, LeaveJoined, FnReturnsNil, FnFails
  <2>3. Lived' /\ Reported'
    BY <2>1, <2>2 DEF Outcome, Lived, Reported
  <2>4. Unheard'
    BY <2>1, <2>2 DEF Outcome, Unheard
  <2> QED BY <2>3, <2>4 DEF Outcome
<1>6. CASE GoHome \/ CommitRefused
  <2>1. UNCHANGED <<op, failed, pending, heard, xact, effects, inForce>>
    BY <1>6 DEF GoHome, CommitRefused
  <2>2. /\ phase \in {"homeThenCommit", "homeThenRollback", "commit"}
        /\ phase' \in {"commit", "rollback", "homeThenRollback"}
        /\ verdict' \in {verdict, "error"}
    BY <1>6 DEF GoHome, CommitRefused, AfterHome
  <2>3. Lived' /\ Reported'
    BY <2>1, <2>2 DEF Outcome, Lived, Reported
  <2>4. Unheard'
    BY <2>1, <2>2 DEF Outcome, Unheard
  <2> QED BY <2>3, <2>4 DEF Outcome
<1>7. CASE Commit
  <2>1. /\ UNCHANGED <<op, failed, pending, heard>> /\ heard = <<>> /\ verdict # "nil"
        /\ phase = "commit"
    BY <1>7 DEF Commit, Outcome, Reported
  <2>2. CASE /\ xact = "open" /\ xact' = "committed" /\ inForce' = effects
             /\ phase' \in {"report", "done"} /\ UNCHANGED effects
             /\ verdict' # "nil"
    <3>1. ~failed
      BY <2>1 DEF Base, HalfDoneRecorded
    <3>2. Lived'
      BY <2>1, <2>2, <3>1 DEF Outcome, Lived
    <3>3. Unheard'
      BY <2>1, <2>2, <3>1 DEF Outcome, Unheard
    <3>4. Reported'
      <4>1. Len(heard') = 0 /\ Len(pending') \in Nat
        BY <2>1, LenProperties DEF Base, TypeOK
      <4> QED BY <2>1, <2>2, <4>1 DEF Reported
    <3> QED BY <3>2, <3>3, <3>4 DEF Outcome
  <2>3. CASE xact' = "gone" /\ effects' = <<>> /\ phase' = "done" /\ verdict' = "error"
    BY <2>1, <2>3 DEF Outcome, Lived, Unheard, Reported
  <2> QED BY <1>7, <2>1, <2>2, <2>3 DEF Commit
<1>8. CASE Rollback \/ DriverRollsBack
  <2>1. UNCHANGED <<op, verdict, failed, pending, heard, inForce>>
    BY <1>8 DEF Rollback, DriverRollsBack
  <2>2. /\ xact' = "gone" /\ effects' = <<>>
        /\ \/ phase' = phase /\ xact = "open"
           \/ phase = "rollback" /\ phase' = "done"
    BY <1>8 DEF Rollback, DriverRollsBack
  <2>3. phase \notin {"idle", "report"} /\ (phase = "done" => verdict # "nil")
    BY <2>2 DEF Outcome, Lived, Reported
  <2>4. Lived'
    BY <2>1, <2>2, <2>3 DEF Lived
  <2>5. Unheard'
    BY <2>1, <2>2, <2>3 DEF Outcome, Unheard
  <2>6. Reported'
    BY <2>1, <2>2, <2>3 DEF Outcome, Reported
  <2> QED BY <2>4, <2>5, <2>6 DEF Outcome
<1>9. CASE Report
  <2>1. /\ UNCHANGED <<op, failed, pending, xact, effects, inForce>>
        /\ phase = "report" /\ xact = "committed"
    BY <1>9 DEF Report, Outcome, Lived
  <2>2. heard \in Seq(Write) /\ pending \in Seq(Write) /\ Len(heard) \in Nat /\ Len(pending) \in Nat
    BY LenProperties DEF Base, TypeOK
  <2>3. Len(heard) <= Len(pending) /\ \A i \in 1..Len(heard) : heard[i] = pending[i]
    BY <2>1 DEF Outcome, Reported
  <2>4. CASE Len(heard) < Len(pending)
    <3>1. /\ heard' = Append(heard, pending[Len(heard) + 1])
          /\ UNCHANGED <<phase, verdict>>
      BY <1>9, <2>4 DEF Report
    <3>2. pending[Len(heard) + 1] \in Write
      BY <2>2, <2>4, ElementOfSeq
    <3>3. Len(heard') = Len(heard) + 1 /\ \A i \in 1..Len(heard') : heard'[i] = pending[i]
      BY <2>2, <2>3, <3>1, <3>2, AppendProperties
    <3>4. Reported'
      BY <2>1, <2>2, <2>4, <3>1, <3>3 DEF Reported
    <3>5. Lived'
      BY <2>1, <3>1 DEF Outcome, Lived
    <3>6. Unheard'
      BY <2>1, <3>1 DEF Outcome, Unheard
    <3> QED BY <3>4, <3>5, <3>6 DEF Outcome
  <2>5. CASE ~(Len(heard) < Len(pending))
    <3>1. phase' = "done" /\ verdict' = "nil" /\ UNCHANGED heard
      BY <1>9, <2>5 DEF Report
    <3>2. heard = pending
      <4>1. Len(heard) = Len(pending)
        BY <2>2, <2>3, <2>5
      <4> QED BY <2>2, <2>3, <4>1, SeqEqual
    <3>3. Reported'
      BY <2>1, <3>1, <3>2 DEF Reported
    <3>4. Lived'
      BY <2>1, <3>1 DEF Outcome, Lived
    <3>5. Unheard'
      BY <2>1, <3>1 DEF Outcome, Unheard
    <3> QED BY <3>3, <3>4, <3>5 DEF Outcome
  <2> QED BY <2>4, <2>5
<1>10. CASE ContextEnds \/ Returned \/ UNCHANGED vars
  <2>1. UNCHANGED <<phase, op, verdict, failed, pending, heard, xact, effects, inForce>>
    BY <1>10 DEF ContextEnds, Returned, vars
  <2>2. Lived' /\ Reported'
    BY <2>1 DEF Outcome, Lived, Reported
  <2>3. Unheard'
    BY <2>1 DEF Outcome, Unheard
  <2> QED BY <2>2, <2>3 DEF Outcome
<1> QED
  BY <1>1, <1>2, <1>3, <1>4, <1>5, <1>6, <1>7, <1>8, <1>9, <1>10 DEF Next, Fn, Call

LEMMA AlwaysOutcome == Spec => [](Base /\ Tracked /\ Outcome)
<1>1. Init => Base /\ Tracked /\ Outcome
  BY InitBase, InitTracked, InitOutcome
<1>2. Base /\ Tracked /\ Outcome /\ [Next]_vars => (Base /\ Tracked /\ Outcome)'
  BY StepBase, StepTracked, StepOutcome
<1> QED
  BY <1>1, <1>2, PTL DEF Spec

\* An observer is told of the observed writes that succeeded and COMMIT put in force,
\* each once and in their order, when InTransaction returns nil, and of nothing otherwise
\* (serverTx.hold and the reports after tx.Commit).
THEOREM ObserverHearsTheOutcome == Spec => []ObserverMatchesOutcome
<1>1. Outcome => ObserverMatchesOutcome
  BY DEF Outcome, Unheard, Reported, ObserverMatchesOutcome
<1> QED
  BY AlwaysOutcome, <1>1, PTL

-----------------------------------------------------------------------------
(***************************************************************************)
(* The refinement: AtomicTx's state is the transaction's, its writes are   *)
(* the whole ones, and it is doomed by a half-done one.                    *)
(***************************************************************************)

\* What the abstract module calls observed is what is to be told.
LEMMA ObservedIsTold == \A ws : Atomic!Observed(ws) = Told(ws)
  BY DEF Atomic!Observed, Atomic!Only, Atomic!OnlyTo, Told, Only, OnlyTo, SeenOf

LEMMA HalfDoneAppend ==
  ASSUME NEW es \in Seq(Effect), NEW e \in Effect
  PROVE  /\ HalfDone(Append(es, e)) <=> HalfDone(es) \/ e.parts < e.of
         /\ ~HalfDone(<<>>)
<1> DEFINE t == Append(es, e)
<1>1. /\ DOMAIN t = 1..(Len(es) + 1) /\ DOMAIN es = 1..Len(es) /\ Len(es) \in Nat
      /\ t[Len(es) + 1] = e /\ \A i \in 1..Len(es) : t[i] = es[i]
  BY AppendProperties, LenProperties
<1> HIDE DEF t
<1>2. HalfDone(t) <=> HalfDone(es) \/ e.parts < e.of
  <2>1. DOMAIN t = DOMAIN es \cup {Len(es) + 1}
    BY <1>1
  <2> QED BY <1>1, <2>1 DEF HalfDone
<1> QED BY <1>2 DEF t, HalfDone

LEMMA InitAtomic == Init => Atomic!Init
  BY NothingTold, HalfDoneAppend DEF Init, Atomic!Init, HalfDone

\* A statement is a write of the abstract transaction, dooms it, aborts it, or is
\* none of its business.
LEMMA StatementAtomic ==
  ASSUME Base, Tracked, Outcome, Statement
  PROVE  [Atomic!Next]_(Atomic!vars)
<1>0. /\ op # NoOp /\ UNCHANGED <<heard, inForce>>
      /\ Stays \/ Lost \/ Wrote \/ FailedWriting
  BY StatementDoes
<1>1. effects \in Seq(Effect)
  BY DEF Base, TypeOK
<1>2. CASE Stays
  BY <1>0, <1>2 DEF Stays, Atomic!vars
<1>3. CASE Lost
  BY <1>0, <1>3, NothingTold, HalfDoneAppend DEF Lost, Atomic!Next, Atomic!Abort, HalfDone
<1>4. CASE Wrote
  <2> DEFINE e == Done(op, Parts(op))
             w == [call |-> e.call, seen |-> e.seen]
  <2>1. e \in Effect /\ e.parts = e.of /\ Parts(op) \in Nat
    BY <1>0, DoneType DEF Base
  <2>2. w \in Write
    BY <2>1 DEF Effect, Write
  <2>3. effects' = Append(effects, e)
    BY <1>4 DEF Wrote
  <2>4. ~(e.parts < e.of)
    BY <2>1 DEF Effect
  <2> HIDE DEF e
  <2>5. Whole(effects') = Append(Whole(effects), w)
    BY <1>1, <2>1, <2>3, WholeAppend
  <2>6. HalfDone(effects') <=> HalfDone(effects)
    BY <1>1, <2>1, <2>3, <2>4, HalfDoneAppend
  <2> HIDE DEF w
  <2>7. Atomic!Write
    <3>1. HalfDone(effects)' = HalfDone(effects)
      BY <2>6 DEF HalfDone
    <3> QED BY <1>0, <1>4, <2>2, <2>5, <3>1 DEF Wrote, Atomic!Write
  <2> QED BY <2>7 DEF Atomic!Next
<1>5. CASE FailedWriting
  <2>1. PICK k \in 1..Parts(op) :
          effects' = Append(effects, Unanswered(op, k)) /\ (k < Parts(op) => failed')
    BY <1>5 DEF FailedWriting
  <2>2. Parts(op) \in Nat /\ k \in Nat
    BY <2>1, TxAssumption DEF Parts
  <2> DEFINE e == Unanswered(op, k)
             w == [call |-> e.call, seen |-> e.seen]
  <2>3. e \in Effect /\ e.parts = k /\ e.of = Parts(op)
    BY <1>0, <2>2, UnansweredType DEF Base
  <2>4. w \in Write
    BY <2>3 DEF Effect, Write
  <2>5. effects' = Append(effects, e)
    BY <2>1
  <2> HIDE DEF e
  <2>6. CASE k < Parts(op)
    <3>1. Whole(effects') = Whole(effects)
      <4>1. e.parts # e.of
        BY <2>2, <2>3, <2>6
      <4> QED BY <1>1, <2>3, <2>5, <4>1, WholeAppend
    <3>2. HalfDone(effects')
      BY <1>1, <2>3, <2>5, <2>6, HalfDoneAppend
    <3>3. HalfDone(effects)' = TRUE
      BY <3>2 DEF HalfDone
    <3>4. Atomic!Doom
      BY <1>0, <1>5, <3>1, <3>3 DEF FailedWriting, Atomic!Doom
    <3> QED BY <3>4 DEF Atomic!Next
  <2>7. CASE ~(k < Parts(op))
    <3>1. e.parts = e.of /\ ~(e.parts < e.of)
      BY <2>1, <2>2, <2>3, <2>7
    <3>2. Whole(effects') = Append(Whole(effects), w)
      BY <1>1, <2>3, <2>5, <3>1, WholeAppend
    <3>3. HalfDone(effects') <=> HalfDone(effects)
      BY <1>1, <2>3, <2>5, <3>1, HalfDoneAppend
    <3> HIDE DEF w
    <3>4. HalfDone(effects)' = HalfDone(effects)
      BY <3>3 DEF HalfDone
    <3>5. Atomic!Write
      BY <1>0, <1>5, <2>4, <3>2, <3>4 DEF FailedWriting, Atomic!Write
    <3> QED BY <3>5 DEF Atomic!Next
  <2> QED BY <2>6, <2>7
<1> QED BY <1>0, <1>2, <1>3, <1>4, <1>5

LEMMA StepAtomic ==
  ASSUME Base, Tracked, Outcome, [Next]_vars
  PROVE  [Atomic!Next]_(Atomic!vars)
<1> USE DEF client, server
<1>1. CASE Statement
  BY <1>1, StatementAtomic
<1>2. ASSUME UNCHANGED <<xact, effects, inForce, heard>>
      PROVE  [Atomic!Next]_(Atomic!vars)
  BY <1>2 DEF Atomic!vars
<1>3. ASSUME xact \in {"open", "gone"}, xact' = "gone", effects' = <<>>, UNCHANGED <<inForce, heard>>
      PROVE  [Atomic!Next]_(Atomic!vars)
  <2>1. CASE xact = "open"
    BY <1>3, <2>1, NothingTold, HalfDoneAppend DEF Atomic!Next, Atomic!Abort, HalfDone
  <2>2. CASE xact = "gone"
    BY <1>2, <1>3, <2>2 DEF Outcome, Lived
  <2> QED BY <1>3, <2>1, <2>2
<1>4. xact \in {"none", "open", "committed", "gone"}
  BY DEF Base, TypeOK
<1>5. CASE Begin
  <2>1. UNCHANGED <<effects, inForce, heard>> /\ (UNCHANGED xact \/ xact' = "open")
    BY <1>5 DEF Begin
  <2>2. xact = "none"
    BY <1>5 DEF Begin, Outcome, Lived
  <2> QED BY <1>2, <2>1, <2>2 DEF Atomic!Next, Atomic!Begin
<1>6. CASE ReadHome
  <2>1. UNCHANGED <<effects, inForce, heard>> /\ (UNCHANGED xact \/ xact' = "gone")
    BY <1>6 DEF ReadHome
  <2>2. effects = <<>> /\ xact \in {"open", "gone"}
    BY <1>4, <1>6 DEF ReadHome, Outcome, Lived
  <2> QED BY <1>2, <1>3, <2>1, <2>2
<1>7. CASE Commit
  <2>1. UNCHANGED heard /\ phase = "commit" /\ xact \in {"open", "gone"}
    BY <1>4, <1>7 DEF Commit, Outcome, Lived
  <2>2. CASE xact = "open" /\ xact' = "committed" /\ inForce' = effects /\ UNCHANGED effects
    <3>1. ~HalfDone(effects)
      <4>1. \A i \in DOMAIN effects : effects[i].parts = effects[i].of
        BY <2>1 DEF Base, HalfDoneRecorded
      <4>2. ASSUME NEW i \in DOMAIN effects PROVE ~(effects[i].parts < effects[i].of)
        <5>1. effects[i] \in Effect
          BY ElementOfSeq, LenProperties DEF Base, TypeOK
        <5> QED BY <4>1, <5>1 DEF Effect
      <4> QED BY <4>2 DEF HalfDone
    <3> QED BY <2>1, <2>2, <3>1 DEF Atomic!Next, Atomic!Commit
  <2>3. CASE xact' = "gone" /\ effects' = <<>> /\ UNCHANGED inForce
    BY <1>3, <2>1, <2>3
  <2> QED BY <1>7, <2>2, <2>3 DEF Commit
<1>8. CASE Rollback \/ DriverRollsBack
  <2>1. xact' = "gone" /\ effects' = <<>> /\ UNCHANGED <<inForce, heard>>
    BY <1>8 DEF Rollback, DriverRollsBack
  <2>2. xact \in {"open", "gone"}
    BY <1>4, <1>8 DEF Rollback, DriverRollsBack, Outcome, Lived
  <2> QED BY <1>3, <2>1, <2>2
<1>9. CASE Report
  <2>1. UNCHANGED <<xact, effects, inForce>> /\ phase = "report" /\ xact = "committed"
    BY <1>9 DEF Report, Outcome, Lived
  <2>2. pending = Atomic!Observed(Whole(inForce))
    BY <2>1, ObservedIsTold DEF Outcome, Unheard
  <2>3. CASE Len(heard) < Len(pending)
    <3>1. heard' = Append(heard, pending[Len(heard) + 1])
      BY <1>9, <2>3 DEF Report
    <3> QED BY <2>1, <2>2, <2>3, <3>1 DEF Atomic!Next, Atomic!Report
  <2>4. CASE ~(Len(heard) < Len(pending))
    <3>1. UNCHANGED heard
      BY <1>9, <2>4 DEF Report
    <3> QED BY <1>2, <2>1, <3>1
  <2> QED BY <2>3, <2>4
<1>10. CASE \/ Issue \/ Join \/ LeaveJoined \/ FnReturnsNil \/ FnFails \/ GoHome
            \/ CommitRefused \/ ContextEnds \/ Returned \/ UNCHANGED vars
  <2>1. UNCHANGED <<xact, effects, inForce, heard>>
    BY <1>10 DEF Issue, Join, LeaveJoined, FnReturnsNil, FnFails, GoHome, CommitRefused,
                 ContextEnds, Returned, vars
  <2> QED BY <1>2, <2>1
<1> QED
  BY <1>1, <1>5, <1>6, <1>7, <1>8, <1>9, <1>10 DEF Next, Fn, Call

\* InTransaction is an atomic transaction: its writes come into force together or
\* not at all, none when one is half done, and the observer is told of them and of
\* nothing else (the doc comment of InTransaction).
THEOREM CallIsAtomic == Spec => AtomicSpec
<1>1. Init => Atomic!Init
  BY InitAtomic
<1>2. Base /\ Tracked /\ Outcome /\ [Next]_vars => [Atomic!Next]_(Atomic!vars)
  BY StepAtomic
<1> QED
  BY <1>1, <1>2, AlwaysOutcome, PTL DEF Spec, AtomicSpec, Atomic!Spec
=============================================================================
