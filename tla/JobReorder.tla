----------------------------- MODULE JobReorder ------------------------------
(***************************************************************************)
(* Job.ReorderSteps and MoveStep (agent_job_step.go): the statements that  *)
(* put a job's steps into another order, and what msdb makes of them.      *)
(*                                                                         *)
(* A step is the number it had when the steps were read, which stands for  *)
(* everything a move carries along, and its flow: what follows its success *)
(* and its failure.  The batch is one transaction (execAtomic), so a       *)
(* refused statement leaves the job as it was.                             *)
(***************************************************************************)
EXTENDS Integers, Selection
LOCAL INSTANCE SequencesExt

QuitWithSuccess == 1
QuitWithFailure == 2
goToNextStepAction == 3
goToStepAction == 4

Flow(action, step) == [action |-> action, step |-> step]
GoesTo(flow) == flow.action = goToStepAction

-----------------------------------------------------------------------------
(* msdb: a job is its steps, in order, and the number it starts at.  refused *)
(* is set by a statement msdb raises an error for.                          *)

MapFlows(step, f(_, _)) ==
    [step EXCEPT !.success = f(@, QuitWithSuccess), !.fail = f(@, QuitWithFailure)]

\* sp_delete_jobstep: references to later steps move up, references to the step
\* itself end the job.
Delete(job, at) ==
    LET f(flow, quit) ==
          IF flow.step = at THEN Flow(quit, 0)
          ELSE IF flow.step > at THEN Flow(flow.action, flow.step - 1) ELSE flow
        kept == RemoveAt(job.steps, at)
    IN  [job EXCEPT !.steps = [i \in DOMAIN kept |-> MapFlows(kept[i], f)]]

\* sp_add_jobstep: references to the steps it comes before move down.
Insert(job, at, step) ==
    LET f(flow, quit) ==
          IF flow.step >= at THEN Flow(flow.action, flow.step + 1) ELSE flow
    IN  [job EXCEPT !.steps =
            InsertAt([i \in DOMAIN job.steps |-> MapFlows(job.steps[i], f)], at, step)]

\* sp_verify_jobstep, Msg 14235: a step that goes to itself.
GoesToItself(step, at) ==
    \/ GoesTo(step.success) /\ step.success.step = at
    \/ GoesTo(step.fail) /\ step.fail.step = at

Run(job, statement) ==
    LET at == statement.at
    IN  IF job.refused THEN job
        ELSE CASE statement.verb = "delete" -> Delete(job, at)
               [] statement.verb = "add" ->
                    IF GoesToItself(statement.step, at)
                    THEN [job EXCEPT !.refused = TRUE]
                    ELSE Insert(job, at, statement.step)
               [] statement.verb = "flow" ->
                    IF GoesToItself(statement.step, at)
                    THEN [job EXCEPT !.refused = TRUE]
                    ELSE [job EXCEPT !.steps[at] =
                            [@ EXCEPT !.success = statement.step.success,
                                      !.fail = statement.step.fail]]
               [] statement.verb = "start" -> [job EXCEPT !.start = at]

\* The job after the first n statements, and after all of them.
RunTo(job, statements) ==
    LET upTo[n \in 0..Len(statements)] ==
          IF n = 0 THEN job ELSE Run(upTo[n - 1], statements[n])
    IN  upTo

RunAll(job, statements) == RunTo(job, statements)[Len(statements)]

\* execAtomic: all of the statements or none.
Execute(job, statements) ==
    LET after == RunAll(job, statements)
    IN  IF after.refused THEN [job EXCEPT !.refused = TRUE] ELSE after

-----------------------------------------------------------------------------
(* The code.                                                               *)

Statement(verb, at, step) == [verb |-> verb, at |-> at, step |-> step]
NoStep == [id |-> 0, success |-> Flow(QuitWithSuccess, 0), fail |-> Flow(QuitWithFailure, 0)]

Numbers(n) == [i \in 1..n |-> i]

\* moveOrder: the order that takes step id from to the number to, clamped.
moveOrder(from, to, n) ==
    LET others == Only(Numbers(n), Int \ {from})
        at == IF to < 1 THEN 1 ELSE IF to > Len(others) + 1 THEN Len(others) + 1 ELSE to
    IN  InsertAt(others, at, from)

checkReorder(want, n) ==
    /\ Len(want) = n
    /\ \A i \in DOMAIN want : want[i] \in 1..n
    /\ \A i, j \in DOMAIN want : want[i] = want[j] => i = j

\* reAddRequest: a flow that goes to a step goes to the next one meanwhile.
reAddRequestAsItWas(step) == step                                   \* a fault
reAddRequest(step) ==
    LET f(flow, quit) == Flow(IF GoesTo(flow) THEN goToNextStepAction ELSE flow.action, 0)
    IN  MapFlows(step, f)

\* The moves: current is the order so far, statements what brings it about.
Move(steps, want, so, target) ==
    IF so.current[target] = want[target] THEN so
    ELSE LET from == CHOOSE i \in DOMAIN so.current : so.current[i] = want[target]
         IN  [current |-> InsertAt(RemoveAt(so.current, from), target, want[target]),
              statements |-> so.statements \o
                <<Statement("delete", from, NoStep),
                  Statement("add", target, reAddRequest(steps[want[target]]))>>]

MovesTo(steps, want) ==
    LET upTo[target \in 0..Len(steps)] ==
          IF target = 0 THEN [current |-> Numbers(Len(steps)), statements |-> <<>>]
          ELSE Move(steps, want, upTo[target - 1], target)
    IN  upTo

Moves(steps, want) == MovesTo(steps, want)[Len(steps)]

\* position: where each step ended up; 0 for what is no step.
Position(current, id) ==
    IF \E i \in DOMAIN current : current[i] = id
    THEN CHOOSE i \in DOMAIN current : current[i] = id
    ELSE 0

\* The flow of the step now numbered i, as it was read, mapped.
Repaired(steps, current, i) ==
    LET f(flow, quit) == Flow(flow.action, Position(current, flow.step))
    IN  Statement("flow", i, MapFlows(steps[current[i]], f))

Goes(step) == GoesTo(step.success) \/ GoesTo(step.fail)

Repairs(steps, current) ==
    LET going == Only(Numbers(Len(current)), {i \in DOMAIN current : Goes(steps[current[i]])})
    IN  [k \in DOMAIN going |-> Repaired(steps, current, going[k])]

\* The job's start step, if what moved took it along.
StartMoved(current, start) ==
    IF Position(current, start) \in {0, start} THEN <<>>
    ELSE <<Statement("start", Position(current, start), NoStep)>>

ReorderSteps(job, want) ==
    LET moved == Moves(job.steps, want)
        statements == moved.statements \o Repairs(job.steps, moved.current)
    IN  IF ~checkReorder(want, Len(job.steps)) \/ statements = <<>> THEN job
        ELSE Execute(job, statements \o StartMoved(moved.current, job.start))

-----------------------------------------------------------------------------
(* What is asked of it.                                                    *)

\* Every step is where the order puts it, and every reference, the job's start
\* included where it is a step, names the step it named ("Go to step N references follow the steps
\* they name", MoveStep).  An order that is none leaves the job as it was.
EachOnce(want, n) ==
    want \in [1..n -> 1..n] /\ \A id \in 1..n : \E i \in 1..n : want[i] = id
Follows(flow, old, want) ==
    /\ flow.action = old.action
    /\ GoesTo(old) => want[flow.step] = old.step
Reordered(job, want) ==
    LET after == ReorderSteps(job, want)
    IN  IF EachOnce(want, Len(job.steps))
        THEN /\ ~after.refused
             /\ Len(after.steps) = Len(job.steps)
             /\ IF job.start \in DOMAIN want THEN want[after.start] = job.start
                ELSE after.start = job.start
             /\ \A i \in DOMAIN want :
                  LET step == after.steps[i]
                      old == job.steps[want[i]]
                  IN  /\ step.id = old.id
                      /\ Follows(step.success, old.success, want)
                      /\ Follows(step.fail, old.fail, want)
        ELSE after = job

\* A move leaves the other steps in the order they were in, with the moved one
\* at the number it was to have, or the nearest there is ("Move up", "move
\* down", MoveStep).
Distance(i, j) == IF i < j THEN j - i ELSE i - j
MovedOne(job, from, to) ==
    LET after == ReorderSteps(job, moveOrder(from, to, Len(job.steps)))
        ids == [i \in DOMAIN after.steps |-> after.steps[i].id]
    IN  IF from \in DOMAIN job.steps
        THEN /\ \A i, j \in DOMAIN ids : i < j /\ from \notin {ids[i], ids[j]} => ids[i] < ids[j]
             /\ \E i \in DOMAIN ids :
                  /\ ids[i] = from
                  /\ \A j \in DOMAIN ids : Distance(i, to) <= Distance(j, to)
        ELSE after = job
=============================================================================
