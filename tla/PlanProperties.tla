--------------------------- MODULE PlanProperties ---------------------------
(* What is asked of the plans: the script of a table, the script of a          *)
(* program's calls, and the order of a job's steps.                            *)
EXTENDS TableScript, JobReorder, RestorePlan, Capturing, Inputs

\* buildTableScript: the table comes out as it was, or is left as it was.
TableRebuilt ==
    input.of = "table" => Rebuilds(input.table, input.options, input.there, input.blocks)

\* ScriptCollector.String: the script of a program's calls does what they do.
ScriptRunsAsCalled == input.of = "program" => Capture!RunsAsCalled(input.program)

\* ReorderSteps and MoveStep: msdb accepts the statements of every order, and the
\* steps end in it with their flow, and the job's start, naming the steps they
\* named; a step that is moved goes to the nearest number to the one asked for.
StepsReordered ==
    /\ input.of = "reorder" => Reordered(input.job, input.want)
    /\ input.of = "move" => MovedOne(input.job, input.from, input.to)
=============================================================================
