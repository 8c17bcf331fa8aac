---------------------------- MODULE WorkflowState ----------------------------
(***************************************************************************)
(* The workflow_state row (internal/workflow/state.go and its migration)   *)
(* and the changes Runner.Run makes to the WorkflowState it holds in       *)
(* memory (internal/workflow/runner.go).                                   *)
(*                                                                         *)
(* Abstractions: identifiers, workflow type, client id, order id and the   *)
(* timestamps are constant for a job and left out; the error text is the   *)
(* BOOLEAN "there is one"; the JSONB accumulator is the set of the steps   *)
(* whose output it holds, on top of the payload that is always there.      *)
(***************************************************************************)
EXTENDS Integers

CONSTANTS NumSteps,    \* length of the worker's []workflow.Step
          StepWrites   \* the steps that record an output in state.Data

Steps == 0 .. NumSteps - 1

ASSUME StepsAssumption == NumSteps \in Nat \ {0} /\ StepWrites \subseteq Steps

Status == {"pending", "running", "completed", "failed"}

\* A row of the table, or (status "none") the absence of one.
Row == [step   : 0 .. NumSteps,
        status : Status \cup {"none"},
        err    : BOOLEAN,
        data   : SUBSET Steps]

MkRow(step, status, err, data) ==
  [step |-> step, status |-> status, err |-> err, data |-> data]

NoRow == MkRow(0, "none", FALSE, {})

Exists(r) == r.status # "none"

\* The state Run builds when Get answers ErrNotFound.
NewState == MkRow(0, "pending", FALSE, {})

MarkRunning(s) == MkRow(s.step, "running", FALSE, s.data)

MarkFailed(s) == MkRow(s.step, "failed", TRUE, s.data)

MarkCompleted(s) == MkRow(s.step, "completed", s.err, s.data)

\* (mutant of Advance) A step that is counted twice is a step that never runs.
AdvanceByTwo(s) == MkRow(s.step + 2, s.status, s.err, s.data)

\* state.CurrentStep = i + 1, where i is the step that just returned nil.
Advance(s) == MkRow(s.step + 1, s.status, s.err, s.data)

\* What a step's Set leaves in state.Data.
Output(s) ==
  MkRow(s.step, s.status, s.err, s.data \cup ({s.step} \cap StepWrites))

\* The only row a finished workflow may leave behind.
FinalRow == MkRow(NumSteps, "completed", FALSE, StepWrites)

==============================================================================
