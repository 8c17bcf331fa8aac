--------------------------- MODULE WorkflowRunner ---------------------------
(***************************************************************************)
(* The onboard_org worker: River hands a job to an executor, which opens   *)
(* one Postgres transaction, runs workflow.Runner.Run inside it and        *)
(* commits (internal/jobs/onboard_org.go, internal/workflow/runner.go).    *)
(*                                                                         *)
(* One step of this module is one SQL statement, one call of a workflow    *)
(* step, or one move of River.  Transactions run at READ COMMITTED: a      *)
(* SELECT sees committed rows and its own; INSERT waits on the UNIQUE      *)
(* job_id, and UPDATE on the row, while another open transaction has       *)
(* written that job's row.                                                 *)
(*                                                                         *)
(* River, and Postgres behind pgx, are external: what they do is taken     *)
(* from how the code configures and calls them.  Faults (an SQL error, a   *)
(* Postgres session that ends under the executor, a commit whose answer is *)
(* lost, a process crash, a rescue of a job whose executor is alive but    *)
(* past the deadline) are bounded by MaxFaults.                            *)
(***************************************************************************)
EXTENDS WorkflowState

CONSTANTS Jobs,         \* rows of river_job of kind onboard_org
          Workers,      \* executors, each in a process of its own
          NoJob,        \* what an idle executor works on
          Outcomes,     \* how a call of a workflow step may end
          MaxAttempts,  \* river_job.max_attempts
          MaxFaults     \* bound: faults in a behaviour

ASSUME RunnerAssumption == /\ NoJob \notin Jobs
                           /\ Outcomes \subseteq {"ok", "retryable", "permanent", "panic"}
                           /\ MaxAttempts \in Nat \ {0}
                           /\ MaxFaults \in Nat

VARIABLES jobState,  \* river_job.state
          attempt,   \* river_job.attempt
          rows,      \* the committed workflow_state row of each job
          tx,        \* the row each executor's open transaction has written
          lost,      \* the Postgres session of each executor's transaction has ended
          pc,        \* where each executor is
          job,       \* the job each executor was handed
          state,     \* Run's *WorkflowState
          result,    \* what Work returns
          advanced,  \* history: the steps of each job ever counted as done
          faults     \* faults so far

queue == <<jobState, attempt>>
vars  == <<jobState, attempt, rows, tx, lost, pc, job, state, result, advanced, faults>>

InTx   == {"get", "create", "mark", "step", "advance", "fail", "finish", "commit"}
PC     == InTx \cup {"idle", "begin", "rollback", "report"}
Result == {"none", "ok", "retryable", "permanent", "panic", "error"}

TypeOK ==
  /\ jobState \in [Jobs -> {"available", "running", "retryable", "completed",
                            "discarded"}]
  /\ attempt \in [Jobs -> 0 .. MaxAttempts]
  /\ rows \in [Jobs -> Row]
  /\ tx \in [Workers -> Row]
  /\ lost \in [Workers -> BOOLEAN]
  /\ pc \in [Workers -> PC]
  /\ job \in [Workers -> Jobs \cup {NoJob}]
  /\ state \in [Workers -> Row]
  /\ result \in [Workers -> Result]
  /\ advanced \in [Jobs -> SUBSET Steps]
  /\ faults \in 0 .. MaxFaults

Init ==
  /\ jobState = [j \in Jobs |-> "available"]
  /\ attempt = [j \in Jobs |-> 0]
  /\ rows = [j \in Jobs |-> NoRow]
  /\ tx = [w \in Workers |-> NoRow]
  /\ lost = [w \in Workers |-> FALSE]
  /\ pc = [w \in Workers |-> "idle"]
  /\ job = [w \in Workers |-> NoJob]
  /\ state = [w \in Workers |-> NoRow]
  /\ result = [w \in Workers |-> "none"]
  /\ advanced = [j \in Jobs |-> {}]
  /\ faults = 0

Goto(w, label) == pc' = [pc EXCEPT ![w] = label]

Return(w, res) == result' = [result EXCEPT ![w] = res]

\* (mutant of LockedByOther) No UNIQUE index on job_id, no row lock.
NeverLocked(w) == FALSE

\* Another open transaction has inserted or updated the job's row.
LockedByOther(w) ==
  \E v \in Workers \ {w} : job[v] = job[w] /\ Exists(tx[v])

\* Both arms of UpdateStep's row in one place: memory and transaction agree.
UpdateStep(w, s) == /\ state' = [state EXCEPT ![w] = s]
                    /\ tx' = [tx EXCEPT ![w] = s]

------------------------------------------------------------------------------
(* River: fetching and rescheduling.                                       *)

Fetch(w, j) ==
  /\ pc[w] = "idle"
  /\ jobState[j] = "available"
  /\ jobState' = [jobState EXCEPT ![j] = "running"]
  /\ attempt' = [attempt EXCEPT ![j] = @ + 1]
  /\ job' = [job EXCEPT ![w] = j]
  /\ Goto(w, "begin")
  /\ UNCHANGED <<rows, tx, lost, state, result, advanced, faults>>

Reschedule(j) ==
  /\ jobState[j] = "retryable"
  /\ jobState' = [jobState EXCEPT ![j] = "available"]
  /\ UNCHANGED <<attempt, rows, tx, lost, pc, job, state, result, advanced, faults>>

------------------------------------------------------------------------------
(* OnboardOrgWorker.Work and Runner.Run.                                   *)

\* tx, err := w.pool.Begin(ctx)
Begin(w) ==
  /\ pc[w] = "begin"
  /\ Goto(w, "get")
  /\ UNCHANGED <<queue, rows, tx, lost, job, state, result, advanced, faults>>

\* (mutant of Get) SELECT ... FOR SHARE: readers lock the row together, and the
\* UPDATE of each then waits for the locks of the others.
GetForShare(w) ==
  /\ pc[w] = "get" /\ ~lost[w]
  /\ \/ /\ Exists(rows[job[w]])
        /\ UpdateStep(w, rows[job[w]])
        /\ Goto(w, "mark")
     \/ /\ ~Exists(rows[job[w]])
        /\ state' = [state EXCEPT ![w] = NewState]
        /\ Goto(w, "create")
        /\ UNCHANGED tx
  /\ UNCHANGED <<queue, rows, lost, job, result, advanced, faults>>

\* r.repo.Get: the committed row, or the state of a workflow not yet begun.
Get(w) ==
  /\ pc[w] = "get" /\ ~lost[w]
  /\ \/ /\ Exists(rows[job[w]])
        /\ state' = [state EXCEPT ![w] = rows[job[w]]]
        /\ Goto(w, "mark")
     \/ /\ ~Exists(rows[job[w]])
        /\ state' = [state EXCEPT ![w] = NewState]
        /\ Goto(w, "create")
  /\ UNCHANGED <<queue, rows, tx, lost, job, result, advanced, faults>>

\* r.repo.Create: waits for a transaction that holds the same job_id.
Create(w) ==
  /\ pc[w] = "create" /\ ~lost[w]
  /\ ~LockedByOther(w)
  /\ ~Exists(rows[job[w]])
  /\ tx' = [tx EXCEPT ![w] = state[w]]
  /\ Goto(w, "mark")
  /\ UNCHANGED <<queue, rows, lost, job, state, result, advanced, faults>>

\* (mutant of CreateConflict) The INSERT is tried again in the same transaction.
CreateAgain(w) ==
  /\ pc[w] = "create" /\ ~lost[w]
  /\ Exists(rows[job[w]])
  /\ UNCHANGED vars

\* The row appeared between Get and Create: unique_violation.
CreateConflict(w) ==
  /\ pc[w] = "create" /\ ~lost[w]
  /\ Exists(rows[job[w]])
  /\ Return(w, "error")
  /\ Goto(w, "rollback")
  /\ UNCHANGED <<queue, rows, tx, lost, job, state, advanced, faults>>

\* Where the loop over r.steps goes from a current_step.
NextPC(step) == IF step < NumSteps THEN "step" ELSE "finish"

\* status = running, error = "", and the loop skips i < state.CurrentStep.
Mark(w) ==
  /\ pc[w] = "mark" /\ ~lost[w]
  /\ ~LockedByOther(w)
  /\ UpdateStep(w, MarkRunning(state[w]))
  /\ Goto(w, NextPC(state[w].step))
  /\ UNCHANGED <<queue, rows, lost, job, result, advanced, faults>>

\* step.Run(ctx, state) returns nil.
StepOK(w) ==
  /\ pc[w] = "step"
  /\ "ok" \in Outcomes
  /\ state' = [state EXCEPT ![w] = Output(state[w])]
  /\ Goto(w, "advance")
  /\ UNCHANGED <<queue, rows, tx, lost, job, result, advanced, faults>>

\* step.Run(ctx, state) returns an error, its output recorded or not.
StepError(w) ==
  /\ pc[w] = "step"
  /\ \E res \in Outcomes \cap {"retryable", "permanent"} : Return(w, res)
  /\ \/ state' = [state EXCEPT ![w] = MarkFailed(state[w])]
     \/ state' = [state EXCEPT ![w] = MarkFailed(Output(state[w]))]
  /\ Goto(w, "fail")
  /\ UNCHANGED <<queue, rows, tx, lost, job, advanced, faults>>

\* step.Run panics; River recovers, after the deferred Rollback.
StepPanic(w) ==
  /\ pc[w] = "step"
  /\ "panic" \in Outcomes
  /\ Return(w, "panic")
  /\ Goto(w, "rollback")
  /\ UNCHANGED <<queue, rows, tx, lost, job, state, advanced, faults>>

\* Persist the failed status, then return the step's error.
Fail(w) ==
  /\ pc[w] = "fail" /\ ~lost[w]
  /\ UpdateStep(w, state[w])
  /\ Goto(w, "rollback")
  /\ UNCHANGED <<queue, rows, lost, job, result, advanced, faults>>

\* state.CurrentStep = i + 1, persisted.
AdvanceStep(w) ==
  /\ pc[w] = "advance" /\ ~lost[w]
  /\ UpdateStep(w, Advance(state[w]))
  /\ advanced' = [advanced EXCEPT ![job[w]] = @ \cup {state[w].step}]
  /\ Goto(w, NextPC(Advance(state[w]).step))
  /\ UNCHANGED <<queue, rows, lost, job, result, faults>>

\* (mutant of Finish) Work forgets tx.Commit; the deferred Rollback runs.
FinishUncommitted(w) ==
  /\ pc[w] = "finish" /\ ~lost[w]
  /\ Return(w, "ok")
  /\ Goto(w, "rollback")
  /\ UNCHANGED <<queue, rows, tx, lost, job, state, advanced, faults>>

\* status = completed, persisted.
Finish(w) ==
  /\ pc[w] = "finish" /\ ~lost[w]
  /\ UpdateStep(w, MarkCompleted(state[w]))
  /\ Goto(w, "commit")
  /\ UNCHANGED <<queue, rows, lost, job, result, advanced, faults>>

\* return tx.Commit(ctx)
Commit(w) ==
  /\ pc[w] = "commit" /\ ~lost[w]
  /\ rows' = [rows EXCEPT ![job[w]] = tx[w]]
  /\ tx' = [tx EXCEPT ![w] = NoRow]
  /\ Return(w, "ok")
  /\ Goto(w, "report")
  /\ UNCHANGED <<queue, lost, job, state, advanced, faults>>

\* (mutant of Disconnected) The error of the UPDATE after a step is logged, not
\* returned, and the loop goes on.
DisconnectedGoesOn(w) ==
  /\ lost[w]
  /\ \/ /\ pc[w] = "advance"
        /\ state' = [state EXCEPT ![w] = Advance(state[w])]
        /\ Goto(w, NextPC(Advance(state[w]).step))
        /\ UNCHANGED result
     \/ /\ pc[w] \in InTx \ {"step", "advance"}
        /\ Return(w, "error")
        /\ Goto(w, "rollback")
        /\ UNCHANGED state
  /\ UNCHANGED <<queue, rows, tx, lost, job, advanced, faults>>

\* The statement of an execution whose session is gone fails.
Disconnected(w) ==
  /\ lost[w]
  /\ pc[w] \in InTx \ {"step"}
  /\ Return(w, "error")
  /\ Goto(w, "rollback")
  /\ UNCHANGED <<queue, rows, tx, lost, job, state, advanced, faults>>

\* (mutant of Rollback) The error path commits what the transaction wrote.
RollbackCommits(w) ==
  /\ pc[w] = "rollback"
  /\ rows' = IF Exists(tx[w]) THEN [rows EXCEPT ![job[w]] = tx[w]] ELSE rows
  /\ tx' = [tx EXCEPT ![w] = NoRow]
  /\ Goto(w, "report")
  /\ UNCHANGED <<queue, lost, job, state, result, advanced, faults>>

\* defer tx.Rollback(ctx)
Rollback(w) ==
  /\ pc[w] = "rollback"
  /\ tx' = [tx EXCEPT ![w] = NoRow]
  /\ Goto(w, "report")
  /\ UNCHANGED <<queue, rows, lost, job, state, result, advanced, faults>>

------------------------------------------------------------------------------
(* River: what becomes of the job when Work has returned.                  *)

Leave(w) == /\ pc' = [pc EXCEPT ![w] = "idle"]
            /\ job' = [job EXCEPT ![w] = NoJob]
            /\ tx' = [tx EXCEPT ![w] = NoRow]
            /\ lost' = [lost EXCEPT ![w] = FALSE]
            /\ state' = [state EXCEPT ![w] = NoRow]
            /\ result' = [result EXCEPT ![w] = "none"]

AfterError(n) == IF n < MaxAttempts THEN "retryable" ELSE "discarded"

\* Work returned r in attempt n: any error is an error like any other.
Verdict(r, n) == IF r = "ok" THEN "completed" ELSE AfterError(n)

\* River writes the outcome only if the job is still marked running; the
\* answer of an overtaken executor counts for the attempt that is on.
Report(w) ==
  /\ pc[w] = "report"
  /\ jobState' = IF jobState[job[w]] = "running"
                   THEN [jobState EXCEPT ![job[w]] = Verdict(result[w], attempt[job[w]])]
                   ELSE jobState
  /\ Leave(w)
  /\ UNCHANGED <<attempt, rows, advanced, faults>>

\* The rescuer finds a running job whose executor is gone.
Rescue(j) ==
  /\ jobState[j] = "running"
  /\ \A w \in Workers : job[w] # j
  /\ jobState' = [jobState EXCEPT ![j] = AfterError(attempt[j])]
  /\ UNCHANGED <<attempt, rows, tx, lost, pc, job, state, result, advanced, faults>>

------------------------------------------------------------------------------
(* Faults.                                                                 *)

Fault == faults < MaxFaults /\ faults' = faults + 1

\* An SQL statement fails, or ctx is cancelled (timeout, River.Stop) at it.
\* Postgres frees the locks with the error, or when it sees the connection closed.
DBError(w) ==
  /\ Fault
  /\ pc[w] \in (InTx \ {"step"}) \cup {"begin"}
  /\ ~lost[w]
  /\ Return(w, "error")
  /\ Goto(w, "rollback")
  /\ tx' \in {tx, [tx EXCEPT ![w] = NoRow]}
  /\ UNCHANGED <<queue, rows, lost, job, state, advanced>>

\* Postgres ends the session of an open transaction (restart, failover, dropped
\* connection) and frees its locks; the executor goes on with what it is at.
SessionLost(w) ==
  /\ Fault
  /\ pc[w] \in InTx
  /\ ~lost[w]
  /\ lost' = [lost EXCEPT ![w] = TRUE]
  /\ tx' = [tx EXCEPT ![w] = NoRow]
  /\ UNCHANGED <<queue, rows, pc, job, state, result, advanced>>

\* COMMIT is applied but its answer never arrives.
CommitLost(w) ==
  /\ Fault
  /\ pc[w] = "commit" /\ ~lost[w]
  /\ rows' = [rows EXCEPT ![job[w]] = tx[w]]
  /\ tx' = [tx EXCEPT ![w] = NoRow]
  /\ Return(w, "error")
  /\ Goto(w, "report")
  /\ UNCHANGED <<queue, lost, job, state, advanced>>

\* The process dies and is started again; Postgres aborts its transaction.
Crash(w) ==
  /\ Fault
  /\ pc[w] # "idle"
  /\ Leave(w)
  /\ UNCHANGED <<queue, rows, advanced>>

\* The rescuer takes a slow executor for a dead one.
RescueAlive(j) ==
  /\ Fault
  /\ jobState[j] = "running"
  /\ \E w \in Workers : job[w] = j
  /\ jobState' = [jobState EXCEPT ![j] = AfterError(attempt[j])]
  /\ UNCHANGED <<attempt, rows, tx, lost, pc, job, state, result, advanced>>

------------------------------------------------------------------------------
\* Every executor idle and every job closed: the queue is empty.
Drained ==
  /\ \A w \in Workers : pc[w] = "idle"
  /\ \A j \in Jobs : jobState[j] \in {"completed", "discarded"}
  /\ UNCHANGED vars

Progress(w) ==
  \/ Begin(w) \/ Get(w) \/ Create(w) \/ CreateConflict(w) \/ Mark(w)
  \/ StepOK(w) \/ StepError(w) \/ StepPanic(w) \/ Fail(w) \/ AdvanceStep(w)
  \/ Finish(w) \/ Commit(w) \/ Disconnected(w) \/ Rollback(w) \/ Report(w)

Next ==
  \/ \E w \in Workers : \/ Progress(w)
                        \/ \E j \in Jobs : Fetch(w, j)
                        \/ DBError(w) \/ SessionLost(w) \/ CommitLost(w) \/ Crash(w)
  \/ \E j \in Jobs : Reschedule(j) \/ Rescue(j) \/ RescueAlive(j)
  \/ Drained

Spec == Init /\ [][Next]_vars

\* Executors and River's maintenance keep going; faults need never happen.
Fairness ==
  /\ \A w \in Workers : WF_vars(Progress(w))
  /\ \A j \in Jobs : /\ WF_vars(\E w \in Workers : Fetch(w, j))
                     /\ WF_vars(Reschedule(j))
                     /\ WF_vars(Rescue(j))

FairSpec == Spec /\ Fairness

------------------------------------------------------------------------------
(* Safety.                                                                 *)

\* What other transactions can see of a workflow is nothing or all of it:
\* Run's intermediate rows (pending, running, failed, a partial current_step)
\* stay inside the transaction, whichever statement fails and whoever crashes.
DurableRowComplete == \A j \in Jobs : rows[j] \in {NoRow, FinalRow}

\* River never shows a job as completed whose workflow is not durable, nor
\* one some step of which was never counted as done.
CompletedJobDurable ==
  \A j \in Jobs : jobState[j] = "completed" =>
                    rows[j] = FinalRow /\ advanced[j] = Steps

RunningSteps(w) == pc[w] \in {"step", "advance", "fail"}

\* Two executions of one job (after a rescue) are never both between steps
\* while their Postgres sessions last: Create on the UNIQUE job_id, or the UPDATE
\* that marks the row running, lets the second one through only when the locks
\* of the first are free, and free they are only if the first has ended or its
\* session has: then the step it is in (runner.go:89) runs beside the second.
StepsExclusive ==
  \A v, w \in Workers :
    v # w /\ job[v] = job[w] /\ RunningSteps(v) /\ RunningSteps(w)
      => lost[v] \/ lost[w]

\* No execution goes on to a step, from the UPDATE before it (runner.go:72 and
\* 100), once the workflow is durable: a retry after a lost COMMIT answer skips
\* every step, and an execution overtaken by another one does not go on with
\* what it read before, even if its session was lost and it does not know.
NoStepAfterDurable ==
  [][\A w \in Workers :
       pc[w] # "step" /\ pc'[w] = "step" => ~Exists(rows[job[w]])]_vars

\* Waiting for the UNIQUE job_id, or for the row.
Waits(w) == pc[w] \in {"create", "mark"} /\ LockedByOther(w)

\* Whoever waits for a row waits for a transaction that waits for no row itself:
\* two executions of one job cannot block each other for good, whichever of them
\* INSERTs and whichever finds the row (runner.go:65 and 72, under the UNIQUE
\* constraint of 001_workflow_state.up.sql).
RowWaitsEnd ==
  \A v, w \in Workers :
    Waits(w) /\ v # w /\ job[v] = job[w] /\ Exists(tx[v]) => ~Waits(v)

------------------------------------------------------------------------------
(* Why the safety properties hold: what each executor knows at each point. *)

\* Run has recorded the outputs of the steps below n, and of no others.
Wrote(w, n) == state[w].data = StepWrites \cap (0 .. n - 1)

\* The executor holds the row of a workflow that is not durable.
Owns(w) == Exists(tx[w]) /\ ~Exists(rows[job[w]])

\* As far as it can know: unless its session is gone, which it has yet to hear.
ThinksItOwns(w) == lost[w] \/ Owns(w)

InLoop(w) == /\ ThinksItOwns(w)
             /\ state[w].step < NumSteps
             /\ state[w].status = "running"
             /\ ~state[w].err
             /\ 0 .. state[w].step - 1 \subseteq advanced[job[w]]

Local(w) ==
  /\ pc[w] = "idle" <=> job[w] = NoJob
  /\ pc[w] \in {"idle", "begin", "get", "create", "report"} => tx[w] = NoRow
  /\ lost[w] => tx[w] = NoRow
  /\ pc[w] = "create" => state[w] = NewState
  /\ pc[w] = "mark" => \/ state[w] = NewState /\ ThinksItOwns(w)
                       \/ state[w] = FinalRow /\ rows[job[w]] = FinalRow
  /\ pc[w] = "step" => InLoop(w) /\ Wrote(w, state[w].step)
  /\ pc[w] = "advance" => InLoop(w) /\ Wrote(w, state[w].step + 1)
  /\ pc[w] = "fail" => ThinksItOwns(w) /\ result[w] # "ok"
  /\ pc[w] = "finish" => /\ lost[w] \/ Exists(tx[w])
                         /\ state[w] = MarkRunning(FinalRow)
                         /\ advanced[job[w]] = Steps
  /\ pc[w] = "commit" => /\ lost[w] \/ tx[w] = FinalRow
                         /\ advanced[job[w]] = Steps
  /\ pc[w] = "rollback" => result[w] # "ok"
  /\ pc[w] = "report" /\ result[w] = "ok" => rows[job[w]] = FinalRow

\* At most one open transaction has written the row of a job: what the UNIQUE
\* index and the row locks come to.
OneWriter ==
  \A v, w \in Workers :
    v # w /\ job[v] = job[w] => ~(Exists(tx[v]) /\ Exists(tx[w]))

DurableMeansDone == \A j \in Jobs : rows[j] = FinalRow => advanced[j] = Steps

\* A job that may be fetched again has an attempt left.
AttemptsLeft ==
  \A j \in Jobs : jobState[j] \in {"available", "retryable"} =>
                    attempt[j] < MaxAttempts

\* The inductive invariant: every execution's place in Run fixes what it holds
\* in memory and, as long as its session lasts, in its transaction, and no two
\* transactions hold one row.
IInv == /\ TypeOK
        /\ \A w \in Workers : Local(w)
        /\ OneWriter
        /\ DurableRowComplete
        /\ DurableMeansDone
        /\ CompletedJobDurable
        /\ AttemptsLeft

------------------------------------------------------------------------------
(* The abstract workflow, and liveness.                                    *)

Recorded == [j \in Jobs |-> Exists(rows[j])]

Closed == [j \in Jobs |-> IF jobState[j] \in {"completed", "discarded"}
                            THEN jobState[j] ELSE "open"]

Abstract == INSTANCE AtomicWorkflow WITH done <- advanced, recorded <- Recorded,
                                         closed <- Closed, tries <- attempt

\* Every execution of the worker keeps the promises of AtomicWorkflow.
ImplementsAtomicWorkflow == Abstract!Spec

\* No interleaving of executions, lock waits and faults leaves a job hanging.
JobsClose == \A j \in Jobs : <>(jobState[j] \in {"completed", "discarded"})

StepFailed == \E w \in Workers : result[w] \in {"retryable", "permanent", "panic"}

\* If no step fails, fewer faults than attempts cannot keep a workflow from
\* becoming durable: no fault costs a job more than one attempt.
WorkflowsFinish ==
  \A j \in Jobs : [](~StepFailed /\ faults < MaxAttempts) => <>Exists(rows[j])

------------------------------------------------------------------------------
(* What the comments say, where the code does otherwise.                   *)

\* runner.go:15-18: steps below current_step are "already durably complete"
\* and a retry re-runs the interrupted step only.
CountedStepsNotRerun ==
  \A w \in Workers : pc[w] = "step" => state[w].step \notin advanced[job[w]]

\* runner.go:22-23: after a PermanentError River does not try the job again.
PermanentErrorDiscards ==
  [][\A w \in Workers : Report(w) /\ result[w] = "permanent" =>
                          jobState'[job[w]] # "retryable"]_vars
=============================================================================
