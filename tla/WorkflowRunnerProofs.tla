------------------------ MODULE WorkflowRunnerProofs ------------------------
(***************************************************************************)
(* Proofs about WorkflowRunner, for every number of jobs, executors, steps,*)
(* attempts and faults.                                                    *)
(***************************************************************************)
EXTENDS WorkflowRunner, TLAPS

USE StepsAssumption, RunnerAssumption

------------------------------------------------------------------------------
(* What the changes Run makes to its WorkflowState leave behind.           *)

\* Every state Run can build, read or write has the shape of a row.
LEMMA RowTypes ==
  /\ NoRow \in Row /\ NewState \in Row /\ FinalRow \in Row
  /\ \A s \in Row : /\ MarkRunning(s) \in Row
                    /\ MarkFailed(s) \in Row
                    /\ MarkCompleted(s) \in Row
                    /\ Output(s) \in Row
                    /\ s.step < NumSteps => Advance(s) \in Row
<1>1. NoRow \in Row /\ NewState \in Row /\ FinalRow \in Row
  BY DEF MkRow, Row, NoRow, NewState, FinalRow, Status
<1>2. ASSUME NEW s \in Row
      PROVE  /\ MarkRunning(s) \in Row
             /\ MarkFailed(s) \in Row
             /\ MarkCompleted(s) \in Row
             /\ Output(s) \in Row
  BY DEF MkRow, Row, MarkRunning, MarkFailed, MarkCompleted, Output, Status, Steps
<1>3. ASSUME NEW s \in Row, s.step < NumSteps
      PROVE  Advance(s) \in Row
  <2>1. s.step + 1 \in 0 .. NumSteps
    BY <1>3 DEF Row
  <2>2. s.status \in Status \cup {"none"} /\ s.err \in BOOLEAN /\ s.data \in SUBSET Steps
    BY DEF Row
  <2> QED
    BY <2>1, <2>2 DEF MkRow, Row, Advance
<1> QED
  BY <1>1, <1>2, <1>3

\* The fields after each of them.
LEMMA RowFields ==
  /\ ~Exists(NoRow) /\ Exists(NewState) /\ Exists(FinalRow)
  /\ NoRow # FinalRow /\ NewState.step = 0
  /\ NewState.data = {} /\ FinalRow.step = NumSteps
  /\ \A s \in Row :
       /\ /\ MarkRunning(s).step = s.step /\ MarkRunning(s).data = s.data
          /\ MarkRunning(s).status = "running" /\ ~MarkRunning(s).err
          /\ Exists(MarkRunning(s))
       /\ MarkFailed(s).status = "failed" /\ Exists(MarkFailed(s))
       /\ Exists(MarkCompleted(s))
       /\ /\ Output(s).step = s.step /\ Output(s).status = s.status
          /\ Output(s).err = s.err
          /\ Output(s).data = s.data \cup ({s.step} \cap StepWrites)
       /\ /\ Advance(s).step = s.step + 1 /\ Advance(s).status = s.status
          /\ Advance(s).err = s.err /\ Advance(s).data = s.data
          /\ Exists(Advance(s)) <=> Exists(s)
BY DEF MkRow, Row, Exists, NoRow, NewState, FinalRow, MarkRunning, MarkFailed,
       MarkCompleted, Output, Advance, Status

\* Finishing the loop over a fresh workflow ends in the one final row.
LEMMA LoopEnds ==
  ASSUME NEW s \in Row, s.step = NumSteps, s.status = "running", ~s.err,
         s.data = StepWrites \cap (0 .. s.step - 1)
  PROVE  /\ s = MarkRunning(FinalRow)
         /\ MarkCompleted(s) = FinalRow
<1>1. s.data = StepWrites
  BY DEF Steps
<1>2. s.err = FALSE
  BY DEF Row
<1>3. s = MkRow(NumSteps, "running", FALSE, StepWrites)
  BY <1>1, <1>2 DEF Row, MkRow
<1>4. MarkRunning(FinalRow) = MkRow(NumSteps, "running", FALSE, StepWrites)
  BY DEF MkRow, FinalRow, MarkRunning
<1>5. MarkCompleted(s) = FinalRow
  BY <1>1, <1>2 DEF FinalRow, MarkCompleted
<1> QED
  BY <1>3, <1>4, <1>5

------------------------------------------------------------------------------
(* The inductive invariant holds initially.                                *)

\* The invariant holds initially.
LEMMA InitIInv == Init => IInv
<1> SUFFICES ASSUME Init PROVE IInv
  OBVIOUS
<1>1. TypeOK
  BY RowTypes DEF Init, TypeOK, PC, Result
<1>2. \A w \in Workers : Local(w)
  BY DEF Init, Local
<1>3. OneWriter
  BY RowFields DEF Init, OneWriter
<1>4. DurableRowComplete /\ DurableMeansDone
  BY RowFields DEF Init, DurableRowComplete, DurableMeansDone
<1>5. CompletedJobDurable /\ AttemptsLeft
  BY DEF Init, CompletedJobDurable, AttemptsLeft
<1> QED
  BY <1>1, <1>2, <1>3, <1>4, <1>5 DEF IInv

------------------------------------------------------------------------------
(* What a step must be seen to do for the invariant to survive it.         *)

\* Another executor's step leaves what an executor knows true, as long as it
\* does not touch the row of its job; counting more steps as done is harmless.
LEMMA LocalFrame ==
  ASSUME TypeOK, TypeOK', NEW v \in Workers, Local(v),
         pc'[v] = pc[v], job'[v] = job[v], tx'[v] = tx[v], lost'[v] = lost[v],
         state'[v] = state[v], result'[v] = result[v],
         pc[v] # "idle" => /\ rows'[job[v]] = rows[job[v]]
                           /\ advanced[job[v]] \subseteq advanced'[job[v]]
  PROVE  Local(v)'
<1>1. CASE pc[v] = "idle"
  BY <1>1 DEF Local
<1>2. CASE pc[v] # "idle"
  <2>1. /\ job[v] \in Jobs
        /\ rows'[job[v]] = rows[job[v]]
        /\ advanced[job[v]] \subseteq advanced'[job[v]]
        /\ advanced'[job[v]] \subseteq Steps
    BY <1>2 DEF Local, TypeOK
  <2>2. advanced[job[v]] = Steps => advanced'[job[v]] = Steps
    BY <2>1
  <2>3. ThinksItOwns(v) => ThinksItOwns(v)'
    BY <2>1 DEF ThinksItOwns, Owns
  <2>4. InLoop(v) => InLoop(v)'
    BY <2>1, <2>3 DEF InLoop
  <2>5. \A n : Wrote(v, n) => Wrote(v, n)'
    BY DEF Wrote
  <2> QED
    BY <2>1, <2>2, <2>3, <2>4, <2>5 DEF Local
<1> QED
  BY <1>1, <1>2

\* A step of one executor inside its transaction: it must know afterwards what
\* its place in Run says, and write the row only when nobody else has.
LEMMA ExecStep ==
  ASSUME IInv, TypeOK', NEW w \in Workers,
         jobState' = jobState, attempt' = attempt, rows' = rows,
         job' = job, advanced' = advanced,
         \A v \in Workers \ {w} : /\ pc'[v] = pc[v] /\ tx'[v] = tx[v]
                                  /\ lost'[v] = lost[v]
                                  /\ state'[v] = state[v]
                                  /\ result'[v] = result[v],
         Exists(tx'[w]) => Exists(tx[w]) \/ ~LockedByOther(w),
         Local(w)'
  PROVE  IInv'
<1>1. \A v \in Workers : Local(v)'
  <2>1. ASSUME NEW v \in Workers \ {w} PROVE Local(v)'
    BY LocalFrame DEF IInv
  <2> QED
    BY <2>1
<1>2. OneWriter'
  BY DEF IInv, OneWriter, LockedByOther
<1>3. /\ DurableRowComplete' /\ DurableMeansDone'
      /\ CompletedJobDurable' /\ AttemptsLeft'
  BY DEF IInv, DurableRowComplete, DurableMeansDone, CompletedJobDurable, AttemptsLeft
<1> QED
  BY <1>1, <1>2, <1>3 DEF IInv

\* Every step keeps every variable in its type.
LEMMA TypeStep == IInv /\ [Next]_vars => TypeOK'
<1> SUFFICES ASSUME IInv, [Next]_vars PROVE TypeOK'
  OBVIOUS
<1> USE DEF IInv, TypeOK, PC, InTx, Result, Goto, Return, queue
<1>1. \A w \in Workers : pc[w] # "idle" => job[w] \in Jobs
  BY DEF Local
<1>2. ASSUME NEW w \in Workers, NEW j \in Jobs, Fetch(w, j) PROVE TypeOK'
  BY <1>2 DEF Fetch, AttemptsLeft
<1>3. ASSUME NEW w \in Workers, Begin(w) PROVE TypeOK'
  BY <1>3 DEF Begin
<1>4. ASSUME NEW w \in Workers, Get(w) PROVE TypeOK'
  BY <1>4, <1>1, RowTypes DEF Get
<1>5. ASSUME NEW w \in Workers, Create(w) PROVE TypeOK'
  BY <1>5 DEF Create
<1>6. ASSUME NEW w \in Workers, CreateConflict(w) PROVE TypeOK'
  BY <1>6 DEF CreateConflict
<1>7. ASSUME NEW w \in Workers, Mark(w) PROVE TypeOK'
  BY <1>7, RowTypes DEF Mark, UpdateStep, NextPC
<1>8. ASSUME NEW w \in Workers, StepOK(w) PROVE TypeOK'
  BY <1>8, RowTypes DEF StepOK
<1>9. ASSUME NEW w \in Workers, StepError(w) PROVE TypeOK'
  BY <1>9, RowTypes DEF StepError
<1>10. ASSUME NEW w \in Workers, StepPanic(w) PROVE TypeOK'
  BY <1>10 DEF StepPanic
<1>11. ASSUME NEW w \in Workers, Fail(w) PROVE TypeOK'
  BY <1>11 DEF Fail, UpdateStep
<1>12. ASSUME NEW w \in Workers, AdvanceStep(w) PROVE TypeOK'
  <2>1. state[w] \in Row /\ state[w].step < NumSteps
    BY <1>12 DEF AdvanceStep, Local, InLoop
  <2>2. Advance(state[w]) \in Row
    BY <2>1, RowTypes
  <2>3. state[w].step \in Steps
    BY <2>1 DEF Row, Steps
  <2> QED
    BY <1>12, <1>1, <2>2, <2>3 DEF AdvanceStep, UpdateStep, NextPC
<1>13. ASSUME NEW w \in Workers, Finish(w) PROVE TypeOK'
  BY <1>13, RowTypes DEF Finish, UpdateStep
<1>14. ASSUME NEW w \in Workers, Commit(w) PROVE TypeOK'
  BY <1>14, RowTypes DEF Commit
<1>15. ASSUME NEW w \in Workers, Rollback(w) PROVE TypeOK'
  BY <1>15, RowTypes DEF Rollback
<1>16. ASSUME NEW w \in Workers, Report(w) PROVE TypeOK'
  BY <1>16, RowTypes DEF Report, Leave, Verdict, AfterError
<1>17. ASSUME NEW w \in Workers, DBError(w) PROVE TypeOK'
  <2>1. tx' \in [Workers -> Row] /\ faults' \in 0 .. MaxFaults
    BY <1>17, RowTypes DEF DBError, Fault
  <2> QED
    BY <1>17, <2>1 DEF DBError
<1>18. ASSUME NEW w \in Workers, Disconnected(w) PROVE TypeOK'
  BY <1>18 DEF Disconnected
<1>19. ASSUME NEW w \in Workers, SessionLost(w) PROVE TypeOK'
  <2>1. /\ lost' \in [Workers -> BOOLEAN] /\ tx' \in [Workers -> Row]
        /\ faults' \in 0 .. MaxFaults
    BY <1>19, RowTypes DEF SessionLost, Fault
  <2> QED
    BY <1>19, <2>1 DEF SessionLost
<1>20. ASSUME NEW w \in Workers, CommitLost(w) PROVE TypeOK'
  <2>1. faults' \in 0 .. MaxFaults
    BY <1>20 DEF CommitLost, Fault
  <2>2. /\ rows' \in [Jobs -> Row]
        /\ tx' \in [Workers -> Row]
    BY <1>20, RowTypes DEF CommitLost
  <2> QED
    BY <1>20, <2>1, <2>2 DEF CommitLost
<1>21. ASSUME NEW w \in Workers, Crash(w) PROVE TypeOK'
  BY <1>21, RowTypes DEF Crash, Leave, Fault
<1>22. ASSUME NEW j \in Jobs, Reschedule(j) PROVE TypeOK'
  BY <1>22 DEF Reschedule
<1>23. ASSUME NEW j \in Jobs, Rescue(j) PROVE TypeOK'
  BY <1>23 DEF Rescue, AfterError
<1>24. ASSUME NEW j \in Jobs, RescueAlive(j) PROVE TypeOK'
  BY <1>24 DEF RescueAlive, AfterError, Fault
<1>25. CASE Drained \/ UNCHANGED vars
  BY <1>25 DEF Drained, vars
<1> QED
  BY <1>2, <1>3, <1>4, <1>5, <1>6, <1>7, <1>8, <1>9, <1>10, <1>11, <1>12, <1>13,
     <1>14, <1>15, <1>16, <1>17, <1>18, <1>19, <1>20, <1>21, <1>22, <1>23, <1>24, <1>25
     DEF Next, Progress

------------------------------------------------------------------------------
(* The steps of one executor inside its transaction.                       *)

\* Begin, Get, Create, the Create that conflicts, and an SQL error anywhere.
LEMMA EnterSteps ==
  ASSUME IInv, TypeOK', NEW w \in Workers,
         Begin(w) \/ Get(w) \/ Create(w) \/ CreateConflict(w) \/ DBError(w)
  PROVE  IInv'
<1> USE DEF TypeOK, queue, Goto, Return
<1>1. Local(w) /\ DurableRowComplete /\ TypeOK
  BY DEF IInv
<1>2. CASE Begin(w)
  <2>1. Local(w)'
    BY <1>1, <1>2 DEF Begin, Local
  <2> QED
    BY <1>2, <2>1, ExecStep DEF Begin
<1>3. CASE Get(w)
  <2>1. Local(w)'
    BY <1>1, <1>3, RowFields DEF Get, Local, DurableRowComplete
  <2> QED
    BY <1>3, <2>1, ExecStep DEF Get
<1>4. CASE Create(w)
  <2>1. Local(w)'
    BY <1>1, <1>4, RowFields DEF Create, Local, Owns, ThinksItOwns
  <2> QED
    BY <1>4, <2>1, ExecStep DEF Create
<1>5. CASE CreateConflict(w)
  <2>1. Local(w)'
    BY <1>1, <1>5 DEF CreateConflict, Local
  <2> QED
    BY <1>5, <2>1, ExecStep DEF CreateConflict
<1>6. CASE DBError(w)
  <2>1. Local(w)'
    BY <1>1, <1>6, RowFields DEF DBError, Local, InTx
  <2> QED
    BY <1>6, <2>1, ExecStep, RowFields DEF DBError
<1> QED
  BY <1>2, <1>3, <1>4, <1>5, <1>6

\* The loop over the steps, but for the counting of a step as done.
LEMMA LoopSteps ==
  ASSUME IInv, TypeOK', NEW w \in Workers,
         Mark(w) \/ StepOK(w) \/ StepError(w) \/ StepPanic(w) \/ Fail(w)
  PROVE  IInv'
<1> USE DEF TypeOK, queue, Goto, Return
<1>1. Local(w) /\ DurableMeansDone /\ TypeOK
  BY DEF IInv
<1>2. CASE Mark(w)
  <2>0. ThinksItOwns(w) => Owns(w)
    BY <1>2 DEF Mark, ThinksItOwns
  <2>1. CASE state[w] = NewState /\ Owns(w)
    <3>1. state'[w] = MarkRunning(NewState) /\ tx'[w] = MarkRunning(NewState)
      BY <1>2, <2>1 DEF Mark, UpdateStep
    <3>2. pc'[w] = "step"
      BY <1>2, <2>1, RowFields DEF Mark, NextPC
    <3>3. InLoop(w)' /\ Wrote(w, state[w].step)'
      <4>1. /\ state'[w].step = 0 /\ state'[w].data = {}
            /\ state'[w].status = "running" /\ ~state'[w].err /\ Exists(tx'[w])
        BY <3>1 DEF MarkRunning, NewState, MkRow, Exists
      <4>2. 0 .. 0 - 1 = {}
        OBVIOUS
      <4>3. rows' = rows /\ job' = job
        BY <1>2 DEF Mark
      <4> QED
        BY <2>1, <4>1, <4>2, <4>3 DEF Owns, ThinksItOwns, InLoop, Wrote
    <3>4. ~lost'[w]
      BY <1>2 DEF Mark
    <3>5. Local(w)'
      BY <1>1, <1>2, <3>2, <3>3, <3>4 DEF Mark, Local
    <3> QED
      BY <1>2, <3>5, ExecStep DEF Mark, UpdateStep
  <2>2. CASE state[w] = FinalRow /\ rows[job[w]] = FinalRow
    <3>1. state'[w] = MarkRunning(FinalRow) /\ tx'[w] = MarkRunning(FinalRow)
      BY <1>2, <2>2 DEF Mark, UpdateStep
    <3>2. pc'[w] = "finish"
      BY <1>2, <2>2, RowFields DEF Mark, NextPC
    <3>3. job[w] \in Jobs
      BY <1>1, <1>2 DEF Mark, Local
    <3>4. Local(w)'
      BY <1>1, <1>2, <2>2, <3>1, <3>2, <3>3, RowTypes, RowFields
      DEF Mark, Local, DurableMeansDone
    <3> QED
      BY <1>2, <3>4, ExecStep DEF Mark, UpdateStep
  <2> QED
    BY <1>1, <1>2, <2>0, <2>1, <2>2 DEF Mark, Local
<1>3. CASE StepOK(w)
  <2>1. InLoop(w) /\ Wrote(w, state[w].step) /\ state[w] \in Row
    BY <1>1, <1>3 DEF StepOK, Local
  <2>2. state'[w] = Output(state[w])
    BY <1>3 DEF StepOK
  <2>3. state[w].step \in Nat
    BY <2>1 DEF Row
  <2>4. Wrote(w, state[w].step + 1)'
    <3> DEFINE n == state[w].step
    <3>1. state'[w].step = n
      BY <2>1, <2>2, RowFields
    <3>2. state'[w].data = state[w].data \cup ({n} \cap StepWrites)
      BY <2>1, <2>2, RowFields
    <3>3. 0 .. n = (0 .. n - 1) \cup {n}
      BY <2>3
    <3>4. state'[w].data = StepWrites \cap (0 .. n)
      BY <2>1, <3>2, <3>3 DEF Wrote
    <3>5. (n + 1) - 1 = n
      BY <2>3
    <3> QED
      BY <3>1, <3>4, <3>5 DEF Wrote
  <2>5. InLoop(w)'
    BY <1>3, <2>1, <2>2, RowFields DEF StepOK, InLoop, ThinksItOwns, Owns
  <2>6. Local(w)'
    BY <1>1, <1>3, <2>4, <2>5 DEF StepOK, Local
  <2> QED
    BY <1>3, <2>6, ExecStep DEF StepOK
<1>4. CASE StepError(w)
  <2>1. ThinksItOwns(w) /\ state[w] \in Row
    BY <1>1, <1>4 DEF StepError, Local, InLoop
  <2>2. result'[w] # "ok"
    BY <1>4 DEF StepError
  <2>3. Local(w)'
    BY <1>1, <1>4, <2>1, <2>2 DEF StepError, Local, ThinksItOwns, Owns
  <2> QED
    BY <1>4, <2>3, ExecStep DEF StepError
<1>5. CASE StepPanic(w)
  <2>1. Local(w)'
    BY <1>1, <1>5 DEF StepPanic, Local
  <2> QED
    BY <1>5, <2>1, ExecStep DEF StepPanic
<1>6. CASE Fail(w)
  <2>1. Owns(w) /\ ~lost[w] /\ result[w] # "ok"
    BY <1>1, <1>6 DEF Fail, Local, ThinksItOwns
  <2>2. Local(w)'
    BY <1>1, <1>6, <2>1 DEF Fail, UpdateStep, Local
  <2> QED
    BY <1>6, <2>1, <2>2, ExecStep DEF Fail, UpdateStep, Owns
<1> QED
  BY <1>2, <1>3, <1>4, <1>5, <1>6

\* Finish, the deferred Rollback, and a session that ends: the row is free, and
\* its executor goes on until a statement fails.
LEMMA LeaveSteps ==
  ASSUME IInv, TypeOK', NEW w \in Workers,
         Finish(w) \/ Rollback(w) \/ SessionLost(w) \/ Disconnected(w)
  PROVE  IInv'
<1> USE DEF TypeOK, queue, Goto, Return
<1>1. Local(w) /\ TypeOK
  BY DEF IInv
<1>2. CASE Finish(w)
  <2>1. /\ state[w] = MarkRunning(FinalRow) /\ Exists(tx[w])
        /\ advanced[job[w]] = Steps
    BY <1>1, <1>2 DEF Finish, Local
  <2>2. MarkCompleted(MarkRunning(FinalRow)) = FinalRow
    BY DEF MarkCompleted, MarkRunning, FinalRow, MkRow
  <2>3. tx'[w] = FinalRow
    BY <1>2, <2>1, <2>2 DEF Finish, UpdateStep
  <2>4. Local(w)'
    BY <1>1, <1>2, <2>1, <2>3 DEF Finish, Local
  <2> QED
    BY <1>2, <2>1, <2>4, ExecStep DEF Finish, UpdateStep
<1>3. CASE Rollback(w)
  <2>1. tx'[w] = NoRow
    BY <1>3 DEF Rollback
  <2>2. Local(w)'
    BY <1>1, <1>3, <2>1 DEF Rollback, Local
  <2> QED
    BY <1>3, <2>1, <2>2, ExecStep, RowFields DEF Rollback
<1>4. CASE SessionLost(w)
  <2>1. tx'[w] = NoRow /\ lost'[w] = TRUE
    BY <1>1, <1>4 DEF SessionLost
  <2>2. ThinksItOwns(w)'
    BY <2>1 DEF ThinksItOwns
  <2>3. InLoop(w) => InLoop(w)'
    BY <1>4, <2>2 DEF SessionLost, InLoop
  <2>4. \A n : Wrote(w, n) => Wrote(w, n)'
    BY <1>4 DEF SessionLost, Wrote
  <2>5. Local(w)'
    BY <1>1, <1>4, <2>1, <2>2, <2>3, <2>4 DEF SessionLost, Local, InTx
  <2>6. /\ UNCHANGED <<jobState, attempt, rows, job, advanced>>
        /\ \A v \in Workers \ {w} : /\ pc'[v] = pc[v] /\ tx'[v] = tx[v]
                                    /\ lost'[v] = lost[v] /\ state'[v] = state[v]
                                    /\ result'[v] = result[v]
    BY <1>1, <1>4 DEF SessionLost
  <2>7. ~Exists(tx'[w])
    BY <2>1, RowFields
  <2> HIDE DEF TypeOK
  <2> QED
    BY <2>5, <2>6, <2>7, ExecStep
<1>5. CASE Disconnected(w)
  <2>1. Local(w)'
    BY <1>1, <1>5 DEF Disconnected, Local, InTx
  <2> QED
    BY <1>5, <2>1, ExecStep DEF Disconnected
<1> QED
  BY <1>2, <1>3, <1>4, <1>5

\* Counting a step as done.
LEMMA AdvanceCounts ==
  ASSUME IInv, TypeOK', NEW w \in Workers, AdvanceStep(w)
  PROVE  IInv'
<1> USE DEF TypeOK, queue, Goto
<1> DEFINE n == state[w].step
<1>1. Local(w) /\ TypeOK
  BY DEF IInv
<1>2. /\ InLoop(w) /\ state[w].data = StepWrites \cap (0 .. n)
      /\ Owns(w) /\ ~lost[w]
      /\ state[w] \in Row /\ n \in Nat /\ job[w] \in Jobs
  <2>1. /\ InLoop(w) /\ Wrote(w, n + 1) /\ state[w] \in Row /\ job[w] \in Jobs
        /\ Owns(w) /\ ~lost[w]
    BY <1>1 DEF AdvanceStep, Local, InLoop, ThinksItOwns
  <2>2. n \in Nat
    BY <2>1 DEF Row
  <2>3. (n + 1) - 1 = n
    BY <2>2
  <2> QED
    BY <2>1, <2>2, <2>3 DEF Wrote
<1>3. /\ state'[w] = Advance(state[w]) /\ tx'[w] = Advance(state[w])
      /\ pc'[w] = NextPC(n + 1) /\ job'[w] = job[w] /\ rows' = rows /\ lost' = lost
      /\ advanced'[job[w]] = advanced[job[w]] \cup {n}
  BY <1>2, RowFields DEF AdvanceStep, UpdateStep
<1>4. /\ state'[w] \in Row /\ state'[w].step = n + 1
      /\ state'[w].status = "running" /\ ~state'[w].err /\ Exists(tx'[w])
      /\ state'[w].data = StepWrites \cap (0 .. (n + 1) - 1)
  <2> HIDE DEF TypeOK
  <2>1. state'[w] \in Row
    BY <1>1 DEF TypeOK
  <2>2. /\ state'[w].step = n + 1 /\ state'[w].status = "running"
        /\ ~state'[w].err /\ state'[w].data = state[w].data
    BY <1>2, <1>3, RowFields DEF InLoop
  <2>3. Exists(tx'[w])
    BY <1>3, <2>2 DEF Exists
  <2>4. (n + 1) - 1 = n
    BY <1>2
  <2> QED
    BY <1>2, <2>1, <2>2, <2>3, <2>4
<1>5. 0 .. (n + 1) - 1 \subseteq advanced'[job[w]]
  <2>1. 0 .. (n + 1) - 1 = (0 .. n - 1) \cup {n}
    BY <1>2
  <2> QED
    BY <1>2, <1>3, <2>1 DEF InLoop
<1>6. Local(w)'
  <2>1. CASE n + 1 < NumSteps
    BY <1>1, <1>2, <1>3, <1>4, <1>5, <2>1
    DEF Local, NextPC, InLoop, ThinksItOwns, Owns, Wrote
  <2>2. CASE ~(n + 1 < NumSteps)
    <3>1. n + 1 = NumSteps
      BY <1>2, <2>2 DEF InLoop
    <3>2. state'[w] = MarkRunning(FinalRow)
      BY <1>4, <3>1, LoopEnds
    <3>3. advanced'[job[w]] = Steps
      BY <1>2, <1>5, <3>1 DEF Steps
    <3> QED
      BY <1>1, <1>2, <1>3, <1>4, <2>2, <3>2, <3>3 DEF Local, NextPC
  <2> QED
    BY <2>1, <2>2
<1>7. ASSUME NEW v \in Workers \ {w} PROVE Local(v)'
  BY LocalFrame DEF IInv, AdvanceStep, UpdateStep
<1>8. OneWriter'
  BY <1>2 DEF IInv, OneWriter, AdvanceStep, UpdateStep, Owns
<1>9. DurableRowComplete' /\ AttemptsLeft'
  BY DEF IInv, DurableRowComplete, AttemptsLeft, AdvanceStep
<1>10. DurableMeansDone' /\ CompletedJobDurable'
  <2>1. \A j \in Jobs : advanced[j] = Steps => advanced'[j] = Steps
    BY DEF AdvanceStep
  <2> QED
    BY <2>1 DEF IInv, DurableMeansDone, CompletedJobDurable, AdvanceStep
<1> QED
  BY <1>6, <1>7, <1>8, <1>9, <1>10 DEF IInv

\* COMMIT, whether or not its answer arrives.
LEMMA CommitSteps ==
  ASSUME IInv, TypeOK', NEW w \in Workers, Commit(w) \/ CommitLost(w)
  PROVE  IInv'
<1> USE DEF TypeOK, queue, Goto, Return
<1>1. Local(w) /\ TypeOK
  BY DEF IInv
<1>2. /\ rows' = [rows EXCEPT ![job[w]] = tx[w]] /\ tx' = [tx EXCEPT ![w] = NoRow]
      /\ pc' = [pc EXCEPT ![w] = "report"] /\ pc[w] = "commit"
      /\ result' \in {[result EXCEPT ![w] = "ok"], [result EXCEPT ![w] = "error"]}
      /\ UNCHANGED <<jobState, attempt, lost, job, state, advanced>> /\ ~lost[w]
  BY DEF Commit, CommitLost
<1>3. /\ tx[w] = FinalRow /\ advanced[job[w]] = Steps /\ job[w] \in Jobs
  BY <1>1, <1>2 DEF Local
<1>4. rows'[job[w]] = FinalRow /\ tx'[w] = NoRow
  BY <1>1, <1>2, <1>3
<1>5. Local(w)'
  BY <1>1, <1>2, <1>3, <1>4 DEF Local
<1>6. ASSUME NEW v \in Workers \ {w} PROVE Local(v)'
  <2>1. CASE job[v] # job[w]
    BY <1>2, <2>1, LocalFrame DEF IInv
  <2>2. CASE job[v] = job[w]
    <3>1. ~Exists(tx[v])
      BY <1>3, <2>2, RowFields DEF IInv, OneWriter
    <3>2. /\ Local(v) /\ pc'[v] = pc[v] /\ job'[v] = job[v] /\ tx'[v] = tx[v]
          /\ state'[v] = state[v] /\ result'[v] = result[v] /\ lost'[v] = lost[v]
      BY <1>2 DEF IInv
    <3>3. ThinksItOwns(v) => lost[v] /\ ThinksItOwns(v)'
      BY <3>1, <3>2 DEF ThinksItOwns, Owns
    <3>4. InLoop(v) => InLoop(v)'
      BY <1>2, <3>2, <3>3 DEF InLoop
    <3>5. \A n : Wrote(v, n) => Wrote(v, n)'
      BY <3>2 DEF Wrote
    <3> QED
      BY <1>2, <1>4, <2>2, <3>1, <3>2, <3>3, <3>4, <3>5, RowFields DEF Local
  <2> QED
    BY <2>1, <2>2
<1>7. OneWriter'
  BY <1>2, <1>4, RowFields DEF IInv, OneWriter
<1>8. /\ DurableRowComplete' /\ DurableMeansDone'
      /\ CompletedJobDurable' /\ AttemptsLeft'
  BY <1>2, <1>3, <1>4
  DEF IInv, DurableRowComplete, DurableMeansDone, CompletedJobDurable, AttemptsLeft
<1> QED
  BY <1>5, <1>6, <1>7, <1>8 DEF IInv

------------------------------------------------------------------------------
(* River's own steps.                                                      *)

\* An executor takes a job, or leaves it: Report and Crash.
LEMMA HandOver ==
  ASSUME IInv, TypeOK', NEW w \in Workers,
         (\E j \in Jobs : Fetch(w, j)) \/ Report(w) \/ Crash(w)
  PROVE  IInv'
<1> USE DEF TypeOK, queue, Goto
<1>1. Local(w) /\ TypeOK
  BY DEF IInv
<1>2. CASE \E j \in Jobs : Fetch(w, j)
  <2>1. PICK j \in Jobs : Fetch(w, j)
    BY <1>2
  <2>2. Local(w)'
    BY <1>1, <2>1 DEF Fetch, Local
  <2>3. ASSUME NEW v \in Workers \ {w} PROVE Local(v)'
    BY <2>1, LocalFrame DEF IInv, Fetch
  <2>4. tx[w] = NoRow
    BY <1>1, <2>1 DEF Fetch, Local
  <2>5. OneWriter'
    BY <2>1, <2>4, RowFields DEF IInv, OneWriter, Fetch
  <2>6. /\ DurableRowComplete' /\ DurableMeansDone'
        /\ CompletedJobDurable' /\ AttemptsLeft'
    BY <2>1
    DEF IInv, Fetch, DurableRowComplete, DurableMeansDone, CompletedJobDurable,
        AttemptsLeft
  <2> QED
    BY <2>2, <2>3, <2>5, <2>6 DEF IInv
<1>3. CASE Report(w) \/ Crash(w)
  <2>1. /\ pc' = [pc EXCEPT ![w] = "idle"] /\ job' = [job EXCEPT ![w] = NoJob]
        /\ tx' = [tx EXCEPT ![w] = NoRow] /\ state' = [state EXCEPT ![w] = NoRow]
        /\ result' = [result EXCEPT ![w] = "none"]
        /\ lost' = [lost EXCEPT ![w] = FALSE]
        /\ UNCHANGED <<attempt, rows, advanced>>
    BY <1>3 DEF Report, Crash, Leave
  <2>2. Local(w)'
    BY <1>1, <2>1 DEF Local
  <2>3. ASSUME NEW v \in Workers \ {w} PROVE Local(v)'
    BY <2>1, LocalFrame DEF IInv
  <2>4. OneWriter'
    BY <2>1, RowFields DEF IInv, OneWriter
  <2>5. DurableRowComplete' /\ DurableMeansDone'
    BY <2>1 DEF IInv, DurableRowComplete, DurableMeansDone
  <2>6. CompletedJobDurable' /\ AttemptsLeft'
    <3>1. CASE Crash(w)
      BY <2>1, <3>1 DEF IInv, Crash, CompletedJobDurable, AttemptsLeft
    <3>2. CASE Report(w)
      <4>1. result[w] = "ok" => rows[job[w]] = FinalRow
        BY <1>1, <3>2 DEF Report, Local
      <4>2. job[w] \in Jobs
        BY <1>1, <3>2 DEF Report, Local
      <4>3. CompletedJobDurable'
        BY <2>1, <3>2, <4>1, <4>2
        DEF IInv, Report, Verdict, AfterError, CompletedJobDurable, DurableMeansDone
      <4>4. AttemptsLeft'
        BY <2>1, <3>2, <4>2 DEF IInv, Report, Verdict, AfterError, AttemptsLeft
      <4> QED
        BY <4>3, <4>4
    <3> QED
      BY <1>3, <3>1, <3>2
  <2> QED
    BY <2>2, <2>3, <2>4, <2>5, <2>6 DEF IInv
<1> QED
  BY <1>2, <1>3

\* Reschedule, Rescue and RescueAlive change the job's row and nothing else.
LEMMA Maintenance ==
  ASSUME IInv, TypeOK', NEW j \in Jobs,
         Reschedule(j) \/ Rescue(j) \/ RescueAlive(j)
  PROVE  IInv'
<1> USE DEF TypeOK
<1>1. UNCHANGED <<attempt, rows, tx, lost, pc, job, state, result, advanced>>
  BY DEF Reschedule, Rescue, RescueAlive
<1>2. ASSUME NEW v \in Workers PROVE Local(v)'
  BY <1>1, LocalFrame DEF IInv
<1>3. OneWriter' /\ DurableRowComplete' /\ DurableMeansDone'
  BY <1>1 DEF IInv, OneWriter, DurableRowComplete, DurableMeansDone
<1>4. jobState[j] # "completed" /\ jobState'[j] # "completed"
  BY DEF IInv, Reschedule, Rescue, RescueAlive, AfterError
<1>5. CompletedJobDurable'
  BY <1>1, <1>4 DEF IInv, CompletedJobDurable, Reschedule, Rescue, RescueAlive
<1>6. AttemptsLeft'
  BY <1>1 DEF IInv, AttemptsLeft, Reschedule, Rescue, RescueAlive, AfterError
<1> QED
  BY <1>2, <1>3, <1>5, <1>6 DEF IInv

------------------------------------------------------------------------------
(* The theorems.                                                           *)

\* A step from a state of the invariant ends in one.
LEMMA InductiveStep == IInv /\ [Next]_vars => IInv'
<1> SUFFICES ASSUME IInv, [Next]_vars PROVE IInv'
  OBVIOUS
<1>1. TypeOK'
  BY TypeStep
<1>2. ASSUME NEW w \in Workers, Progress(w) PROVE IInv'
  BY <1>1, <1>2, EnterSteps, LoopSteps, LeaveSteps, AdvanceCounts, CommitSteps,
     HandOver
  DEF Progress
<1>3. ASSUME NEW w \in Workers, NEW j \in Jobs, Fetch(w, j) PROVE IInv'
  BY <1>1, <1>3, HandOver
<1>4. ASSUME NEW w \in Workers, DBError(w) \/ SessionLost(w) \/ CommitLost(w) \/ Crash(w)
      PROVE  IInv'
  BY <1>1, <1>4, EnterSteps, LeaveSteps, CommitSteps, HandOver
<1>5. ASSUME NEW j \in Jobs, Reschedule(j) \/ Rescue(j) \/ RescueAlive(j) PROVE IInv'
  BY <1>1, <1>5, Maintenance
<1>6. CASE Drained \/ UNCHANGED vars
  BY <1>6
  DEF Drained, vars, IInv, TypeOK, Local, InLoop, ThinksItOwns, Owns, Wrote, OneWriter,
      DurableRowComplete, DurableMeansDone, CompletedJobDurable, AttemptsLeft
<1> QED
  BY <1>2, <1>3, <1>4, <1>5, <1>6 DEF Next

\* In every behaviour of the worker, whatever the faults, each execution's
\* place in Run fixes what it holds until its session is lost, and a row has one
\* writer at a time.
THEOREM Invariance == Spec => []IInv
<1>1. Init => IInv
  BY InitIInv
<1>2. IInv /\ [Next]_vars => IInv'
  BY InductiveStep
<1> QED
  BY <1>1, <1>2, PTL DEF Spec

\* Type correctness.
THEOREM TypeCorrect == Spec => []TypeOK
BY Invariance, PTL DEF IInv

\* No other transaction ever sees part of a workflow: a committed row is the
\* final one.
THEOREM DurableRows == Spec => []DurableRowComplete
BY Invariance, PTL DEF IInv

\* A job is shown as completed only when its final row is committed and every
\* step of it has been counted as done.
THEOREM CompletedJobs == Spec => []CompletedJobDurable
BY Invariance, PTL DEF IInv

\* Two executions of a job are both between steps only if one of them has lost its
\* session: with their sessions both would own the row.
THEOREM Exclusion == Spec => []StepsExclusive
<1>1. IInv => StepsExclusive
  BY DEF IInv, OneWriter, Local, InLoop, ThinksItOwns, Owns, StepsExclusive, RunningSteps
<1> QED
  BY <1>1, Invariance, PTL

\* No execution goes on to a step of a workflow that is durable: the UPDATE before
\* the step has succeeded, so the session was there and the row its own.
THEOREM NoLateStep == Spec => NoStepAfterDurable
<1>1. ASSUME IInv, [Next]_vars, NEW w \in Workers, pc[w] # "step", pc'[w] = "step"
      PROVE  ~Exists(rows[job[w]])
  <2> USE DEF TypeOK, Goto
  <2>1. TypeOK /\ Local(w) /\ state[w] \in Row
    BY <1>1 DEF IInv
  <2>2. PICK v \in Workers : \/ Progress(v) \/ \E j \in Jobs : Fetch(v, j)
                             \/ DBError(v) \/ SessionLost(v) \/ CommitLost(v) \/ Crash(v)
    BY <1>1 DEF Next, Drained, Reschedule, Rescue, RescueAlive, vars
  <2>3. v = w /\ (Mark(w) \/ AdvanceStep(w))
    BY <1>1, <2>1, <2>2
    DEF Progress, Fetch, DBError, SessionLost, CommitLost, Crash, Begin, Get, Create,
        CreateConflict, Mark, StepOK, StepError, StepPanic, Fail, AdvanceStep, Finish,
        Commit, Disconnected, Rollback, Report, Leave
  <2>4. CASE Mark(w)
    <3>1. state[w].step < NumSteps
      BY <1>1, <2>1, <2>4 DEF Mark, NextPC
    <3>2. state[w] = NewState
      BY <2>1, <2>4, <3>1, RowFields DEF Mark, Local
    <3> QED
      BY <2>1, <2>4, <3>1, RowFields DEF Mark, Local, ThinksItOwns, Owns
  <2>5. CASE AdvanceStep(w)
    BY <2>1, <2>5 DEF AdvanceStep, Local, InLoop, ThinksItOwns, Owns
  <2> QED
    BY <2>3, <2>4, <2>5
<1>2. IInv /\ [Next]_vars
        => [\A w \in Workers :
              pc[w] # "step" /\ pc'[w] = "step" => ~Exists(rows[job[w]])]_vars
  BY <1>1
<1> QED
  BY <1>2, Invariance, PTL DEF Spec, NoStepAfterDurable

\* Whoever waits for a row waits for an execution that waits for none: the row
\* has one writer, so nobody can stand in the writer's way.
THEOREM RowWaits == Spec => []RowWaitsEnd
<1>1. IInv => RowWaitsEnd
  BY DEF IInv, OneWriter, RowWaitsEnd, Waits, LockedByOther
<1> QED
  BY <1>1, Invariance, PTL

------------------------------------------------------------------------------
(* WorkflowRunner implements the safety part of AtomicWorkflow.            *)

\* The abstract variables start out right.
LEMMA RefinesInit == Init => Abstract!Init
<1> SUFFICES ASSUME Init PROVE Abstract!Init
  OBVIOUS
<1>1. \A j \in Jobs : Exists(rows[j]) = FALSE
  BY RowFields DEF Init
<1>2. Recorded = [j \in Jobs |-> FALSE]
  BY <1>1, Zenon DEF Recorded
<1>3. Closed = [j \in Jobs |-> "open"]
  BY DEF Init, Closed
<1> QED
  BY <1>2, <1>3 DEF Init, Abstract!Init

\* A step that touches neither the committed rows, nor what is counted as
\* done, nor the jobs is a stutter.
LEMMA RefinesStutter ==
  ASSUME UNCHANGED <<jobState, attempt, rows, advanced>>
  PROVE  UNCHANGED Abstract!vars
BY DEF Abstract!vars, Recorded, Closed

\* A job that changes hands without being closed is a stutter, a job that is
\* closed is an abstract Complete or GiveUp.
LEMMA RefinesClosing ==
  ASSUME TypeOK, NEW j \in Jobs, NEW outcome,
         UNCHANGED <<attempt, rows, advanced>>,
         jobState' = [jobState EXCEPT ![j] = outcome],
         jobState[j] \notin {"completed", "discarded"},
         outcome = "completed" => rows[j] = FinalRow,
         outcome = "discarded" => attempt[j] = MaxAttempts,
         outcome \in {"available", "running", "retryable", "completed", "discarded"}
  PROVE  Abstract!Next \/ UNCHANGED Abstract!vars
<1>1. Recorded' = Recorded
  BY DEF Recorded
<1>2. Closed[j] = "open"
  BY DEF Closed
<1>3. CASE outcome \in {"completed", "discarded"}
  <2>1. Closed' = [Closed EXCEPT ![j] = outcome]
    BY <1>3 DEF TypeOK, Closed
  <2>2. outcome = "completed" => Abstract!Complete(j)
    BY <1>1, <1>2, <2>1, RowFields DEF Abstract!Complete, Recorded
  <2>3. outcome = "discarded" => Abstract!GiveUp(j)
    BY <1>1, <1>2, <2>1 DEF Abstract!GiveUp
  <2> QED
    BY <1>3, <2>2, <2>3 DEF Abstract!Next, Abstract!Drive
<1>4. CASE outcome \notin {"completed", "discarded"}
  <2>1. Closed' = Closed
    BY <1>4 DEF TypeOK, Closed
  <2> QED
    BY <1>1, <2>1 DEF Abstract!vars
<1> QED
  BY <1>3, <1>4

\* Every step of the worker is a step of the abstract workflow, or a stutter.
LEMMA RefinesNext ==
  IInv /\ [Next]_vars => Abstract!Next \/ UNCHANGED Abstract!vars
<1> SUFFICES ASSUME IInv, [Next]_vars
             PROVE  Abstract!Next \/ UNCHANGED Abstract!vars
  OBVIOUS
<1> USE DEF queue
<1>1. TypeOK /\ \A w \in Workers : Local(w)
  BY DEF IInv
<1>2. ASSUME NEW w \in Workers, NEW j \in Jobs, Fetch(w, j)
      PROVE  Abstract!Next
  <2>1. /\ jobState[j] = "available" /\ attempt[j] < MaxAttempts
        /\ jobState' = [jobState EXCEPT ![j] = "running"]
        /\ attempt' = [attempt EXCEPT ![j] = @ + 1]
        /\ rows' = rows /\ advanced' = advanced
    BY <1>2 DEF IInv, AttemptsLeft, Fetch
  <2>2. Closed[j] = "open" /\ Closed' = Closed /\ Recorded' = Recorded
    BY <1>1, <2>1 DEF TypeOK, Closed, Recorded
  <2>3. Abstract!Try(j)
    BY <2>1, <2>2 DEF Abstract!Try
  <2> QED
    BY <2>3 DEF Abstract!Next, Abstract!Drive
<1>3. ASSUME NEW w \in Workers, AdvanceStep(w)
      PROVE  Abstract!Next
  <2>1. /\ InLoop(w) /\ Owns(w) /\ job[w] \in Jobs /\ state[w] \in Row
    BY <1>1, <1>3 DEF AdvanceStep, Local, InLoop, ThinksItOwns, TypeOK
  <2>2. state[w].step \in Steps
    BY <2>1 DEF InLoop, Row, Steps
  <2>3. /\ UNCHANGED <<jobState, attempt, rows>>
        /\ advanced' = [advanced EXCEPT ![job[w]] = @ \cup {state[w].step}]
    BY <1>3 DEF AdvanceStep
  <2>4. ~Recorded[job[w]] /\ Recorded' = Recorded /\ Closed' = Closed
    BY <2>1, <2>3 DEF Owns, Recorded, Closed
  <2>5. Abstract!Do(job[w], state[w].step)
    BY <2>1, <2>3, <2>4 DEF InLoop, Abstract!Do
  <2> QED
    BY <2>1, <2>2, <2>5 DEF Abstract!Next, Abstract!Steps, Steps
<1>4. ASSUME NEW w \in Workers, Commit(w) \/ CommitLost(w)
      PROVE  Abstract!Next
  <2>1. /\ tx[w] = FinalRow /\ job[w] \in Jobs /\ advanced[job[w]] = Steps
    BY <1>1, <1>4 DEF Commit, CommitLost, Local, TypeOK
  <2>2. /\ UNCHANGED <<jobState, attempt, advanced>>
        /\ rows' = [rows EXCEPT ![job[w]] = FinalRow]
    BY <1>4, <2>1 DEF Commit, CommitLost
  <2>3. Recorded' = [Recorded EXCEPT ![job[w]] = TRUE] /\ Closed' = Closed
    <3>1. Closed' = Closed
      BY <2>2 DEF Closed
    <3>2. \A j \in Jobs : rows'[j] = IF j = job[w] THEN FinalRow ELSE rows[j]
      BY <1>1, <2>2 DEF TypeOK
    <3>3. \A j \in Jobs :
            Exists(rows'[j]) = IF j = job[w] THEN TRUE ELSE Exists(rows[j])
      <4>1. ASSUME NEW j \in Jobs, j = job[w]
            PROVE  Exists(rows'[j]) = TRUE
        BY <3>2, <4>1, RowFields DEF Exists
      <4>2. ASSUME NEW j \in Jobs, j # job[w]
            PROVE  Exists(rows'[j]) = Exists(rows[j])
        BY <3>2, <4>2
      <4> QED
        BY <4>1, <4>2, Zenon
    <3>4. Recorded' = [j \in Jobs |-> Exists(rows'[j])]
      BY DEF Recorded
    <3>5. [Recorded EXCEPT ![job[w]] = TRUE]
            = [j \in Jobs |-> IF j = job[w] THEN TRUE ELSE Exists(rows[j])]
      BY Zenon DEF Recorded
    <3> QED
      BY <3>1, <3>3, <3>4, <3>5, Zenon
  <2>4. Abstract!Record(job[w])
    BY <2>1, <2>2, <2>3 DEF Abstract!Record, Abstract!Steps, Steps
  <2> QED
    BY <2>1, <2>4 DEF Abstract!Next
<1>5. ASSUME NEW w \in Workers, Report(w)
      PROVE  Abstract!Next \/ UNCHANGED Abstract!vars
  <2>1. /\ job[w] \in Jobs /\ UNCHANGED <<attempt, rows, advanced>>
        /\ result[w] = "ok" => rows[job[w]] = FinalRow
    BY <1>1, <1>5 DEF Report, Local, TypeOK
  <2>2. CASE jobState[job[w]] # "running"
    BY <1>5, <2>1, <2>2, RefinesStutter DEF Report
  <2>3. CASE jobState[job[w]] = "running"
    <3> DEFINE outcome == Verdict(result[w], attempt[job[w]])
    <3>1. jobState' = [jobState EXCEPT ![job[w]] = outcome]
      BY <1>5, <2>3 DEF Report
    <3>2. /\ outcome \in {"completed", "retryable", "discarded"}
          /\ outcome = "completed" => rows[job[w]] = FinalRow
          /\ outcome = "discarded" => attempt[job[w]] = MaxAttempts
      BY <1>1, <2>1 DEF Verdict, AfterError, TypeOK
    <3> HIDE DEF outcome
    <3> QED
      BY <1>1, <2>1, <2>3, <3>1, <3>2, RefinesClosing
  <2> QED
    BY <2>2, <2>3
<1>6. ASSUME NEW j \in Jobs, Reschedule(j) \/ Rescue(j) \/ RescueAlive(j)
      PROVE  Abstract!Next \/ UNCHANGED Abstract!vars
  <2>1. /\ UNCHANGED <<attempt, rows, advanced>>
        /\ jobState[j] \in {"running", "retryable"}
    BY <1>6 DEF Reschedule, Rescue, RescueAlive
  <2>2. PICK outcome \in {"available", AfterError(attempt[j])} :
          jobState' = [jobState EXCEPT ![j] = outcome]
    BY <1>6 DEF Reschedule, Rescue, RescueAlive
  <2>3. /\ outcome \in {"available", "retryable", "discarded"}
        /\ outcome = "discarded" => attempt[j] = MaxAttempts
    BY <1>1, <2>2 DEF AfterError, TypeOK
  <2> QED
    BY <1>1, <2>1, <2>2, <2>3, RefinesClosing
<1>7. ASSUME NEW w \in Workers,
             \/ Begin(w) \/ Get(w) \/ Create(w) \/ CreateConflict(w) \/ Mark(w)
             \/ StepOK(w) \/ StepError(w) \/ StepPanic(w) \/ Fail(w)
             \/ Finish(w) \/ Rollback(w) \/ DBError(w) \/ SessionLost(w)
             \/ Disconnected(w) \/ Crash(w)
      PROVE  UNCHANGED Abstract!vars
  <2>1. UNCHANGED <<jobState, attempt, rows, advanced>>
    BY <1>7 DEF Begin, Get, Create, CreateConflict, Mark, StepOK, StepError,
                StepPanic, Fail, Finish, Rollback, DBError, SessionLost, Disconnected,
                Crash
  <2> QED
    BY <2>1, RefinesStutter
<1>8. CASE Drained \/ UNCHANGED vars
  <2>1. UNCHANGED <<jobState, attempt, rows, advanced>>
    BY <1>8 DEF Drained, vars
  <2> QED
    BY <2>1, RefinesStutter
<1> QED
  BY <1>2, <1>3, <1>4, <1>5, <1>6, <1>7, <1>8 DEF Next, Progress

\* The detailed worker keeps the safety promises of AtomicWorkflow: steps are
\* done in order and none left out, the workflow is recorded once and whole,
\* jobs are closed only when they may be.
THEOREM Refinement == Spec => Abstract!Safety
<1>1. Init => Abstract!Init
  BY RefinesInit
<1>2. IInv /\ [Next]_vars => [Abstract!Next]_(Abstract!vars)
  BY RefinesNext
<1> QED
  BY <1>1, <1>2, Invariance, PTL DEF Spec, Abstract!Safety
=============================================================================
