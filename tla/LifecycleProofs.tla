--------------------------- MODULE LifecycleProofs ---------------------------
(***************************************************************************)
(* Proofs about Lifecycle, for every set of requests and of jobs, any pool *)
(* and any number of workers.                                              *)
(***************************************************************************)
EXTENDS Lifecycle, TLAPS

\* Before run has come to the select nothing is served, and there is no work.
Startup ==
  /\ phase \in {"newPool", "migrateRiver", "migrateUp", "riverStart"} => http = "off"
  /\ http = "off" <=> river = "off"
  /\ http = "off" => /\ \A r \in Requests : req[r] = "none"
                     /\ \A j \in Jobs : work[j] = "none"
  /\ phase = "select" => http # "off"
  /\ phase = "newPool" => pool = "none"
  /\ pool = "none" => http = "off" /\ phase \in {"newPool", "exited"}
  /\ pool \in {"closing", "closed"} => phase \in {"poolClose", "exited"}

NoRequest == \A r \in Requests : req[r] \notin {"active", "tx"}

NoJob == \A j \in Jobs : work[j] \in {"none", "recorded"}

\* What the shutdown has waited for, at each of its stages, unless its time was
\* over or there was no listener to shut down: it is over and does not come back.
Stages ==
  /\ phase \in {"httpShutdown", "riverStop"} => http \in {"closed", "failed"}
  /\ phase = "riverStop" => river = "stopping" /\ (expired \/ NoRequest)
  /\ phase \in {"poolClose", "exited"} =>
       \/ expired
       \/ http = "failed"
       \/ /\ http \in {"off", "closed"} /\ NoRequest
          /\ river \in {"off", "stopped"} /\ NoJob

IInv == /\ TypeOK
        /\ Startup
        /\ Stages
        /\ AcceptedRequestsServed
        /\ OutcomesRecorded

\* The invariant holds initially.
LEMMA InitIInv == Init => IInv
BY DEF Init, IInv, TypeOK, Startup, Stages, AcceptedRequestsServed, OutcomesRecorded

\* The steps of run itself.
LEMMA RunSteps == IInv /\ Run => IInv'
<1> SUFFICES ASSUME IInv, Run PROVE IInv'
  OBVIOUS
<1> USE DEF IInv, TypeOK, Startup, Stages, NoRequest, NoJob,
            AcceptedRequestsServed, OutcomesRecorded
<1>1. CASE NewPool
  BY <1>1 DEF NewPool
<1>2. CASE MigrateRiver
  BY <1>2 DEF MigrateRiver
<1>3. CASE MigrateUp
  BY <1>3 DEF MigrateUp
<1>4. CASE RiverStart
  BY <1>4 DEF RiverStart
<1>5. CASE BeginShutdown
  BY <1>5 DEF BeginShutdown
<1>6. CASE ServerError
  BY <1>6 DEF ServerError
<1>7. CASE HttpShutdown
  BY <1>7 DEF HttpShutdown
<1>8. CASE RiverStop
  BY <1>8 DEF RiverStop
<1>9. CASE PoolClose
  BY <1>9 DEF PoolClose
<1>10. CASE Exit
  BY <1>10 DEF Exit, Holders
<1> QED
  BY <1>1, <1>2, <1>3, <1>4, <1>5, <1>6, <1>7, <1>8, <1>9, <1>10 DEF Run

\* The requests and the jobs, which the pool refuses only when it is too late.
LEMMA ServiceSteps ==
  ASSUME IInv,
         \/ \E r \in Requests : Accept(r) \/ AnswerEarly(r) \/ ServeRequest(r)
         \/ \E j \in Jobs : FetchJob(j) \/ TimeOut(j) \/ RunJob(j)
  PROVE  IInv'
<1> USE DEF IInv, TypeOK, Startup, Stages, NoRequest, NoJob,
            AcceptedRequestsServed, OutcomesRecorded
<1>1. ASSUME NEW r \in Requests, Accept(r) PROVE IInv'
  BY <1>1 DEF Accept
<1>2. ASSUME NEW r \in Requests, RequestTx(r) PROVE IInv'
  BY <1>2 DEF RequestTx
<1>3. ASSUME NEW r \in Requests, Answer(r) PROVE IInv'
  BY <1>3 DEF Answer
<1>4. ASSUME NEW j \in Jobs, FetchJob(j) PROVE IInv'
  BY <1>4 DEF FetchJob
<1>5. ASSUME NEW j \in Jobs, BeginWork(j) PROVE IInv'
  BY <1>5 DEF BeginWork
<1>6. ASSUME NEW j \in Jobs, WorkReturns(j) PROVE IInv'
  BY <1>6 DEF WorkReturns
<1>7. ASSUME NEW j \in Jobs, RecordJob(j) PROVE IInv'
  BY <1>7 DEF RecordJob
<1>8. ASSUME NEW r \in Requests, AnswerEarly(r) PROVE IInv'
  BY <1>8 DEF AnswerEarly
<1>9. ASSUME NEW j \in Jobs, TimeOut(j) PROVE IInv'
  BY <1>9 DEF TimeOut
<1> QED
  BY <1>1, <1>2, <1>3, <1>4, <1>5, <1>6, <1>7, <1>8, <1>9 DEF ServeRequest, RunJob

\* Each move of run, of the handlers and of River keeps it.
LEMMA InductiveStep == IInv /\ [Next]_vars => IInv'
<1> SUFFICES ASSUME IInv, [Next]_vars PROVE IInv'
  OBVIOUS
<1> USE DEF IInv, TypeOK, Startup, Stages, NoRequest, NoJob,
            AcceptedRequestsServed, OutcomesRecorded
<1>1. CASE Listen
  BY <1>1 DEF Listen
<1>2. CASE Signal
  BY <1>2 DEF Signal
<1>3. CASE Expire
  BY <1>3 DEF Expire
<1>4. CASE Gone \/ UNCHANGED vars
  BY <1>4 DEF Gone, vars
<1> QED
  BY <1>1, <1>2, <1>3, <1>4, RunSteps, ServiceSteps DEF Next

\* The stages of the process hold in every behaviour.
THEOREM Invariance == Spec => []IInv
BY InitIInv, InductiveStep, PTL DEF Spec

\* Type correctness; whichever way the process exits, its pool is closed.
THEOREM TypeCorrect == Spec => []TypeOK
BY Invariance, PTL DEF IInv

\* A shutdown by signal that is not out of time breaks no accepted request.
THEOREM Served == Spec => []AcceptedRequestsServed
BY Invariance, PTL DEF IInv

\* A shutdown by signal that is not out of time loses no outcome of a job.
THEOREM Outcomes == Spec => []OutcomesRecorded
BY Invariance, PTL DEF IInv
==============================================================================
