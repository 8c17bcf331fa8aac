--------------------------- MODULE HbsQueueProofs ---------------------------
(***************************************************************************)
(* The endpoint and the worker in full, put together, for every set of     *)
(* orders and every number of sends, executors, steps, attempts, crashes   *)
(* and faults: they keep what Onboarding, which composes the endpoint with *)
(* the worker's promise, takes for granted of them, and the promise of     *)
(* OrderService to HostBill.                                               *)
(***************************************************************************)
EXTENDS HbsQueue, WorkflowRunnerProofs

------------------------------------------------------------------------------
(* The job table, as the endpoint fills it.                                *)

\* Where a handler is fixes what it has answered and whether its row is there.
Handled(r) ==
  /\ handler[r] \in {"unsent", "decode", "client", "lookup", "begin", "insert", "commit"}
       => status[r] = 0 /\ queued[r] = 0
  /\ handler[r] = "rollback" => status[r] = 500 /\ queued[r] = 0
  /\ handler[r] = "reply" => /\ status[r] = 202 => queued[r] = 1
                             /\ status[r] \in Endpoint!Refusals => queued[r] = 0

\* HostBill waits for the handlers that are there.
Awaited(r) == /\ heard[r] = "unsent" <=> handler[r] = "unsent"
              /\ handler[r] \notin {"unsent", "gone"} => heard[r] \in {"waiting", "lost"}

\* A request has one row at most, and none before its COMMIT.
TableInv ==
  /\ queued \in [Endpoint!Requests -> {0, 1}]
  /\ heard \in [Endpoint!Requests ->
                 {"unsent", "waiting", "accepted", "refused", "failed", "lost"}]
  /\ DOMAIN handler = Endpoint!Requests /\ DOMAIN status = Endpoint!Requests
  /\ \A r \in Endpoint!Requests : Handled(r) /\ Awaited(r)

\* No request has a row at first.
LEMMA InitTable == Endpoint!Init => TableInv
BY DEF Endpoint!Init, TableInv, Handled, Awaited

\* A step of one request's handler, and of HostBill about that request.
LEMMA HandleTable ==
  ASSUME TableInv, NEW r \in Endpoint!Requests,
         Endpoint!Send(r) \/ Endpoint!Handle(r) \/ Endpoint!Disconnect(r)
  PROVE  TableInv' /\ (queued' = queued \/ queued' = [queued EXCEPT ![r] = 1])
<1> USE DEF TableInv, Handled, Awaited, Endpoint!At, Endpoint!Goto, Endpoint!Encode,
            Endpoint!quiet, Endpoint!Answer, Endpoint!Proceed, Endpoint!Refusals
<1>1. CASE Endpoint!Send(r)
  BY <1>1 DEF Endpoint!Send
<1>2. CASE Endpoint!DecodeValid(r)
  BY <1>2 DEF Endpoint!DecodeValid
<1>3. CASE Endpoint!NoClient(r) \/ Endpoint!HasClient(r)
  BY <1>3 DEF Endpoint!NoClient, Endpoint!HasClient
<1>4. CASE Endpoint!Lookup(r) \/ Endpoint!Begin(r)
  BY <1>4 DEF Endpoint!Lookup, Endpoint!Begin
<1>5. CASE Endpoint!InsertTx(r)
  BY <1>5 DEF Endpoint!InsertTx
<1>6. CASE Endpoint!UnitFails(r)
  BY <1>6 DEF Endpoint!UnitFails
<1>7. CASE Endpoint!Commit(r)
  <2>1. queued[r] = 0 /\ queued' = [queued EXCEPT ![r] = queued[r] + 1]
    BY <1>7 DEF Endpoint!Commit
  <2>2. queued' = [queued EXCEPT ![r] = 1]
    BY <2>1
  <2>3. /\ handler[r] = "commit" /\ handler' = [handler EXCEPT ![r] = "reply"]
        /\ heard' = heard /\ status[r] = 0
    BY <1>7 DEF Endpoint!Commit
  <2>4. PICK code \in {202, 500} :
          status' = [status EXCEPT ![r] = IF status[r] = 0 THEN code ELSE status[r]]
    BY <1>7, <2>3 DEF Endpoint!Commit
  <2>5. /\ queued'[r] = 1 /\ handler'[r] = "reply" /\ status'[r] = code
        /\ heard'[r] = heard[r]
    BY <2>2, <2>3, <2>4
  <2>6. ASSUME NEW q \in Endpoint!Requests \ {r}
        PROVE  /\ queued'[q] = queued[q] /\ handler'[q] = handler[q]
               /\ status'[q] = status[q] /\ heard'[q] = heard[q]
    BY <2>2, <2>3, <2>4
  <2>7. \A q \in Endpoint!Requests : Handled(q)' /\ Awaited(q)'
    BY <2>3, <2>5, <2>6
  <2> QED
    BY <2>2, <2>3, <2>4, <2>7
<1>8. CASE Endpoint!Rollback(r)
  BY <1>8 DEF Endpoint!Rollback
<1>9. CASE Endpoint!Reply(r)
  BY <1>9 DEF Endpoint!Reply, Endpoint!Says
<1>10. CASE Endpoint!Disconnect(r)
  BY <1>10 DEF Endpoint!Disconnect
<1> QED
  BY <1>1, <1>2, <1>3, <1>4, <1>5, <1>6, <1>7, <1>8, <1>9, <1>10 DEF Endpoint!Handle

\* The endpoint makes rows and unmakes none.
LEMMA ServeTable ==
  ASSUME TableInv, Endpoint!Serve
  PROVE  /\ TableInv'
         /\ \A r \in Endpoint!Requests : queued[r] = 1 => queued'[r] = 1
<1>1. CASE Endpoint!Crash
  BY <1>1 DEF Endpoint!Crash, Endpoint!At, TableInv, Handled, Awaited
<1>2. ASSUME NEW r \in Endpoint!Requests,
             Endpoint!Send(r) \/ Endpoint!Handle(r) \/ Endpoint!Disconnect(r)
      PROVE  TableInv' /\ \A q \in Endpoint!Requests : queued[q] = 1 => queued'[q] = 1
  BY <1>2, HandleTable DEF TableInv
<1> QED
  BY <1>1, <1>2 DEF Endpoint!Serve

------------------------------------------------------------------------------
(* What the worker touches it has been handed, and what it has been handed *)
(* is in the table.                                                        *)

\* A job in an executor's hands is in the table and counts an attempt.
HandsInv ==
  \A w \in Workers : job[w] # NoJob => Visible(job[w]) /\ attempt[job[w]] > 0

\* A job that is not in the table yet has no workflow and is not closed.
AbsentInv == \A j \in Jobs : ~Visible(j) => ~Recorded[j] /\ Closed[j] = "open"

HInv == IInv /\ TableInv /\ HandsInv /\ AbsentInv

\* Whose job a step of the worker is about, and what it leaves alone.
LEMMA Touches ==
  ASSUME IInv, [Next]_vars
  PROVE  /\ \A j \in Jobs : /\ attempt'[j] >= attempt[j]
                            /\ attempt'[j] # attempt[j] => jobState'[j] # jobState[j]
                            /\ rows'[j] # rows[j] \/ advanced'[j] # advanced[j]
                                 => \E w \in Workers : job[w] = j
         /\ \A w \in Workers :
              job'[w] \notin {job[w], NoJob}
                => /\ job'[w] \in Jobs /\ jobState'[job'[w]] # jobState[job'[w]]
                   /\ attempt'[job'[w]] > 0
<1> USE DEF TypeOK, queue
<1>1. TypeOK /\ \A w \in Workers : pc[w] # "idle" => job[w] \in Jobs
  BY DEF IInv, Local
<1>2. ASSUME NEW w \in Workers, NEW j \in Jobs, Fetch(w, j)
      PROVE  /\ attempt' = [attempt EXCEPT ![j] = @ + 1] /\ jobState[j] = "available"
             /\ jobState' = [jobState EXCEPT ![j] = "running"]
             /\ job' = [job EXCEPT ![w] = j] /\ rows' = rows /\ advanced' = advanced
  BY <1>2 DEF Fetch
<1>3. ASSUME NEW w \in Workers, Report(w) \/ Crash(w)
      PROVE  /\ job' = [job EXCEPT ![w] = NoJob]
             /\ UNCHANGED <<attempt, rows, advanced>>
  BY <1>3 DEF Report, Crash, Leave
<1>4. ASSUME NEW w \in Workers, Commit(w) \/ CommitLost(w) \/ AdvanceStep(w)
      PROVE  /\ UNCHANGED <<attempt, job>>
             /\ \A j \in Jobs \ {job[w]} : rows'[j] = rows[j] /\ advanced'[j] = advanced[j]
  BY <1>1, <1>4 DEF Commit, CommitLost, AdvanceStep
<1>5. ASSUME NEW w \in Workers,
             \/ Begin(w) \/ Get(w) \/ Create(w) \/ CreateConflict(w) \/ Mark(w)
             \/ StepOK(w) \/ StepError(w) \/ StepPanic(w) \/ Fail(w)
             \/ Finish(w) \/ Rollback(w) \/ DBError(w) \/ SessionLost(w) \/ Disconnected(w)
      PROVE  UNCHANGED <<attempt, job, rows, advanced>>
  BY <1>5 DEF Begin, Get, Create, CreateConflict, Mark, StepOK, StepError, StepPanic,
              Fail, Finish, Rollback, DBError, SessionLost, Disconnected
<1>6. ASSUME \/ \E j \in Jobs : Reschedule(j) \/ Rescue(j) \/ RescueAlive(j)
             \/ Drained \/ UNCHANGED vars
      PROVE  UNCHANGED <<attempt, job, rows, advanced>>
  BY <1>6 DEF Reschedule, Rescue, RescueAlive, Drained, vars
<1>7. ASSUME NEW w \in Workers, NEW j \in Jobs, Fetch(w, j)
      PROVE  /\ \A i \in Jobs : /\ attempt'[i] >= attempt[i]
                                /\ attempt'[i] # attempt[i] => jobState'[i] # jobState[i]
             /\ attempt'[j] > 0 /\ jobState'[j] # jobState[j]
             /\ \A v \in Workers : job'[v] \in {job[v], j}
  BY <1>1, <1>2, <1>7
<1>8. CASE \E w \in Workers, j \in Jobs : Fetch(w, j)
  BY <1>2, <1>7, <1>8
<1>9. CASE \E w \in Workers : Report(w) \/ Crash(w)
  BY <1>1, <1>3, <1>9
<1>10. CASE \E w \in Workers : Commit(w) \/ CommitLost(w) \/ AdvanceStep(w)
  BY <1>1, <1>4, <1>10
<1>11. CASE UNCHANGED <<attempt, job, rows, advanced>>
  BY <1>1, <1>11
<1> QED
  BY <1>5, <1>6, <1>8, <1>9, <1>10, <1>11 DEF Next, Progress

\* The invariant of the composition holds initially.
LEMMA InitHInv == HbsInit => HInv
BY InitIInv, InitTable, RowFields
DEF HbsInit, HInv, HandsInv, AbsentInv, Recorded, Closed, Init

\* A step of the worker keeps it: executors take jobs from the table only.
LEMMA WorkStep ==
  ASSUME Jobs = Endpoint!Requests, HInv, Work
  PROVE  HInv'
<1>1. IInv'
  BY InductiveStep DEF HInv, Work
<1>2. TableInv' /\ queued' = queued
  BY DEF HInv, Work, endpoint, TableInv, Handled, Awaited
<1>3. ASSUME NEW w \in Workers, job'[w] # NoJob
      PROVE  queued'[job'[w]] = 1 /\ attempt'[job'[w]] > 0
  <2>1. CASE job'[w] = job[w]
    <3>1. job[w] \in Jobs /\ attempt[job[w]] \in Nat /\ attempt'[job[w]] \in Nat
      BY <1>1, <1>3, <2>1 DEF HInv, IInv, TypeOK
    <3>2. attempt'[job[w]] >= attempt[job[w]]
      BY <3>1, Touches DEF HInv, Work
    <3> QED
      BY <1>2, <1>3, <2>1, <3>1, <3>2 DEF HInv, HandsInv, Visible
  <2>2. CASE job'[w] # job[w]
    BY <1>2, <1>3, <2>2, Touches DEF HInv, Work, Visible
  <2> QED
    BY <2>1, <2>2
<1>4. ASSUME NEW j \in Jobs, queued[j] # 1
      PROVE  ~Recorded'[j] /\ Closed'[j] = "open"
  <2>1. jobState'[j] = jobState[j]
    BY <1>4 DEF Work, Visible
  <2>2. rows'[j] = rows[j]
    BY <1>4, Touches, RunnerAssumption DEF HInv, HandsInv, Visible, Work
  <2>3. ~Recorded[j] /\ Closed[j] = "open"
    BY <1>4 DEF HInv, AbsentInv, Visible
  <2> QED
    BY <2>1, <2>2, <2>3 DEF Recorded, Closed
<1> QED
  BY <1>1, <1>2, <1>3, <1>4 DEF HInv, HandsInv, AbsentInv, Visible

\* And so does every step of the service.
LEMMA HbsStep ==
  ASSUME Jobs = Endpoint!Requests, HInv, [HbsNext]_<<vars, endpoint>>
  PROVE  HInv'
<1>1. CASE Endpoint!Serve /\ UNCHANGED vars
  <2>1. IInv'
    BY <1>1, InductiveStep DEF HInv
  <2>2. TableInv' /\ \A j \in Jobs : Visible(j) => Visible(j)'
    BY <1>1, ServeTable DEF HInv, Visible
  <2>3. \A w \in Workers : job[w] # NoJob => job[w] \in Jobs
    BY DEF HInv, IInv, TypeOK
  <2>4. HandsInv'
    BY <1>1, <2>2, <2>3 DEF HInv, HandsInv, Visible, vars
  <2>5. AbsentInv'
    BY <1>1, <2>2 DEF HInv, AbsentInv, Visible, Recorded, Closed, vars
  <2> QED
    BY <2>1, <2>2, <2>4, <2>5 DEF HInv
<1>2. CASE Work
  BY <1>2, WorkStep
<1>3. CASE UNCHANGED <<vars, endpoint>>
  <2>1. IInv'
    BY <1>3, InductiveStep DEF HInv
  <2> QED
    BY <1>3, <2>1 DEF HInv, TableInv, Handled, Awaited, HandsInv, AbsentInv, Visible, Recorded,
                     Closed, vars, endpoint
<1> QED
  BY <1>1, <1>2, <1>3 DEF HbsNext, Settled

------------------------------------------------------------------------------
(* The composition refines Onboarding.                                     *)

\* The endpoint is the same in both.
LEMMA SameEndpoint == Endpoint!Serve => Promise!Serve
BY DEF Endpoint!Serve, Endpoint!Send, Endpoint!Handle, Endpoint!At, Endpoint!Goto,
       Endpoint!Encode, Endpoint!quiet, Endpoint!Answer, Endpoint!Proceed,
       Endpoint!Disconnect, Endpoint!DecodeValid, Endpoint!NoClient, Endpoint!HasClient,
       Endpoint!Lookup, Endpoint!Begin, Endpoint!InsertTx, Endpoint!UnitFails,
       Endpoint!Rollback, Endpoint!Reply, Endpoint!Crash, Endpoint!Commit,
       Endpoint!Requests, Endpoint!Decodes, Endpoint!Valid, Endpoint!Says,
       Endpoint!Refusals,
       Promise!Serve, Promise!Send, Promise!Handle, Promise!At, Promise!Goto,
       Promise!Encode, Promise!quiet, Promise!Answer, Promise!Proceed,
       Promise!Disconnect, Promise!DecodeValid, Promise!NoClient, Promise!HasClient,
       Promise!Lookup, Promise!Begin, Promise!InsertTx, Promise!UnitFails,
       Promise!Rollback, Promise!Reply, Promise!Crash, Promise!Commit,
       Promise!Requests, Promise!Decodes, Promise!Valid, Promise!Says,
       Promise!Refusals

\* And so is what the worker promises.
LEMMA SameWorker ==
  /\ \A j : Abstract!Drive(j) => Promise!Worker!Drive(j)
  /\ \A j, i : Abstract!Do(j, i) => Promise!Worker!Do(j, i)
  /\ \A j : Abstract!Record(j) => Promise!Worker!Record(j)
  /\ Abstract!Steps = Promise!Worker!Steps
BY DEF Abstract!Drive, Abstract!Try, Abstract!Complete, Abstract!GiveUp, Abstract!Do,
       Abstract!Record, Abstract!Steps,
       Promise!Worker!Drive, Promise!Worker!Try, Promise!Worker!Complete,
       Promise!Worker!GiveUp, Promise!Worker!Do, Promise!Worker!Record,
       Promise!Worker!Steps

\* The initial states map to initial states.
LEMMA RefinesHbsInit ==
  ASSUME Jobs = Endpoint!Requests, HbsInit
  PROVE  Promise!OnboardingInit
BY RefinesInit
DEF HbsInit, Endpoint!Init, Endpoint!Requests, Abstract!Init, Promise!OnboardingInit,
    Promise!Init, Promise!Requests, Promise!Worker!Init

\* A step of the worker is one Onboarding allows: it is about a job that is in
\* the table and that River has tried.
LEMMA RefinesWork ==
  ASSUME Jobs = Endpoint!Requests, HInv, Work
  PROVE  Promise!OnboardingNext \/ UNCHANGED Promise!all
<1>1. Promise!Requests = Jobs /\ UNCHANGED Promise!vars
  BY DEF Promise!Requests, Endpoint!Requests, Promise!vars, Work, endpoint
<1>2. UNCHANGED Promise!queue <=> UNCHANGED Abstract!vars
  BY DEF Promise!queue, Abstract!vars
<1>3. CASE UNCHANGED Abstract!vars
  BY <1>1, <1>2, <1>3 DEF Promise!all
<1>4. ASSUME NEW j \in Jobs, Abstract!Drive(j), ~UNCHANGED Abstract!vars
      PROVE  Promise!Drive(j)
  <2>1. jobState'[j] # jobState[j]
    <3>1. attempt'[j] # attempt[j] => jobState'[j] # jobState[j]
      BY Touches DEF HInv, Work
    <3>2. CASE Abstract!Try(j)
      BY <3>1, <3>2 DEF Abstract!Try, HInv, IInv, TypeOK
    <3>3. CASE Abstract!Complete(j) \/ Abstract!GiveUp(j)
      <4>1. Closed[j] = "open" /\ Closed'[j] \in {"completed", "discarded"}
        BY <3>3 DEF Abstract!Complete, Abstract!GiveUp, Closed
      <4> QED
        BY <4>1 DEF Closed
    <3> QED
      BY <1>4, <3>2, <3>3 DEF Abstract!Drive
  <2>2. Visible(j)
    BY <2>1 DEF Work
  <2> QED
    BY <1>1, <1>4, <2>2, SameWorker DEF Promise!Drive, Promise!Visible, Visible
<1>5. ASSUME NEW j \in Jobs, ~UNCHANGED Abstract!vars,
             (\E i \in Abstract!Steps : Abstract!Do(j, i)) \/ Abstract!Record(j)
      PROVE  Promise!Work(j)
  <2>1. rows'[j] # rows[j] \/ advanced'[j] # advanced[j]
    <3>1. CASE \E i \in Abstract!Steps : Abstract!Do(j, i)
      BY <1>5, <3>1 DEF Abstract!Do, Abstract!vars, HInv, IInv, TypeOK
    <3>2. CASE Abstract!Record(j)
      <4>1. Recorded'[j] # Recorded[j]
        BY <1>5, <3>2 DEF Abstract!Record, Abstract!vars, Recorded
      <4> QED
        BY <4>1 DEF Recorded
    <3> QED
      BY <1>5, <3>1, <3>2
  <2>2. PICK w \in Workers : job[w] = j
    BY <2>1, Touches DEF HInv, Work
  <2>3. Visible(j) /\ attempt[j] > 0
    BY <2>2, RunnerAssumption DEF HInv, HandsInv
  <2> QED
    BY <1>1, <1>5, <2>3, SameWorker DEF Promise!Work, Promise!Visible, Visible
<1> QED
  <2>1. Abstract!Next \/ UNCHANGED Abstract!vars
    BY RefinesNext DEF HInv, Work
  <2> QED
    BY <1>1, <1>3, <1>4, <1>5, <2>1 DEF Abstract!Next, Promise!OnboardingNext

\* Every step of the service is a step of Onboarding, or a stutter.
LEMMA RefinesHbs ==
  ASSUME Jobs = Endpoint!Requests, HInv, [HbsNext]_<<vars, endpoint>>
  PROVE  [Promise!OnboardingNext]_(Promise!all)
<1>1. CASE Endpoint!Serve /\ UNCHANGED vars
  <2>1. UNCHANGED Promise!queue
    BY <1>1 DEF Promise!queue, vars, Recorded, Closed
  <2> QED
    BY <1>1, <2>1, SameEndpoint DEF Promise!OnboardingNext
<1>2. CASE Work
  BY <1>2, RefinesWork
<1>3. CASE UNCHANGED <<vars, endpoint>>
  BY <1>3 DEF vars, endpoint, Promise!all, Promise!vars, Promise!queue, Recorded, Closed
<1> QED
  BY <1>1, <1>2, <1>3 DEF HbsNext, Settled

------------------------------------------------------------------------------
(* The composition keeps the promise of the service to HostBill.           *)

\* What becomes of a job is a matter of its row, its workflow and its closing.
LEMMA FateOf ==
  ASSUME Jobs = Endpoint!Requests
  PROVE  /\ Promise!Fate = [r \in Jobs |-> Promise!Fate[r]]
         /\ Promise!Fate' = [r \in Jobs |-> Promise!Fate'[r]]
         /\ \A r \in Jobs :
              /\ queued[r] = 0 <=> Promise!Fate[r] = "none"
              /\ queued[r] # 0 /\ Recorded[r] => Promise!Fate[r] = "durable"
              /\ queued[r] # 0 /\ ~Recorded[r] /\ Closed[r] = "discarded"
                   => Promise!Fate[r] = "abandoned"
              /\ queued[r] # 0 /\ ~Recorded[r] /\ Closed[r] # "discarded"
                   => Promise!Fate[r] = "open"
              /\ queued'[r] = 0 => Promise!Fate'[r] = "none"
              /\ queued'[r] # 0 /\ Recorded'[r] => Promise!Fate'[r] = "durable"
              /\ queued'[r] # 0 /\ ~Recorded'[r] /\ Closed'[r] = "discarded"
                   => Promise!Fate'[r] = "abandoned"
              /\ queued'[r] # 0 /\ ~Recorded'[r] /\ Closed'[r] # "discarded"
                   => Promise!Fate'[r] = "open"
BY DEF Promise!Fate, Promise!Requests, Endpoint!Requests

\* What a job's workflow and its closing do to its fate, and to no other's.
LEMMA FateMoves ==
  ASSUME Jobs = Endpoint!Requests, NEW r \in Jobs,
         UNCHANGED <<heard, queued>>,
         \A q \in Jobs \ {r} : Recorded'[q] = Recorded[q] /\ Closed'[q] = Closed[q],
         \/ Recorded'[r] = Recorded[r] /\ Closed'[r] = Closed[r]
         \/ Closed[r] = "open" /\ Closed'[r] = "discarded" /\ Recorded'[r] = Recorded[r]
         \/ Recorded'[r]
  PROVE  Promise!Service!Next \/ UNCHANGED Promise!Service!vars
<1> DEFINE F == Promise!Fate
<1>1. Recorded[r] \in BOOLEAN /\ Recorded'[r] \in BOOLEAN
  BY DEF Recorded, Exists
<1>2. \A q \in Jobs \ {r} : F'[q] = F[q]
  BY DEF Promise!Fate, Promise!Requests, Endpoint!Requests
<1>3. CASE F'[r] = F[r]
  BY <1>2, <1>3, FateOf DEF Promise!Service!vars
<1>4. CASE F[r] = "open" /\ F'[r] = "abandoned"
  <2>1. F' = [F EXCEPT ![r] = "abandoned"]
    BY <1>2, <1>4, FateOf
  <2> QED
    BY <1>4, <2>1 DEF Promise!Service!Next, Promise!Service!Abandon,
                      Promise!Service!Become, Promise!Requests, Endpoint!Requests
<1>5. CASE F[r] \in {"open", "abandoned"} /\ F'[r] = "durable"
  <2>1. F' = [F EXCEPT ![r] = "durable"]
    BY <1>2, <1>5, FateOf
  <2> QED
    BY <1>5, <2>1 DEF Promise!Service!Next, Promise!Service!Finish,
                      Promise!Service!Become, Promise!Requests, Endpoint!Requests
<1>6. \/ F'[r] = F[r]
      \/ F[r] = "open" /\ F'[r] = "abandoned"
      \/ F[r] \in {"open", "abandoned"} /\ F'[r] = "durable"
  BY <1>1, FateOf
<1> QED
  BY <1>3, <1>4, <1>5, <1>6

\* A step of the worker finishes one order, abandons it, or is unseen.
LEMMA WorkMaps ==
  ASSUME Jobs = Endpoint!Requests, HInv, Work
  PROVE  Promise!Service!Next \/ UNCHANGED Promise!Service!vars
<1>1. UNCHANGED <<heard, queued>>
  BY DEF Work, endpoint
<1>2. CASE Recorded' = Recorded /\ Closed' = Closed
  BY <1>1, <1>2 DEF Promise!Service!vars, Promise!Fate
<1>3. ASSUME NEW j \in Jobs, Abstract!Drive(j) \/ Abstract!Record(j)
      PROVE  Promise!Service!Next \/ UNCHANGED Promise!Service!vars
  <2>1. Recorded = [q \in Jobs |-> Recorded[q]] /\ Closed = [q \in Jobs |-> Closed[q]]
    BY DEF Recorded, Closed
  <2>2. CASE Abstract!Try(j)
    BY <1>2, <2>2 DEF Abstract!Try
  <2>3. CASE Abstract!Complete(j)
    BY <1>1, <2>1, <2>3, FateMoves DEF Abstract!Complete
  <2>4. CASE Abstract!GiveUp(j)
    BY <1>1, <2>1, <2>4, FateMoves DEF Abstract!GiveUp
  <2>5. CASE Abstract!Record(j)
    BY <1>1, <2>1, <2>5, FateMoves DEF Abstract!Record
  <2> QED
    BY <1>3, <2>2, <2>3, <2>4, <2>5 DEF Abstract!Drive
<1> QED
  <2>1. Abstract!Next \/ UNCHANGED Abstract!vars
    BY RefinesNext DEF HInv, Work
  <2> QED
    BY <1>2, <1>3, <2>1 DEF Abstract!Next, Abstract!vars, Abstract!Do

\* The answer to a request is the one its row allows.
LEMMA ReplyMaps ==
  ASSUME HInv, UNCHANGED vars, NEW r \in Endpoint!Requests, Endpoint!Reply(r)
  PROVE  Promise!Service!Next \/ UNCHANGED Promise!Service!vars
<1> USE DEF Promise!Service!Next, Promise!Service!Reply, Promise!Requests,
            Endpoint!Requests
<1>1. Promise!Fate' = Promise!Fate
  BY DEF Endpoint!Reply, Promise!Fate, Recorded, Closed, vars
<1>2. CASE heard[r] # "waiting"
  BY <1>1, <1>2 DEF Endpoint!Reply, HInv, TableInv, Promise!Service!vars
<1>3. CASE heard[r] = "waiting"
  <2>1. Promise!Service!Hear(r, Endpoint!Says(status[r]))
    BY <1>1, <1>3 DEF Endpoint!Reply, Promise!Service!Hear
  <2>2. /\ status[r] = 202 => queued[r] = 1
        /\ status[r] \in Endpoint!Refusals => queued[r] = 0
    BY DEF HInv, TableInv, Handled, Endpoint!Reply, Endpoint!At
  <2>3. Promise!Fate[r] = "none" <=> queued[r] = 0
    BY DEF Promise!Fate
  <2>4. CASE status[r] = 202
    BY <2>1, <2>2, <2>3, <2>4 DEF Endpoint!Says, Promise!Service!Accept
  <2>5. CASE status[r] \in Endpoint!Refusals
    <3>1. Endpoint!Says(status[r]) = "refused"
      BY <2>5 DEF Endpoint!Says, Endpoint!Refusals
    <3> QED
      BY <2>1, <2>2, <2>3, <2>5, <3>1 DEF Promise!Service!Refuse
  <2>6. CASE status[r] # 202 /\ status[r] \notin Endpoint!Refusals
    BY <2>1, <2>6 DEF Endpoint!Says, Promise!Service!Doubt
  <2> QED
    BY <2>4, <2>5, <2>6
<1> QED
  BY <1>2, <1>3

\* A COMMIT of the endpoint opens a job, while HostBill waits or has lost the answer.
LEMMA CommitMaps ==
  ASSUME Jobs = Endpoint!Requests, HInv, UNCHANGED vars,
         NEW r \in Endpoint!Requests, Endpoint!Commit(r)
  PROVE  Promise!Service!Next
<1> DEFINE F == Promise!Fate
<1>1. heard' = heard /\ heard[r] \in {"waiting", "lost"} /\ queued[r] = 0
  BY DEF Endpoint!Commit, Endpoint!At, HInv, TableInv, Handled, Awaited
<1>2. queued'[r] = 1 /\ \A q \in Jobs \ {r} : queued'[q] = queued[q]
  <2>1. queued' = [queued EXCEPT ![r] = queued[r] + 1]
    BY DEF Endpoint!Commit
  <2> QED
    BY <1>1, <2>1 DEF HInv, TableInv
<1>3. /\ ~Recorded[r] /\ Closed[r] = "open"
      /\ Recorded' = Recorded /\ Closed' = Closed
  BY <1>1 DEF HInv, AbsentInv, Visible, Recorded, Closed, vars
<1>4. F[r] = "none" /\ F'[r] = "open"
  BY <1>1, <1>2, <1>3, FateOf
<1>5. \A q \in Jobs \ {r} : F'[q] = F[q]
  BY <1>2, <1>3 DEF Promise!Fate, Promise!Requests, Endpoint!Requests
<1>6. F' = [F EXCEPT ![r] = "open"]
  BY <1>4, <1>5, FateOf
<1> QED
  BY <1>1, <1>4, <1>6 DEF Promise!Service!Next, Promise!Service!Enqueue,
     Promise!Service!Become, Promise!Requests, Endpoint!Requests

\* The other steps of the endpoint: HostBill sends, gives up, loses an answer, or
\* sees nothing.
LEMMA ServeMaps ==
  ASSUME Jobs = Endpoint!Requests, HInv, Endpoint!Serve, UNCHANGED vars
  PROVE  Promise!Service!Next \/ UNCHANGED Promise!Service!vars
<1> USE DEF Endpoint!At, Endpoint!quiet, Promise!Requests, Endpoint!Requests
<1>1. queued' = queued => Promise!Fate' = Promise!Fate
  BY DEF Promise!Fate, Recorded, Closed, vars
<1>2. ASSUME NEW r \in Endpoint!Requests, Endpoint!Send(r)
      PROVE  Promise!Service!Next
  BY <1>1, <1>2
  DEF Endpoint!Send, HInv, TableInv, Awaited, Promise!Service!Next, Promise!Service!Send
<1>3. ASSUME NEW r \in Endpoint!Requests, Endpoint!Disconnect(r)
      PROVE  Promise!Service!Next
  BY <1>1, <1>3
  DEF Endpoint!Disconnect, Promise!Service!Next, Promise!Service!Reply,
      Promise!Service!Doubt, Promise!Service!Hear
<1>4. CASE Endpoint!Crash
  BY <1>1, <1>4 DEF Endpoint!Crash, Promise!Service!Next, Promise!Service!Crash
<1>5. ASSUME NEW r \in Endpoint!Requests,
             \/ Endpoint!DecodeValid(r) \/ Endpoint!NoClient(r) \/ Endpoint!HasClient(r)
             \/ Endpoint!Lookup(r) \/ Endpoint!Begin(r) \/ Endpoint!InsertTx(r)
             \/ Endpoint!UnitFails(r) \/ Endpoint!Rollback(r)
      PROVE  UNCHANGED Promise!Service!vars
  <2>1. UNCHANGED <<heard, queued>>
    BY <1>5
    DEF Endpoint!DecodeValid, Endpoint!NoClient, Endpoint!HasClient, Endpoint!Lookup,
        Endpoint!Begin, Endpoint!InsertTx, Endpoint!UnitFails, Endpoint!Rollback,
        Endpoint!Answer, Endpoint!Proceed
  <2> QED
    BY <1>1, <2>1 DEF Promise!Service!vars
<1> QED
  BY <1>2, <1>3, <1>4, <1>5, ReplyMaps, CommitMaps DEF Endpoint!Serve, Endpoint!Handle

\* Every step of the service is a step of OrderService, or a stutter.
LEMMA StepMaps ==
  ASSUME Jobs = Endpoint!Requests, HInv, [HbsNext]_<<vars, endpoint>>
  PROVE  [Promise!Service!Next]_(Promise!Service!vars)
<1>1. CASE UNCHANGED <<vars, endpoint>>
  BY <1>1 DEF vars, endpoint, Promise!Service!vars, Promise!Fate, Recorded, Closed
<1> QED
  BY <1>1, ServeMaps, WorkMaps DEF HbsNext, Settled

------------------------------------------------------------------------------
(* The theorems.                                                           *)

\* Put together, the worker and the endpoint behave each as it does alone: all
\* that is proved of either holds in the service.
THEOREM Parts == HbsSpec => Spec /\ Endpoint!Spec
<1>1. HbsInit => Init /\ Endpoint!Init
  BY DEF HbsInit
<1>2. [HbsNext]_<<vars, endpoint>> => [Next]_vars
  BY DEF HbsNext, Work, Settled, vars
<1>3. [HbsNext]_<<vars, endpoint>> => [Endpoint!Next]_(Endpoint!vars)
  BY DEF HbsNext, Work, Settled, endpoint, Endpoint!vars, Endpoint!Next
<1> QED
  BY <1>1, <1>2, <1>3, PTL DEF HbsSpec, Spec, Endpoint!Spec

\* River never hands a job to an executor, and the worker does nothing about one,
\* before the transaction that inserts it is committed.
THEOREM InHands ==
  ASSUME Jobs = Endpoint!Requests
  PROVE  HbsSpec => []HInv
BY InitHInv, HbsStep, PTL DEF HbsSpec

\* The service with the worker in full implements the one with the worker's
\* promise in its place.
THEOREM WholeRefinement ==
  ASSUME Jobs = Endpoint!Requests
  PROVE  HbsSpec => Promise!OnboardingSafety
<1>1. HbsInit => Promise!OnboardingInit
  BY RefinesHbsInit
<1>2. HInv /\ [HbsNext]_<<vars, endpoint>> => [Promise!OnboardingNext]_(Promise!all)
  BY RefinesHbs
<1>3. HbsSpec => []HInv
  BY InHands
<1> QED
  BY <1>1, <1>2, <1>3, PTL DEF HbsSpec, Promise!OnboardingSafety

\* The service whole, endpoint and worker in full, keeps the safety part of its
\* promise to HostBill: accepted orders have their job, refused ones none, and
\* what becomes of a job is seen to its end or abandoned, never undone.
THEOREM EndToEnd ==
  ASSUME Jobs = Endpoint!Requests
  PROVE  HbsSpec => Promise!Service!Safety
<1>1. HbsInit => Promise!Service!Init
  BY RowFields
  DEF HbsInit, Endpoint!Init, Init, Promise!Service!Init, Promise!Fate,
      Promise!Requests, Endpoint!Requests
<1>2. HInv /\ [HbsNext]_<<vars, endpoint>>
        => [Promise!Service!Next]_(Promise!Service!vars)
  BY StepMaps
<1>3. HbsSpec => []HInv
  BY InHands
<1> QED
  BY <1>1, <1>2, <1>3, PTL DEF HbsSpec, Promise!Service!Safety
=============================================================================
