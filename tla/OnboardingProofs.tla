-------------------------- MODULE OnboardingProofs --------------------------
(***************************************************************************)
(* The service from end to end keeps the safety part of its promise, for   *)
(* every set of orders and every number of sends, crashes, steps and       *)
(* attempts: a step of the endpoint or of the worker is a step of          *)
(* OrderService or leaves what HostBill can tell as it was.                *)
(***************************************************************************)
EXTENDS Onboarding, EnqueueProofs

\* River's columns for a job: what the worker has done needs a job it can see.
QInv ==
  /\ recorded \in [Requests -> BOOLEAN]
  /\ closed \in [Requests -> {"open", "completed", "discarded"}]
  /\ \A r \in Requests : jobs[r] = 0 => ~recorded[r] /\ closed[r] = "open"

OInv == EInv /\ QInv

\* The invariant holds initially.
LEMMA InitOInv == OnboardingInit => OInv
BY InitEInv DEF OnboardingInit, OInv, QInv, Worker!Init

\* The endpoint makes jobs and unmakes none.
LEMMA JobsStay ==
  ASSUME EInv, Serve
  PROVE  \A r \in Requests : jobs[r] # 0 => jobs'[r] # 0
<1> USE DEF EInv, TypeOK, quiet, Answer, Proceed
<1> QED
  BY DEF Serve, Send, Handle, Disconnect, Crash, DecodeValid, NoClient, HasClient,
         Lookup, Begin, InsertTx, UnitFails, Commit, Rollback, Reply

\* What a step of the worker may do to the fate of one job.
LEMMA WorkerStep ==
  ASSUME OInv, NEW r \in Requests, Drive(r) \/ Work(r)
  PROVE  /\ UNCHANGED vars
         /\ QInv'
         /\ \/ Fate' = Fate
            \/ Fate[r] = "open" /\ Fate' = [Fate EXCEPT ![r] = "abandoned"]
            \/ Fate[r] \in {"open", "abandoned"} /\ Fate' = [Fate EXCEPT ![r] = "durable"]
<1> USE DEF OInv, QInv, Visible
<1>1. UNCHANGED vars /\ jobs' = jobs /\ jobs[r] = 1
  BY DEF Drive, Work, vars
<1>2. CASE Worker!Try(r) \/ \E i \in Worker!Steps : Worker!Do(r, i)
  BY <1>1, <1>2 DEF Worker!Try, Worker!Do, Fate
<1>3. CASE Worker!Complete(r)
  BY <1>1, <1>3 DEF Worker!Complete, Fate
<1>4. CASE Worker!GiveUp(r)
  <2>1. /\ closed[r] = "open" /\ closed' = [closed EXCEPT ![r] = "discarded"]
        /\ recorded' = recorded
    BY <1>4 DEF Worker!GiveUp
  <2>2. QInv'
    BY <1>1, <2>1
  <2>3. CASE recorded[r]
    BY <1>1, <2>1, <2>2, <2>3 DEF Fate
  <2>4. CASE ~recorded[r]
    BY <1>1, <2>1, <2>2, <2>4 DEF Fate
  <2> QED
    BY <1>1, <2>2, <2>3, <2>4
<1>5. CASE Worker!Record(r)
  <2>1. recorded' = [recorded EXCEPT ![r] = TRUE] /\ closed' = closed
    BY <1>5 DEF Worker!Record
  <2>2. QInv'
    BY <1>1, <2>1
  <2>3. CASE recorded[r]
    BY <1>1, <2>1, <2>2, <2>3 DEF Fate
  <2>4. CASE ~recorded[r]
    <3>1. Fate[r] \in {"open", "abandoned"}
      BY <1>1, <2>4 DEF Fate
    <3>2. Fate' = [Fate EXCEPT ![r] = "durable"]
      BY <1>1, <2>1, <2>2 DEF Fate
    <3> QED
      BY <1>1, <2>2, <3>1, <3>2
  <2> QED
    BY <1>1, <2>2, <2>3, <2>4
<1> QED
  BY <1>2, <1>3, <1>4, <1>5 DEF Drive, Work, Worker!Drive

\* The endpoint and the worker keep it.
LEMMA OnboardingStep == OInv /\ [OnboardingNext]_all => OInv'
<1> SUFFICES ASSUME OInv, [OnboardingNext]_all PROVE OInv'
  OBVIOUS
<1>1. CASE Serve /\ UNCHANGED queue
  BY <1>1, ServeStep, JobsStay DEF OInv, QInv, queue, EInv, TypeOK
<1>2. ASSUME NEW r \in Requests, Drive(r) \/ Work(r) PROVE OInv'
  BY <1>2, WorkerStep, StutterStep DEF OInv
<1>3. CASE UNCHANGED all
  BY <1>3, StutterStep DEF all, queue, OInv, QInv, vars
<1> QED
  BY <1>1, <1>2, <1>3 DEF OnboardingNext, Settled

\* A step of the endpoint that makes no job leaves every job's fate alone.
LEMMA SameFate == ASSUME OInv, jobs' = jobs, UNCHANGED queue PROVE Fate' = Fate
BY DEF Fate, queue

\* What an answer says of a request is so: Progress, and Fate after it.
LEMMA ReplyMaps ==
  ASSUME OInv, UNCHANGED queue, NEW r \in Requests, Reply(r)
  PROVE  Service!Next \/ UNCHANGED Service!vars
<1>1. Fate' = Fate
  BY SameFate DEF Reply
<1>2. CASE heard[r] # "waiting"
  BY <1>1, <1>2 DEF Reply, OInv, EInv, TypeOK, Service!vars
<1>3. CASE heard[r] = "waiting"
  <2>1. heard' = [heard EXCEPT ![r] = Says(status[r])]
    BY <1>3 DEF Reply, OInv, EInv, TypeOK
  <2>2. /\ status[r] = 202 => jobs[r] = 1
        /\ status[r] \in Refusals => jobs[r] = 0
    BY DEF OInv, EInv, Progress, Reply, At
  <2>3. Fate[r] = "none" <=> jobs[r] = 0
    BY DEF Fate
  <2>4. Service!Hear(r, Says(status[r]))
    BY <1>1, <1>3, <2>1 DEF Service!Hear
  <2>5. CASE status[r] = 202
    <3>1. Says(status[r]) = "accepted"
      BY <2>5 DEF Says
    <3>2. Fate[r] # "none"
      BY <2>2, <2>3, <2>5
    <3> QED
      BY <2>4, <3>1, <3>2 DEF Service!Accept, Service!Reply, Service!Next
  <2>6. CASE status[r] \in Refusals
    <3>1. Says(status[r]) = "refused"
      BY <2>6 DEF Says, Refusals
    <3>2. Fate[r] = "none"
      BY <2>2, <2>3, <2>6
    <3> QED
      BY <2>4, <3>1, <3>2 DEF Service!Refuse, Service!Reply, Service!Next
  <2>7. CASE status[r] # 202 /\ status[r] \notin Refusals
    <3>1. Says(status[r]) = "failed"
      BY <2>7 DEF Says
    <3> QED
      BY <2>4, <3>1 DEF Service!Doubt, Service!Reply, Service!Next
  <2> QED
    BY <2>5, <2>6, <2>7
<1> QED
  BY <1>2, <1>3

\* The endpoint's steps, as HostBill sees them.
LEMMA ServeMaps ==
  ASSUME OInv, Serve, UNCHANGED queue
  PROVE  Service!Next \/ UNCHANGED Service!vars
<1> USE DEF OInv, QInv, EInv, TypeOK, At, Goto, quiet
<1>1. ASSUME NEW r \in Requests, Send(r) PROVE Service!Next
  <2>1. Fate' = Fate /\ Service!Send(r)
    BY <1>1, SameFate DEF Send, Service!Send, Said
  <2> QED
    BY <2>1 DEF Service!Next
<1>2. ASSUME NEW r \in Requests, Commit(r) PROVE Service!Next
  <2>1. heard' = heard /\ heard[r] \in {"waiting", "lost"}
    BY <1>2 DEF Commit, Said
  <2>2. jobs[r] = 0 /\ jobs' = [jobs EXCEPT ![r] = 1]
    <3>1. jobs' = [jobs EXCEPT ![r] = jobs[r] + 1] /\ jobs[r] = 0
      BY <1>2 DEF Commit, Progress
    <3> QED
      BY <3>1
  <2>3. /\ ~recorded[r] /\ closed[r] = "open"
        /\ recorded' = recorded /\ closed' = closed
    BY <2>2 DEF queue
  <2>4. Fate[r] = "none" /\ Fate' = [Fate EXCEPT ![r] = "open"]
    <3>1. DOMAIN jobs = Requests
      OBVIOUS
    <3>2. jobs'[r] = 1 /\ \A q \in Requests \ {r} : jobs'[q] = jobs[q]
      BY <2>2, <3>1
    <3>3. Fate'[r] = "open" /\ Fate[r] = "none"
      BY <2>2, <2>3, <3>2, Z3 DEF Fate
    <3>4. \A q \in Requests \ {r} : Fate'[q] = Fate[q]
      BY <2>3, <3>2 DEF Fate
    <3>5. /\ Fate = [q \in Requests |-> Fate[q]]
          /\ Fate' = [q \in Requests |-> Fate'[q]]
      BY DEF Fate
    <3>6. Fate' = [q \in Requests |-> IF q = r THEN "open" ELSE Fate[q]]
      BY <3>3, <3>4, <3>5
    <3>7. [Fate EXCEPT ![r] = "open"] = [q \in Requests |-> IF q = r THEN "open" ELSE Fate[q]]
      BY <3>5
    <3> QED
      BY <3>3, <3>6, <3>7
  <2>5. Service!Enqueue(r)
    BY <2>1, <2>4 DEF Service!Enqueue, Service!Become
  <2> QED
    BY <2>5 DEF Service!Next
<1>3. ASSUME NEW r \in Requests, Reply(r) PROVE Service!Next \/ UNCHANGED Service!vars
  BY <1>3, ReplyMaps
<1>4. ASSUME NEW r \in Requests, Disconnect(r) PROVE Service!Next
  <2>1. Fate' = Fate /\ Service!Doubt(r)
    BY <1>4, SameFate DEF Disconnect, Service!Doubt, Service!Hear
  <2> QED
    BY <2>1 DEF Service!Next, Service!Reply
<1>5. CASE Crash
  <2>1. Fate' = Fate /\ Service!Crash
    BY <1>5, SameFate DEF Crash, Service!Crash
  <2> QED
    BY <2>1 DEF Service!Next
<1>6. ASSUME NEW r \in Requests,
             \/ DecodeValid(r) \/ NoClient(r) \/ HasClient(r) \/ Lookup(r) \/ Begin(r)
             \/ InsertTx(r) \/ UnitFails(r) \/ Rollback(r)
      PROVE  UNCHANGED Service!vars
  <2>1. jobs' = jobs /\ heard' = heard
    BY <1>6 DEF DecodeValid, NoClient, HasClient, Lookup, Begin, InsertTx, UnitFails,
                Rollback, Answer, Proceed
  <2> QED
    BY <2>1, SameFate DEF Service!vars
<1> QED
  BY <1>1, <1>2, <1>3, <1>4, <1>5, <1>6 DEF Serve, Handle

\* Every step of the service is one of OrderService or a stutter.
LEMMA StepMaps == OInv /\ [OnboardingNext]_all => [Service!Next]_(Service!vars)
<1> SUFFICES ASSUME OInv, [OnboardingNext]_all
             PROVE  Service!Next \/ UNCHANGED Service!vars
  BY DEF Service!vars
<1>1. CASE Serve /\ UNCHANGED queue
  BY <1>1, ServeMaps
<1>2. ASSUME NEW r \in Requests, Drive(r) \/ Work(r)
      PROVE  Service!Next \/ UNCHANGED Service!vars
  <2>1. heard' = heard
    BY <1>2, WorkerStep DEF vars
  <2>2. CASE Fate' = Fate
    BY <2>1, <2>2 DEF Service!vars
  <2>3. CASE Fate[r] = "open" /\ Fate' = [Fate EXCEPT ![r] = "abandoned"]
    BY <2>1, <2>3 DEF Service!Next, Service!Abandon, Service!Become
  <2>4. CASE Fate[r] \in {"open", "abandoned"} /\ Fate' = [Fate EXCEPT ![r] = "durable"]
    BY <2>1, <2>4 DEF Service!Next, Service!Finish, Service!Become
  <2> QED
    BY <1>2, <2>2, <2>3, <2>4, WorkerStep
<1>3. CASE UNCHANGED all
  BY <1>3 DEF all, vars, queue, Fate, Service!vars
<1> QED
  BY <1>1, <1>2, <1>3 DEF OnboardingNext, Settled

\* The service implements the safety part of OrderService, which
\* ImplementsOrderService states with its fairness.
THEOREM Refinement == OnboardingSafety => Service!Safety
<1>1. OnboardingInit => Service!Init
  BY DEF OnboardingInit, Init, Worker!Init, Service!Init, Fate
<1> QED
  BY <1>1, InitOInv, OnboardingStep, StepMaps, PTL DEF OnboardingSafety, Service!Safety
==============================================================================
