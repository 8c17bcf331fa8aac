---------------------------- MODULE EnqueueProofs ----------------------------
(***************************************************************************)
(* Proofs about Enqueue, for every set of orders, any number of times each *)
(* is sent and any number of crashes.                                      *)
(***************************************************************************)
EXTENDS Enqueue, TLAPS

\* Where a handler is fixes what it has written and whether its job is durable.
Progress(r) ==
  /\ pc[r] \in {"unsent", "decode", "client", "lookup", "begin", "insert", "commit"} =>
       status[r] = 0 /\ jobs[r] = 0
  /\ pc[r] = "rollback" => status[r] = 500 /\ jobs[r] = 0
  /\ pc[r] = "reply" => /\ status[r] # 0
                        /\ status[r] = 202 => jobs[r] = 1
                        /\ status[r] \in Refusals => jobs[r] = 0

\* What HostBill has heard was said by a handler that has gone.
Said(r) ==
  /\ heard[r] = "unsent" <=> pc[r] = "unsent"
  /\ heard[r] = "waiting" => pc[r] # "gone"
  /\ heard[r] \in {"accepted", "refused", "failed"} => pc[r] = "gone"
  /\ heard[r] = "accepted" => jobs[r] = 1
  /\ heard[r] = "refused" => jobs[r] = 0

EInv == TypeOK /\ \A r \in Requests : Progress(r) /\ Said(r)

\* The invariant holds initially.
LEMMA InitEInv == Init => EInv
BY EnqueueAssumption DEF Init, EInv, TypeOK, Progress, Said, Refusals

\* A step of one handler, and of HostBill, which looks at that request alone.
LEMMA HandleSteps ==
  ASSUME EInv, NEW r \in Requests, Send(r) \/ Handle(r) \/ Disconnect(r)
  PROVE  EInv'
<1> USE DEF EInv, TypeOK, Progress, Said, Refusals, At, Goto, Encode, quiet
<1>1. CASE Send(r)
  BY <1>1, EnqueueAssumption DEF Send
<1>2. CASE DecodeValid(r)
  BY <1>2 DEF DecodeValid, Answer, Proceed
<1>3. CASE NoClient(r) \/ HasClient(r)
  BY <1>3 DEF NoClient, HasClient, Answer, Proceed
<1>4. CASE Lookup(r) \/ Begin(r)
  BY <1>4 DEF Lookup, Begin, Answer, Proceed
<1>5. CASE InsertTx(r)
  BY <1>5 DEF InsertTx
<1>6. CASE UnitFails(r)
  BY <1>6 DEF UnitFails
<1>7. CASE Commit(r)
  BY <1>7 DEF Commit
<1>8. CASE Rollback(r)
  BY <1>8 DEF Rollback
<1>9. CASE Reply(r)
  BY <1>9 DEF Reply, Says
<1>10. CASE Disconnect(r)
  BY <1>10 DEF Disconnect
<1> QED
  BY <1>1, <1>2, <1>3, <1>4, <1>5, <1>6, <1>7, <1>8, <1>9, <1>10 DEF Handle

\* Each move of HostBill, of a handler and of the process keeps it.
LEMMA ServeStep == EInv /\ Serve => EInv'
<1>1. ASSUME EInv, Crash PROVE EInv'
  BY <1>1, EnqueueAssumption
  DEF Crash, EInv, TypeOK, Progress, Said, Refusals, At
<1> QED
  BY <1>1, HandleSteps DEF Serve

\* And so does a step of anything else.
LEMMA StutterStep == EInv /\ UNCHANGED vars => EInv'
BY DEF vars, EInv, TypeOK, Progress, Said, Refusals

\* What each handler knows, in every behaviour.
THEOREM Invariance == Spec => []EInv
<1>1. EInv /\ [Next]_vars => EInv'
  BY ServeStep, StutterStep DEF Next, Served
<1> QED
  BY <1>1, InitEInv, PTL DEF Spec

\* Type correctness, in which no request makes two jobs.
THEOREM TypeCorrect == Spec => []TypeOK
BY Invariance, PTL DEF EInv

\* A 202 that was heard stands for a durable job.
THEOREM Accepted == Spec => []AcceptedAreQueued
<1>1. EInv => AcceptedAreQueued
  BY DEF EInv, Said, AcceptedAreQueued
<1> QED
  BY <1>1, Invariance, PTL

\* A refusal that was heard stands for no job.
THEOREM Refused == Spec => []RefusedNotQueued
<1>1. EInv => RefusedNotQueued
  BY DEF EInv, Said, RefusedNotQueued
<1> QED
  BY <1>1, Invariance, PTL
==============================================================================
