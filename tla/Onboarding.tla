----------------------------- MODULE Onboarding -----------------------------
(***************************************************************************)
(* The endpoint and the queue behind it: Enqueue puts jobs into river_job, *)
(* and the worker, as AtomicWorkflow promises it, takes them from there.   *)
(* A job has the name of the request that made it.  All they share is the  *)
(* table: the worker sees a job when its INSERT is committed.              *)
(***************************************************************************)
EXTENDS Enqueue

CONSTANTS NumSteps,     \* of the workflow
          MaxAttempts   \* of a job

VARIABLES done, recorded, closed, tries

Worker == INSTANCE AtomicWorkflow WITH Jobs <- Requests

queue == <<done, recorded, closed, tries>>
all   == <<vars, queue>>

OnboardingInit == Init /\ Worker!Init

\* (mutant of Visible) A job that is taken from the row of an open transaction.
VisibleEarly(r) == jobs[r] = 1 \/ inserted[r]

\* What River can fetch.
Visible(r) == jobs[r] = 1

\* River tries a job again, or closes it.
Drive(r) == Visible(r) /\ Worker!Drive(r) /\ UNCHANGED vars

Work(r) ==
  /\ Visible(r)
  /\ tries[r] > 0
  /\ (\E i \in Worker!Steps : Worker!Do(r, i)) \/ Worker!Record(r)
  /\ UNCHANGED vars

Settled == /\ \A r \in Requests : At(r, "gone") /\ (Visible(r) => closed[r] # "open")
           /\ UNCHANGED all

OnboardingNext == \/ Serve /\ UNCHANGED queue
                  \/ \E r \in Requests : Drive(r) \/ Work(r)
                  \/ Settled

OnboardingSafety == OnboardingInit /\ [][OnboardingNext]_all

\* Handlers go on: their calls end, by the VCD client's and the pool's promises.
\* River goes on, by the worker's.
OnboardingSpec ==
  /\ OnboardingSafety
  /\ \A r \in Requests : WF_all(Handle(r) /\ UNCHANGED queue) /\ WF_all(Drive(r))

------------------------------------------------------------------------------
\* What has become of the job of each request.
Fate == [r \in Requests |-> IF jobs[r] = 0 THEN "none"
                            ELSE IF recorded[r] THEN "durable"
                            ELSE IF closed[r] = "discarded" THEN "abandoned"
                            ELSE "open"]

\* The service keeps its promise to HostBill from end to end: accepted orders
\* have their job, refused ones none, whatever is lost on the way, and each job
\* is seen to its end (the answers of handle_onboard_org.go, the transaction
\* around InsertTx, and the worker behind them).
Service == INSTANCE OrderService WITH
  answer <- heard,
  job    <- Fate

ImplementsOrderService == Service!Spec
=============================================================================
