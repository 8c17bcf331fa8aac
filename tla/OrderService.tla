---------------------------- MODULE OrderService ----------------------------
(***************************************************************************)
(* What HostBill may rely on when it sends an order to the service: a      *)
(* request heard as accepted has its job, one heard as refused has none    *)
(* and gets none, every request is answered unless the answer is lost, and *)
(* a job does not stay open for ever: its workflow becomes durable, or the *)
(* job is abandoned with its attempts used up.                             *)
(***************************************************************************)
CONSTANT Requests

VARIABLES answer,  \* what HostBill knows of each request
          job      \* what has become of its job

vars == <<answer, job>>

Init == /\ answer = [r \in Requests |-> "unsent"]
        /\ job = [r \in Requests |-> "none"]

Hear(r, says) == /\ answer[r] = "waiting"
                 /\ answer' = [answer EXCEPT ![r] = says]
                 /\ UNCHANGED job

Become(r, state) == job' = [job EXCEPT ![r] = state] /\ UNCHANGED answer

Send(r) == /\ answer[r] = "unsent"
           /\ answer' = [answer EXCEPT ![r] = "waiting"]
           /\ UNCHANGED job

\* While the answer is open, or lost.
Enqueue(r) == answer[r] \in {"waiting", "lost"} /\ job[r] = "none" /\ Become(r, "open")

Accept(r) == job[r] # "none" /\ Hear(r, "accepted")

Refuse(r) == job[r] = "none" /\ Hear(r, "refused")

Doubt(r) == Hear(r, "failed") \/ Hear(r, "lost")

Reply(r) == Accept(r) \/ Refuse(r) \/ Doubt(r)

\* An execution that River has given up may still commit.
Finish(r) == job[r] \in {"open", "abandoned"} /\ Become(r, "durable")

Abandon(r) == job[r] = "open" /\ Become(r, "abandoned")

\* The process dies: every request under way has lost its answer.
Crash == /\ answer' = [r \in Requests |-> IF answer[r] = "waiting" THEN "lost" ELSE answer[r]]
         /\ UNCHANGED job

Settle(r) == job[r] = "open" /\ (Finish(r) \/ Abandon(r))

Next == \/ \E r \in Requests : Send(r) \/ Enqueue(r) \/ Reply(r) \/ Finish(r) \/ Abandon(r)
        \/ Crash

Safety == Init /\ [][Next]_vars

Spec == Safety /\ \A r \in Requests : /\ WF_vars(Reply(r))
                                      /\ WF_vars(Settle(r))
=============================================================================
