--------------------------- MODULE AtomicWorkflow ---------------------------
(***************************************************************************)
(* What the onboarding queue promises about each accepted job, with no     *)
(* transactions, locks, executors or crashes in sight:                     *)
(*   - the steps of its workflow are done in order, none left out;         *)
(*   - the finished workflow is recorded once, all of it, and for good;    *)
(*   - a job is closed as completed only when its workflow is recorded,    *)
(*     and given up only when its attempts are used up;                    *)
(*   - an open job is tried again until it is closed.                      *)
(***************************************************************************)
EXTENDS Integers

CONSTANTS Jobs, NumSteps, MaxAttempts

VARIABLES done,      \* done[j]: the steps counted as done at least once
          recorded,  \* recorded[j]: the finished workflow is durable
          closed,    \* closed[j]: what became of the job
          tries      \* tries[j]: the attempts started so far

vars == <<done, recorded, closed, tries>>

Steps == 0 .. NumSteps - 1

Init == /\ done = [j \in Jobs |-> {}]
        /\ recorded = [j \in Jobs |-> FALSE]
        /\ closed = [j \in Jobs |-> "open"]
        /\ tries = [j \in Jobs |-> 0]

Try(j) == /\ closed[j] = "open"
          /\ tries[j] < MaxAttempts
          /\ tries' = [tries EXCEPT ![j] = @ + 1]
          /\ UNCHANGED <<done, recorded, closed>>

\* A step counts as done only on top of all the steps before it.
Do(j, i) == /\ ~recorded[j]
            /\ 0 .. i - 1 \subseteq done[j]
            /\ done' = [done EXCEPT ![j] = @ \cup {i}]
            /\ UNCHANGED <<recorded, closed, tries>>

Record(j) == /\ done[j] = Steps
             /\ recorded' = [recorded EXCEPT ![j] = TRUE]
             /\ UNCHANGED <<done, closed, tries>>

Complete(j) == /\ closed[j] = "open"
               /\ recorded[j]
               /\ closed' = [closed EXCEPT ![j] = "completed"]
               /\ UNCHANGED <<done, recorded, tries>>

GiveUp(j) == /\ closed[j] = "open"
             /\ tries[j] = MaxAttempts
             /\ closed' = [closed EXCEPT ![j] = "discarded"]
             /\ UNCHANGED <<done, recorded, tries>>

\* What River does about an open job: another attempt, or the end of it.
Drive(j) == Try(j) \/ Complete(j) \/ GiveUp(j)

Next == \E j \in Jobs : \/ Drive(j)
                        \/ \E i \in Steps : Do(j, i)
                        \/ Record(j)

Safety == Init /\ [][Next]_vars

Spec == Safety /\ \A j \in Jobs : WF_vars(Drive(j))
=============================================================================
