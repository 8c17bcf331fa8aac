------------------------------- MODULE RetryDo -------------------------------
(***************************************************************************)
(* What retry.Do promises whoever calls it, whatever fn does: fn is called *)
(* until it succeeds, at most MaxAttempts times; an error is returned only *)
(* after the last of them, and a cancellation cuts short only the waiting  *)
(* before another one; Do returns.                                         *)
(***************************************************************************)
EXTENDS Naturals

CONSTANTS Callers, MaxAttempts

VARIABLES phase,  \* what Do is at, for each caller
          calls,  \* calls of fn so far
          result

vars == <<phase, calls, result>>

Init == /\ phase = [c \in Callers |-> "idle"]
        /\ calls = [c \in Callers |-> 0]
        /\ result = [c \in Callers |-> "none"]

Call(c) == /\ phase[c] \in {"idle", "between"}
           /\ calls[c] < MaxAttempts
           /\ phase' = [phase EXCEPT ![c] = "calling"]
           /\ calls' = [calls EXCEPT ![c] = @ + 1]
           /\ UNCHANGED result

Return(c, res) == /\ phase' = [phase EXCEPT ![c] = "returned"]
                  /\ result' = [result EXCEPT ![c] = res]
                  /\ UNCHANGED calls

Succeed(c) == phase[c] = "calling" /\ Return(c, "nil")

Fail(c) == /\ phase[c] = "calling"
           /\ phase' = [phase EXCEPT ![c] = "between"]
           /\ UNCHANGED <<calls, result>>

Again(c) == phase[c] = "between" /\ Call(c)

LastError(c) == phase[c] = "between" /\ calls[c] = MaxAttempts /\ Return(c, "error")

Cancelled(c) == phase[c] = "between" /\ calls[c] < MaxAttempts /\ Return(c, "cancelled")

Go(c) == Succeed(c) \/ Fail(c) \/ LastError(c) \/ Cancelled(c)

Next == \E c \in Callers : Call(c) \/ Go(c)

Safety == Init /\ [][Next]_vars

Spec == Safety /\ \A c \in Callers : WF_vars(Go(c) \/ Again(c))
==============================================================================
