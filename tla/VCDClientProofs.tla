--------------------------- MODULE VCDClientProofs ---------------------------
(***************************************************************************)
(* Proofs about VCDClient, for every number of callers, attempts and       *)
(* expired sessions.                                                       *)
(***************************************************************************)
EXTENDS VCDClient, TLAPS

USE ClientAssumption

\* The mutex is held by the call that authenticates, so there is one at most,
\* and the token it has been granted is the last that was issued.
Mutex == \A c \in Callers : /\ pc[c] \in {"authenticate", "store"} <=> mu = c
                            /\ pc[c] = "store" => held[c] = issued

\* What late counts: nothing before the cancellation, and one attempt after it
\* that no sleep can follow.
Lateness ==
  \A c \in Callers : /\ ~cancelled[c] => late[c] = 0
                     /\ late[c] <= 1
                     /\ pc[c] = "sleep" => late[c] = 0
                     /\ pc[c] = "idle" => ~cancelled[c]

\* An attempt was begun for each that is late, and none is begun in excess.
Counting ==
  \A c \in Callers : /\ late[c] <= attempts[c]
                     /\ pc[c] = "sleep" => attempts[c] < MaxAttempts
                     /\ pc[c] = "idle" => attempts[c] = 0

\* The cached token is the newest that any call has got hold of, and a call that
\* is done with a 401 was refused none but older ones.
Refused ==
  /\ mu # NoCaller => token = 0
  /\ \A c, d \in Callers : pc[d] = "store" /\ pc[c] # "store" => held[c] < held[d]
  /\ \A c \in Callers :
       /\ token # 0 => held[c] <= token
       /\ \A t \in rejected[c] :
            /\ t <= held[c]
            /\ pc[c] \in {"store", "request"} => t < held[c]
            /\ pc[c] # "clearToken" /\ token # 0 => t < token

\* Whoever has failed knows why.
Known == \A c \in Callers : pc[c] = "failed" => lastErr[c] \in Errors

IInv == TypeOK /\ Mutex /\ Lateness /\ Counting /\ Refused /\ Known

\* The invariant holds initially.
LEMMA InitIInv == Init => IInv
BY DEF Init, IInv, TypeOK, Mutex, Lateness, Counting, Refused, Known, One, Errors

\* Every step keeps the six parts of the invariant.
LEMMA InductiveStep == IInv /\ [Next]_vars => IInv'
<1> SUFFICES ASSUME IInv, [Next]_vars PROVE IInv'
  OBVIOUS
<1> USE DEF IInv, TypeOK, Mutex, Lateness, Counting, Refused, Known, One, Errors, Goto,
            FnFails, Return, Attempt, shared, local, ghost
<1>1. ASSUME NEW c \in Callers, Call(c) PROVE IInv'
  BY <1>1 DEF Call
<1>2. ASSUME NEW c \in Callers, Exhausted(c) PROVE IInv'
  BY <1>2 DEF Exhausted
<1>3. ASSUME NEW c \in Callers, Sleep(c) PROVE IInv'
  BY <1>3 DEF Sleep
<1>4. ASSUME NEW c \in Callers, Wake(c) PROVE IInv'
  BY <1>4 DEF Wake
<1>5. ASSUME NEW c \in Callers, StopEarly(c) PROVE IInv'
  BY <1>5 DEF StopEarly
<1>6. ASSUME NEW c \in Callers, GetCached(c) PROVE IInv'
  BY <1>6 DEF GetCached
<1>7. ASSUME NEW c \in Callers, GetMissing(c) PROVE IInv'
  BY <1>7 DEF GetMissing
<1>8. ASSUME NEW c \in Callers, Grant(c) PROVE IInv'
  BY <1>8 DEF Grant
<1>9. ASSUME NEW c \in Callers, Store(c) PROVE IInv'
  BY <1>9 DEF Store
<1>10. ASSUME NEW c \in Callers, AuthenticateFails(c) PROVE IInv'
  BY <1>10 DEF AuthenticateFails
<1>11. ASSUME NEW c \in Callers, ClearToken(c) PROVE IInv'
  BY <1>11 DEF ClearToken
<1>12. ASSUME NEW c \in Callers, Succeed(c) PROVE IInv'
  BY <1>12 DEF Succeed
<1>13. ASSUME NEW c \in Callers, Unauthorized(c) PROVE IInv'
  BY <1>13 DEF Unauthorized
<1>14. ASSUME NEW c \in Callers, RequestFails(c) PROVE IInv'
  BY <1>14 DEF RequestFails
<1>15. ASSUME NEW c \in Callers, Cancel(c) PROVE IInv'
  BY <1>15 DEF Cancel
<1>16. ASSUME NEW t \in live, Expire(t) PROVE IInv'
  BY <1>16 DEF Expire
<1>17. CASE AllDone \/ UNCHANGED vars
  <2>1. UNCHANGED vars
    BY <1>17 DEF AllDone
  <2>2. TypeOK' /\ Mutex' /\ Lateness' /\ Counting'
    BY <2>1 DEF vars
  <2>3. Refused' /\ Known'
    BY <2>1 DEF vars
  <2> QED
    BY <2>2, <2>3
<1> QED
  BY <1>1, <1>2, <1>3, <1>4, <1>5, <1>6, <1>7, <1>8, <1>9, <1>10, <1>11, <1>12,
     <1>13, <1>14, <1>15, <1>16, <1>17 DEF Next, Step

\* The parts of the invariant hold in every behaviour.
THEOREM Invariance == Spec => []IInv
BY InitIInv, InductiveStep, PTL DEF Spec

\* Type correctness.
THEOREM TypeCorrect == Spec => []TypeOK
BY Invariance, PTL DEF IInv

\* However many calls share the client, at most one attempt of a call is begun
\* after its ctx was cancelled.
THEOREM EarlyStop == Spec => []StopsEarly
<1>1. IInv => StopsEarly
  BY DEF IInv, Lateness, StopsEarly
<1> QED
  BY <1>1, Invariance, PTL

\* However many sessions end, and whatever the calls do to each other's tokens,
\* no call is refused a token twice: what it sends after a 401 is a newer one.
THEOREM NewerAfterRefusal == Spec => []ExpirySurvived
<1>1. IInv => ExpirySurvived
  BY DEF IInv, Refused, ExpirySurvived
<1> QED
  BY <1>1, Invariance, PTL

\* No call overwrites the cached token with one that is not the newest.
THEOREM NewestToken == Spec => CacheTakesNewest
<1>1. IInv /\ [Next]_vars => [token' \in {token, 0, issued}]_vars
  BY DEF IInv, Mutex, Next, Step, Call, Exhausted, Sleep, Wake, StopEarly, GetCached,
         GetMissing, Grant, Store, AuthenticateFails, ClearToken, Succeed,
         Unauthorized, RequestFails, Cancel, Expire, AllDone, vars, shared
<1> QED
  BY <1>1, Invariance, PTL DEF Spec, CacheTakesNewest

\* Whoever waits for c.mu waits for a call that waits for no lock, however many
\* calls there are: they cannot come to wait for each other.
THEOREM MutexWaits == Spec => []MutexWaitsEnd
<1>1. IInv => MutexWaitsEnd
  BY DEF IInv, TypeOK, Mutex, MutexWaitsEnd
<1> QED
  BY <1>1, Invariance, PTL

\* What is left of a call at place p of attempt a.
Rank(p, a) == 8 * (MaxAttempts - a)
                + [idle |-> 0, getToken |-> 7, authenticate |-> 6, store |-> 5,
                   request |-> 4, clearToken |-> 3, failed |-> 2, sleep |-> 1,
                   done |-> 0][p]

\* Place by place, and before and after a step.
LEMMA RankValues ==
  /\ \A a : LET n == 8 * (MaxAttempts - a)
            IN  /\ Rank("idle", a) = n + 0 /\ Rank("getToken", a) = n + 7
                /\ Rank("authenticate", a) = n + 6 /\ Rank("store", a) = n + 5
                /\ Rank("request", a) = n + 4 /\ Rank("clearToken", a) = n + 3
                /\ Rank("failed", a) = n + 2 /\ Rank("sleep", a) = n + 1
                /\ Rank("done", a) = n + 0
  /\ \A c : /\ Left(c) = Rank(pc[c], attempts[c])
            /\ Left(c)' = Rank(pc'[c], attempts'[c])
BY DEF Rank, Left

\* A step takes its call to a place of a lower rank in the same attempt, or to
\* the start of the next attempt.
LEMMA MovesOn ==
  ASSUME IInv, [Next]_vars, NEW c \in Callers, ~UNCHANGED <<pc[c], attempts[c]>>
  PROVE  \/ /\ attempts'[c] = attempts[c] + 1 /\ pc'[c] = "getToken"
            /\ pc[c] \in {"idle", "sleep"} /\ attempts[c] < MaxAttempts
         \/ /\ attempts'[c] = attempts[c]
            /\ <<pc[c], pc'[c]>> \in
                 {<<"getToken", "authenticate">>, <<"getToken", "request">>,
                  <<"authenticate", "store">>, <<"authenticate", "failed">>,
                  <<"store", "request">>, <<"store", "failed">>,
                  <<"request", "done">>, <<"request", "clearToken">>,
                  <<"request", "failed">>, <<"clearToken", "failed">>,
                  <<"failed", "sleep">>, <<"failed", "done">>, <<"sleep", "done">>}
<1> USE DEF IInv, TypeOK, Counting, Goto, FnFails, Return, Attempt, local
<1>1. PICK d \in Callers : Call(d) \/ Step(d)
  BY DEF Next, Cancel, Expire, AllDone, vars
<1>2. c = d
  BY <1>1 DEF Step, Call, Exhausted, Sleep, Wake, StopEarly, GetCached, GetMissing, Grant,
              Store, AuthenticateFails, ClearToken, Succeed, Unauthorized, RequestFails
<1>3. CASE Call(c) \/ Wake(c)
  BY <1>3 DEF Call, Wake
<1>4. CASE Exhausted(c) \/ Sleep(c) \/ StopEarly(c) \/ Succeed(c) \/ RequestFails(c)
  BY <1>4 DEF Exhausted, Sleep, StopEarly, Succeed, RequestFails
<1>5. CASE GetCached(c) \/ GetMissing(c) \/ Grant(c) \/ Store(c)
  BY <1>5 DEF GetCached, GetMissing, Grant, Store
<1>6. CASE AuthenticateFails(c) \/ ClearToken(c) \/ Unauthorized(c)
  BY <1>6 DEF AuthenticateFails, ClearToken, Unauthorized
<1> QED
  BY <1>1, <1>2, <1>3, <1>4, <1>5, <1>6 DEF Step

\* No call makes more than 8 * MaxAttempts steps: whatever other calls and Cloud
\* Director do to its token, each step leaves it fewer.
THEOREM BoundedCalls == Spec => CallsProgress
<1>1. ASSUME IInv, [Next]_vars, NEW c \in Callers, ~UNCHANGED <<pc[c], attempts[c]>>
      PROVE  Left(c)' \in 0 .. Left(c) - 1
  <2>1. attempts[c] \in 0 .. MaxAttempts
    BY <1>1 DEF IInv, TypeOK
  <2> QED
    BY <1>1, <2>1, MovesOn, RankValues
<1>2. IInv /\ [Next]_vars
        => [\A c \in Callers :
              Left(c)' \in 0 .. Left(c) - 1 \/ UNCHANGED <<pc[c], attempts[c]>>]_vars
  BY <1>1
<1> QED
  BY <1>2, Invariance, PTL DEF Spec, CallsProgress

------------------------------------------------------------------------------
(* What retry.Do promises.                                                 *)

\* The phase and the result RetryDo sees, call by call.
Phase(c) == CASE pc[c] = "idle" -> "idle"
              [] pc[c] = "done" -> "returned"
              [] pc[c] \in {"failed", "sleep"} -> "between"
              [] OTHER -> "calling"

Result(c) == CASE outcome[c] = "ok" -> "nil"
               [] outcome[c] \in {"none", "cancelled"} -> outcome[c]
               [] OTHER -> "error"

Phases  == [c \in Callers |-> Phase(c)]
Results == [c \in Callers |-> Result(c)]

\* The actions of RetryDo, in these terms.
LEMMA Actions ==
  ASSUME NEW c \in Callers
  PROVE  /\ /\ Phase(c) \in {"idle", "between"} /\ attempts[c] < MaxAttempts
            /\ Phases' = [Phases EXCEPT ![c] = "calling"]
            /\ attempts' = [attempts EXCEPT ![c] = @ + 1]
            /\ Results' = Results
            => Do!Call(c)
         /\ /\ Phase(c) = "calling" /\ Phases' = [Phases EXCEPT ![c] = "between"]
            /\ attempts' = attempts /\ Results' = Results
            => Do!Fail(c)
         /\ \A res : /\ Phases' = [Phases EXCEPT ![c] = "returned"]
                     /\ attempts' = attempts
                     /\ Results' = [Results EXCEPT ![c] = res]
                     => Do!Return(c, res)
         /\ Phases[c] = Phase(c) /\ Results[c] = Result(c)
BY DEF Do!Call, Do!Fail, Do!Return, Phases, Phase, Results, Result

\* A call ends, with a result.
LEMMA Ends ==
  ASSUME IInv, NEW c \in Callers, NEW res, NEW out,
         pc' = [pc EXCEPT ![c] = "done"], attempts' = attempts,
         outcome' = [outcome EXCEPT ![c] = out], Result(c)' = res
  PROVE  Do!Return(c, res)
<1> USE DEF IInv, TypeOK
<1>1. Phase(c)' = "returned"
  BY DEF Phase
<1>2. \A d \in Callers \ {c} : Phase(d)' = Phase(d) /\ Result(d)' = Result(d)
  BY DEF Phase, Result
<1>3. Phases' = [Phases EXCEPT ![c] = "returned"]
  BY <1>1, <1>2 DEF Phases
<1>4. Results' = [Results EXCEPT ![c] = res]
  BY <1>2 DEF Results
<1> QED
  BY <1>3, <1>4, Actions

\* Every step of a client is one of RetryDo, or a stutter.
LEMMA StepMaps == IInv /\ [Next]_vars => [Do!Next]_(Do!vars)
<1> SUFFICES ASSUME IInv, [Next]_vars PROVE Do!Next \/ UNCHANGED Do!vars
  BY DEF Do!vars
<1> USE DEF IInv, TypeOK, Goto
<1>1. ASSUME NEW c \in Callers, Call(c) \/ Wake(c) PROVE Do!Next
  <2>1. /\ pc[c] \in {"idle", "sleep"} /\ pc' = [pc EXCEPT ![c] = "getToken"]
        /\ attempts' = [attempts EXCEPT ![c] = @ + 1] /\ outcome' = outcome
    BY <1>1 DEF Call, Wake, Attempt
  <2>2. attempts[c] < MaxAttempts
    BY <2>1 DEF Counting
  <2>3. Phase(c) \in {"idle", "between"} /\ Phase(c)' = "calling"
    BY <2>1 DEF Phase
  <2>4. \A d \in Callers \ {c} : Phase(d)' = Phase(d) /\ Result(d)' = Result(d)
    BY <2>1 DEF Phase, Result
  <2>5. Result(c)' = Result(c)
    BY <2>1 DEF Result
  <2>6. Phases' = [Phases EXCEPT ![c] = "calling"] /\ Results' = Results
    BY <2>3, <2>4, <2>5 DEF Phases, Results
  <2>7. Do!Call(c)
    BY <2>1, <2>2, <2>3, <2>6, Actions
  <2> QED
    BY <2>7 DEF Do!Next
<1>2. ASSUME NEW c \in Callers, Exhausted(c) PROVE Do!Next
  <2>1. Do!Return(c, "error")
    <3>1. outcome' = [outcome EXCEPT ![c] = lastErr[c]] /\ lastErr[c] \in Errors
      BY <1>2 DEF Exhausted, Return, Known
    <3>2. Result(c)' = "error"
      BY <3>1 DEF Result, Errors
    <3> QED
      BY <1>2, <3>1, <3>2, Ends DEF Exhausted, Return
  <2>2. Phases[c] = "between" /\ attempts[c] = MaxAttempts
    BY <1>2, Actions DEF Exhausted, Phase
  <2> QED
    BY <2>1, <2>2 DEF Do!LastError, Do!Go, Do!Next, Phases, Phase
<1>3. ASSUME NEW c \in Callers, StopEarly(c) PROVE Do!Next
  <2>1. Do!Return(c, "cancelled")
    <3>1. outcome' = [outcome EXCEPT ![c] = "cancelled"]
      BY <1>3 DEF StopEarly, Return
    <3>2. Result(c)' = "cancelled"
      BY <3>1 DEF Result
    <3> QED
      BY <1>3, <3>1, <3>2, Ends DEF StopEarly, Return
  <2>2. Phases[c] = "between" /\ attempts[c] < MaxAttempts
    BY <1>3, Actions DEF StopEarly, Counting, Phase
  <2> QED
    BY <2>1, <2>2 DEF Do!Cancelled, Do!Go, Do!Next, Phases, Phase
<1>4. ASSUME NEW c \in Callers, Succeed(c) PROVE Do!Next
  <2>1. Do!Return(c, "nil")
    <3>1. outcome' = [outcome EXCEPT ![c] = "ok"]
      BY <1>4 DEF Succeed, Return
    <3>2. Result(c)' = "nil"
      BY <3>1 DEF Result
    <3> QED
      BY <1>4, <3>1, <3>2, Ends DEF Succeed, Return
  <2>2. Phases[c] = "calling"
    BY <1>4, Actions DEF Succeed, Phase
  <2> QED
    BY <2>1, <2>2 DEF Do!Succeed, Do!Go, Do!Next, Phases, Phase
<1>5. ASSUME NEW c \in Callers, AuthenticateFails(c) \/ ClearToken(c) \/ RequestFails(c)
      PROVE  Do!Next
  <2>1. /\ pc[c] \in {"authenticate", "store", "clearToken", "request"}
        /\ pc' = [pc EXCEPT ![c] = "failed"]
        /\ attempts' = attempts /\ outcome' = outcome
    BY <1>5 DEF AuthenticateFails, ClearToken, RequestFails, FnFails
  <2>2. Phase(c) = "calling" /\ Phase(c)' = "between"
    BY <2>1 DEF Phase
  <2>3. \A d \in Callers \ {c} : Phase(d)' = Phase(d) /\ Result(d)' = Result(d)
    BY <2>1 DEF Phase, Result
  <2>4. Result(c)' = Result(c)
    BY <2>1 DEF Result
  <2>5. Phases' = [Phases EXCEPT ![c] = "between"] /\ Results' = Results
    BY <2>2, <2>3, <2>4 DEF Phases, Results
  <2>6. Do!Fail(c)
    BY <2>1, <2>2, <2>5, Actions
  <2> QED
    BY <2>6 DEF Do!Next, Do!Go
<1>6. ASSUME NEW c \in Callers,
             \/ Sleep(c) \/ GetCached(c) \/ GetMissing(c) \/ Grant(c) \/ Store(c)
             \/ Unauthorized(c) \/ Cancel(c)
      PROVE  UNCHANGED Do!vars
  <2>1. attempts' = attempts /\ outcome' = outcome
    BY <1>6 DEF Sleep, GetCached, GetMissing, Grant, Store, Unauthorized, Cancel, local
  <2>2. \A d \in Callers : Phase(d)' = Phase(d)
    BY <1>6 DEF Sleep, GetCached, GetMissing, Grant, Store, Unauthorized, Cancel, Phase
  <2>3. \A d \in Callers : Result(d)' = Result(d)
    BY <2>1 DEF Result
  <2> QED
    BY <2>1, <2>2, <2>3 DEF Phase, Result, Do!vars
<1>7. CASE AllDone \/ UNCHANGED vars \/ \E t \in live : Expire(t)
  <2>1. UNCHANGED <<pc, attempts, outcome>>
    BY <1>7 DEF AllDone, vars, Expire, local
  <2> QED
    BY <2>1 DEF Do!vars
<1> QED
  BY <1>1, <1>2, <1>3, <1>4, <1>5, <1>6, <1>7 DEF Next, Step

\* Whatever calls, sessions and cancellations there are, do uses retry.Do as
\* RetryDo promises it, but for what ImplementsRetryDo says of fairness.
THEOREM RetryRefinement == Spec => Do!Safety
<1>1. Init => Do!Init
  BY DEF Init, Do!Init
<1> QED
  BY <1>1, InitIInv, InductiveStep, StepMaps, PTL DEF Spec, Do!Safety
=============================================================================
