------------------------------ MODULE VCDClient ------------------------------
(***************************************************************************)
(* The Cloud Director client (internal/clients/vcd/client.go) and the      *)
(* retry helper it runs every request under (internal/retry/retry.go).     *)
(*                                                                         *)
(* One vcd.Client is shared by all request handlers: Callers are the       *)
(* goroutines that are inside c.do, each for one call.  They share the     *)
(* cached token and the mutex that getToken keeps locked while it waits    *)
(* for the answer to the authentication request.                           *)
(*                                                                         *)
(* Cloud Director is external.  Tokens are numbered in the order it issues *)
(* them; Expire ends a session, at most MaxExpiries times.  A response is  *)
(* its class: success, 401, a status IsRetryable accepts ("transient") or  *)
(* not ("permanent"), no response at all ("transport"), or a body that     *)
(* does not decode ("decode").  Durations are left out: a sleep ends at    *)
(* some time, and no sooner than a cancellation that came before it.       *)
(***************************************************************************)
EXTENDS Integers, FiniteSets

CONSTANTS Callers,
          NoCaller,     \* who holds the mutex when nobody does
          MaxAttempts,  \* what do passes to retry.Do
          Failures,     \* how a request may fail, beside a 401
          AuthErrors,   \* how an authentication may fail
          MaxExpiries   \* bound: sessions ended by Cloud Director

ASSUME ClientAssumption ==
  /\ NoCaller \notin Callers
  /\ MaxAttempts \in Nat \ {0}
  /\ Failures \subseteq {"transport", "transient", "permanent", "decode"}
  /\ AuthErrors \subseteq {"auth"}
  /\ MaxExpiries \in Nat

VARIABLES mu,         \* the holder of c.mu
          token,      \* c.token: the number of the cached token, 0 for ""
          issued,     \* tokens Cloud Director has issued
          live,       \* those of them it still accepts
          pc,         \* where each caller is
          held,       \* do's local token
          attempts,   \* calls of fn that retry.Do has begun
          lastErr,    \* retry.Do's lastErr
          outcome,    \* what do has returned
          cancelled,  \* the caller's ctx is done
          late,       \* history: attempts begun after that
          rejected     \* history: authentications after a 401, in this call

shared == <<mu, token, issued, live>>
local  == <<held, attempts, lastErr, outcome>>
ghost  == <<late, rejected>>
vars   == <<mu, token, issued, live, pc, held, attempts, lastErr, outcome,
            cancelled, late, rejected>>

Errors == {"transport", "transient", "permanent", "decode", "auth", "unauthorized"}

TypeOK ==
  /\ mu \in Callers \cup {NoCaller}
  /\ issued \in Nat
  /\ token \in 0 .. issued
  /\ live \subseteq 1 .. issued
  /\ pc \in [Callers -> {"idle", "getToken", "authenticate", "store",
                         "request", "clearToken", "failed", "sleep", "done"}]
  /\ held \in [Callers -> 0 .. issued]
  /\ attempts \in [Callers -> 0 .. MaxAttempts]
  /\ lastErr \in [Callers -> Errors \cup {"none"}]
  /\ outcome \in [Callers -> Errors \cup {"none", "ok", "cancelled"}]
  /\ cancelled \in [Callers -> BOOLEAN]
  /\ late \in [Callers -> 0 .. MaxAttempts]
  /\ rejected \in [Callers -> SUBSET (0 .. issued)]

Init ==
  /\ mu = NoCaller
  /\ token = 0
  /\ issued = 0
  /\ live = {}
  /\ pc = [c \in Callers |-> "idle"]
  /\ held = [c \in Callers |-> 0]
  /\ attempts = [c \in Callers |-> 0]
  /\ lastErr = [c \in Callers |-> "none"]
  /\ outcome = [c \in Callers |-> "none"]
  /\ cancelled = [c \in Callers |-> FALSE]
  /\ late = [c \in Callers |-> 0]
  /\ rejected = [c \in Callers |-> {}]

One(cond) == IF cond THEN 1 ELSE 0

Goto(c, label) == pc' = [pc EXCEPT ![c] = label]

------------------------------------------------------------------------------
(* retry.Do                                                                *)

\* The next call of fn; it starts by asking for the token.
Attempt(c) ==
  /\ attempts' = [attempts EXCEPT ![c] = @ + 1]
  /\ late' = [late EXCEPT ![c] = @ + One(cancelled[c])]
  /\ Goto(c, "getToken")

\* (mutant of FnFails) lastErr := fn() declares another lastErr.
FnFailsShadowed(c, err) ==
  /\ UNCHANGED lastErr
  /\ Goto(c, "failed")

\* fn has returned an error: any error, retry.Do does not tell them apart.
FnFails(c, err) ==
  /\ lastErr' = [lastErr EXCEPT ![c] = err]
  /\ Goto(c, "failed")

Return(c, res) ==
  /\ outcome' = [outcome EXCEPT ![c] = res]
  /\ Goto(c, "done")

Call(c) ==
  /\ pc[c] = "idle"
  /\ Attempt(c)
  /\ UNCHANGED <<shared, held, lastErr, outcome, cancelled, rejected>>

\* The last attempt failed: no sleep.
Exhausted(c) ==
  /\ pc[c] = "failed"
  /\ attempts[c] = MaxAttempts
  /\ Return(c, lastErr[c])
  /\ UNCHANGED <<shared, held, attempts, lastErr, cancelled, ghost>>

\* (mutant of Sleep) time.Sleep in the place of the select on ctx.Done().
SleepThrough(c) ==
  /\ pc[c] = "failed"
  /\ attempts[c] < MaxAttempts
  /\ Goto(c, "sleep")
  /\ UNCHANGED <<shared, local, cancelled, ghost>>

\* (mutant of Sleep) The loop is written for i <= maxAttempts, and its test for the
\* last attempt alike.
SleepAfterLast(c) ==
  /\ pc[c] = "failed"
  /\ attempts[c] <= MaxAttempts
  /\ ~cancelled[c]
  /\ Goto(c, "sleep")
  /\ UNCHANGED <<shared, local, cancelled, ghost>>

\* The select finds ctx still alive and waits.
Sleep(c) ==
  /\ pc[c] = "failed"
  /\ attempts[c] < MaxAttempts
  /\ ~cancelled[c]
  /\ Goto(c, "sleep")
  /\ UNCHANGED <<shared, local, cancelled, ghost>>

\* <-time.After(backoff), ready even if ctx.Done() has become ready too.
Wake(c) ==
  /\ pc[c] = "sleep"
  /\ Attempt(c)
  /\ UNCHANGED <<shared, held, lastErr, outcome, cancelled, rejected>>

\* <-ctx.Done()
StopEarly(c) ==
  /\ \/ pc[c] = "sleep"
     \/ pc[c] = "failed" /\ attempts[c] < MaxAttempts
  /\ cancelled[c]
  /\ Return(c, "cancelled")
  /\ UNCHANGED <<shared, held, attempts, lastErr, cancelled, ghost>>

------------------------------------------------------------------------------
(* getToken, authenticate and clearToken.                                  *)

\* c.mu.Lock(), and c.token is there.
GetCached(c) ==
  /\ pc[c] = "getToken"
  /\ mu = NoCaller
  /\ token # 0
  /\ held' = [held EXCEPT ![c] = token]
  /\ Goto(c, "request")
  /\ UNCHANGED <<shared, attempts, lastErr, outcome, cancelled, ghost>>

\* (mutant of GetMissing) The mutex is not held during authenticate.
GetUnlocked(c) ==
  /\ pc[c] = "getToken"
  /\ token = 0
  /\ Goto(c, "authenticate")
  /\ UNCHANGED <<shared, local, cancelled, ghost>>

\* c.mu.Lock(), and c.token is empty: the mutex stays locked.
GetMissing(c) ==
  /\ pc[c] = "getToken"
  /\ mu = NoCaller
  /\ token = 0
  /\ mu' = c
  /\ Goto(c, "authenticate")
  /\ UNCHANGED <<token, issued, live, local, cancelled, ghost>>

\* The session endpoint opens a session and answers with its token ...
Grant(c) ==
  /\ pc[c] = "authenticate"
  /\ issued' = issued + 1
  /\ live' = live \cup {issued + 1}
  /\ held' = [held EXCEPT ![c] = issued + 1]
  /\ Goto(c, "store")
  /\ UNCHANGED <<mu, token, attempts, lastErr, outcome, cancelled, ghost>>

\* ... which the client caches before it unlocks.
Store(c) ==
  /\ pc[c] = "store"
  /\ token' = held[c]
  /\ mu' = NoCaller
  /\ Goto(c, "request")
  /\ UNCHANGED <<issued, live, local, cancelled, ghost>>

\* (mutant of AuthenticateFails) An early return without the deferred Unlock.
AuthenticateStuck(c) ==
  /\ pc[c] \in {"authenticate", "store"}
  /\ \E err \in AuthErrors : FnFails(c, err)
  /\ UNCHANGED <<shared, held, attempts, outcome, cancelled, ghost>>

\* No answer, another status, or no token in the header.
AuthenticateFails(c) ==
  /\ pc[c] \in {"authenticate", "store"}
  /\ \E err \in AuthErrors : FnFails(c, err)
  /\ mu' = NoCaller
  /\ UNCHANGED <<token, issued, live, held, attempts, outcome, cancelled, ghost>>

\* (mutant of ClearToken) The rejected token stays in the cache.
KeepToken(c) ==
  /\ pc[c] = "clearToken"
  /\ mu = NoCaller
  /\ FnFails(c, "unauthorized")
  /\ UNCHANGED <<shared, held, attempts, outcome, cancelled, ghost>>

\* (mutant of ClearToken) After a 401 fn starts over, uncounted by retry.Do.
ClearTokenRetries(c) ==
  /\ pc[c] = "clearToken"
  /\ mu = NoCaller
  /\ token' = 0
  /\ Goto(c, "getToken")
  /\ UNCHANGED <<mu, issued, live, local, cancelled, ghost>>

\* c.clearToken(): whatever token is cached by now.
ClearToken(c) ==
  /\ pc[c] = "clearToken"
  /\ mu = NoCaller
  /\ token' = 0
  /\ FnFails(c, "unauthorized")
  /\ UNCHANGED <<mu, issued, live, held, attempts, outcome, cancelled, ghost>>

------------------------------------------------------------------------------
(* The request of one attempt.                                             *)

Succeed(c) ==
  /\ pc[c] = "request"
  /\ held[c] \in live
  /\ Return(c, "ok")
  /\ UNCHANGED <<shared, held, attempts, lastErr, cancelled, ghost>>

\* 401: Cloud Director no longer knows the token of this attempt.
Unauthorized(c) ==
  /\ pc[c] = "request"
  /\ held[c] \notin live
  /\ rejected' = [rejected EXCEPT ![c] = @ \cup {held[c]}]
  /\ Goto(c, "clearToken")
  /\ UNCHANGED <<shared, local, cancelled, late>>

\* Of how a request may fail, 401 aside (429, 502, 503, 504, or no APIError at all).
IsRetryable(err) == err # "permanent"

\* Any other failure, the statuses that are not retryable among them.
RequestFails(c) ==
  /\ pc[c] = "request"
  /\ \E err \in Failures : FnFails(c, err)
  /\ UNCHANGED <<shared, held, attempts, outcome, cancelled, ghost>>

------------------------------------------------------------------------------
(* The environment.                                                        *)

\* The HTTP client that sent the request to the handler goes away.
Cancel(c) ==
  /\ pc[c] \notin {"idle", "done"}
  /\ ~cancelled[c]
  /\ cancelled' = [cancelled EXCEPT ![c] = TRUE]
  /\ UNCHANGED <<shared, pc, local, ghost>>

Expire(t) ==
  /\ t \in live
  /\ issued - Cardinality(live) < MaxExpiries
  /\ live' = live \ {t}
  /\ UNCHANGED <<mu, token, issued, pc, local, cancelled, ghost>>

\* Every call has returned.
AllDone == (\A c \in Callers : pc[c] = "done") /\ UNCHANGED vars

Step(c) ==
  \/ Exhausted(c) \/ Sleep(c) \/ Wake(c) \/ StopEarly(c)
  \/ GetCached(c) \/ GetMissing(c) \/ Grant(c) \/ Store(c)
  \/ AuthenticateFails(c) \/ ClearToken(c) \/ Succeed(c) \/ Unauthorized(c) \/ RequestFails(c)

Next == \/ \E c \in Callers : Call(c) \/ Step(c) \/ Cancel(c)
        \/ \E t \in live : Expire(t)
        \/ AllDone

Spec == Init /\ [][Next]_vars

\* A goroutine that can run does; http.Client.Timeout ends every request.
FairSpec == Spec /\ \A c \in Callers : WF_vars(Step(c))

------------------------------------------------------------------------------
\* A token that comes into the cache is the newest there is: two calls that
\* both found the cache empty do not put an older token over a newer one, for
\* getToken keeps the mutex locked through authenticate.
CacheTakesNewest == [][token' \in {token, 0, issued}]_vars

\* retry.go:14, "It stops early if ctx is cancelled": one attempt at most is
\* begun on a dead ctx (when the timer and the cancellation are ready at once).
StopsEarly == \A c \in Callers : late[c] <= 1

\* A call meets a 401 once for each session that has ended, and no more: what it
\* sends next is newer than every token it was refused, however stale the tokens
\* other calls cache and however fresh the ones they clear.
ExpirySurvived ==
  \A c \in Callers : pc[c] = "request" => \A t \in rejected[c] : t < held[c]

\* Whoever waits for c.mu waits for a call that is itself waiting for Cloud
\* Director, and for no lock: an authentication that fails, after however many
\* calls have queued up behind it, leaves none of them waiting (client.go:118-129).
MutexWaitsEnd ==
  \A c \in Callers :
    pc[c] \in {"getToken", "clearToken"} /\ mu # NoCaller
      => \E d \in Callers \ {c} : mu = d /\ pc[d] \in {"authenticate", "store"}

\* How much of a call is left: eight steps at most in each attempt it may begin.
Left(c) ==
  8 * (MaxAttempts - attempts[c])
    + [idle |-> 0, getToken |-> 7, authenticate |-> 6, store |-> 5, request |-> 4,
       clearToken |-> 3, failed |-> 2, sleep |-> 1, done |-> 0][pc[c]]

\* Each step brings its call nearer to its return: a 401, whoever clears and
\* renews the token in between, costs an attempt that retry.Do has counted, so a
\* call makes at most 8 * MaxAttempts steps whatever the others do.
CallsProgress ==
  [][\A c \in Callers :
       Left(c)' \in 0 .. Left(c) - 1 \/ UNCHANGED <<pc[c], attempts[c]>>]_vars

\* An attempt of retry.Do, seen as one call of fn.
Do == INSTANCE RetryDo WITH
  calls  <- attempts,
  phase  <- [c \in Callers |-> CASE pc[c] = "idle" -> "idle"
                                 [] pc[c] = "done" -> "returned"
                                 [] pc[c] \in {"failed", "sleep"} -> "between"
                                 [] OTHER -> "calling"],
  result <- [c \in Callers |-> CASE outcome[c] = "ok" -> "nil"
                                 [] outcome[c] \in {"none", "cancelled"} -> outcome[c]
                                 [] OTHER -> "error"]

\* The helper keeps the promise do relies on (retry.go:12-40), though an attempt is
\* many steps that other calls come between: fn is called again only after a
\* failure, never more than maxAttempts times, a success ends the call, an error
\* comes only from the last attempt, and every call ends.
ImplementsRetryDo == Do!Spec

\* Whoever waits for the mutex, a session or a backoff gets out of it.
CallsReturn == \A c \in Callers : pc[c] # "idle" ~> pc[c] = "done"

------------------------------------------------------------------------------
(* What the comments say, where the code does otherwise.                   *)

\* client.go:187: "Non-retryable: don't retry, return immediately."
NonRetryableReturns ==
  \A c \in Callers : pc[c] = "getToken" => IsRetryable(lastErr[c])
==============================================================================
