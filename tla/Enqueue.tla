------------------------------- MODULE Enqueue -------------------------------
(***************************************************************************)
(* POST /api/v1/script/onboard-org (internal/httpapi): a request is        *)
(* decoded and validated, its organization looked up in Cloud Director,    *)
(* and a river_job row inserted in a transaction; 202 promises the job.    *)
(*                                                                         *)
(* HostBill is external: it sends an order, hears the answer or loses it   *)
(* (it gives up, or the server's WriteTimeout has run out), and may send   *)
(* the order again, at the same time too: request <<o, n>> is the n-th one *)
(* of order o.  A handler whose ctx is dead fails at its next call; that   *)
(* is one of the failures each call may meet.  A body is its class.        *)
(***************************************************************************)
EXTENDS Naturals

CONSTANTS Orders,
          MaxSends,       \* bound: requests for one order
          Bodies,         \* classes of request bodies HostBill may send
          MaxCrashes      \* bound: crashes of the process

ASSUME EnqueueAssumption ==
  /\ Bodies \subseteq {"malformed", "invalid", "valid"}
  /\ MaxSends \in Nat
  /\ MaxCrashes \in Nat

Requests == Orders \X (1 .. MaxSends)

VARIABLES configured, \* vcdClient # nil, since startup
          pc,         \* where the handler of each request is
          body,       \* the class of its body
          status,     \* the status it has written, 0 for none
          inserted,   \* its open transaction holds a river_job row
          jobs,       \* committed river_job rows it has made
          heard,      \* what HostBill knows of the request
          crashes

vars == <<configured, pc, body, status, inserted, jobs, heard, crashes>>
quiet == <<configured, body, crashes>>

\* 500 is not among them: the commit may have been applied.
Refusals == {400, 422, 502, 503}

TypeOK ==
  /\ configured \in BOOLEAN
  /\ pc \in [Requests -> {"unsent", "decode", "client", "lookup", "begin",
                          "insert", "commit", "rollback", "reply", "gone"}]
  /\ body \in [Requests -> {"malformed", "invalid", "valid"}]
  /\ status \in [Requests -> Refusals \cup {0, 202, 500}]
  /\ inserted \in [Requests -> BOOLEAN]
  /\ jobs \in [Requests -> {0, 1}]
  /\ heard \in [Requests -> {"unsent", "waiting", "accepted", "refused", "failed", "lost"}]
  /\ crashes \in 0 .. MaxCrashes

Init ==
  /\ configured \in BOOLEAN
  /\ pc = [r \in Requests |-> "unsent"]
  /\ body = [r \in Requests |-> "valid"]
  /\ status = [r \in Requests |-> 0]
  /\ inserted = [r \in Requests |-> FALSE]
  /\ jobs = [r \in Requests |-> 0]
  /\ heard = [r \in Requests |-> "unsent"]
  /\ crashes = 0

At(r, label) == pc[r] = label

Goto(r, label) == pc' = [pc EXCEPT ![r] = label]

\* The first WriteHeader is the one that counts.
Encode(r, code) ==
  status' = [status EXCEPT ![r] = IF @ = 0 THEN code ELSE @]

------------------------------------------------------------------------------
\* HostBill, or its operator, sends an order (again).
Send(r) ==
  /\ At(r, "unsent")
  /\ \E b \in Bodies : body' = [body EXCEPT ![r] = b]
  /\ heard' = [heard EXCEPT ![r] = "waiting"]
  /\ Goto(r, "decode")
  /\ UNCHANGED <<configured, status, inserted, jobs, crashes>>

\* An error answer and the return after it.
Answer(r, code) ==
  /\ Encode(r, code)
  /\ Goto(r, "reply")
  /\ UNCHANGED <<quiet, inserted, jobs, heard>>

\* The handler goes on to its next call.
Proceed(r, label) ==
  /\ Goto(r, label)
  /\ UNCHANGED <<quiet, status, inserted, jobs, heard>>

Decodes(b) == b # "malformed"

Valid(b) == b # "invalid"

\* (mutant of DecodeValid) The return after the 400 is forgotten: the handler goes
\* on with what was decoded before the error.
DecodeFallsThrough(r) ==
  /\ At(r, "decode")
  /\ \/ /\ ~Decodes(body[r])
        /\ Encode(r, 400)
        /\ Goto(r, "client")
        /\ UNCHANGED <<quiet, inserted, jobs, heard>>
     \/ Decodes(body[r]) /\ ~Valid(body[r]) /\ Answer(r, 422)
     \/ Decodes(body[r]) /\ Valid(body[r]) /\ Proceed(r, "client")

\* decodeValid: 400 for what is not JSON, 422 for what Valid finds wrong.
DecodeValid(r) ==
  /\ At(r, "decode")
  /\ \/ ~Decodes(body[r]) /\ Answer(r, 400)
     \/ Decodes(body[r]) /\ ~Valid(body[r]) /\ Answer(r, 422)
     \/ Decodes(body[r]) /\ Valid(body[r]) /\ Proceed(r, "client")

NoClient(r) == At(r, "client") /\ ~configured /\ Answer(r, 503)

HasClient(r) == At(r, "client") /\ configured /\ Proceed(r, "lookup")

\* The organization is found; or no answer, an error, none of that name.
Lookup(r) == At(r, "lookup") /\ (Proceed(r, "begin") \/ Answer(r, 502))

Begin(r) == At(r, "begin") /\ (Proceed(r, "insert") \/ Answer(r, 500))

\* (mutant of InsertTx) A unit of work that answers before it commits.
InsertAnswers(r) ==
  /\ At(r, "insert")
  /\ inserted' = [inserted EXCEPT ![r] = TRUE]
  /\ Encode(r, 202)
  /\ Goto(r, "commit")
  /\ UNCHANGED <<quiet, jobs, heard>>

\* riverClient.InsertTx, with no options of its own or of the job's kind.
InsertTx(r) ==
  /\ At(r, "insert")
  /\ inserted' = [inserted EXCEPT ![r] = TRUE]
  /\ Goto(r, "commit")
  /\ UNCHANGED <<quiet, status, jobs, heard>>

\* An error of InsertTx, or of Commit with nothing applied.
UnitFails(r) ==
  /\ pc[r] \in {"insert", "commit"}
  /\ Encode(r, 500)
  /\ Goto(r, "rollback")
  /\ UNCHANGED <<quiet, inserted, jobs, heard>>

\* (mutant of Commit) The unit of work is tried again after an error.
CommitRetried(r) ==
  /\ At(r, "commit")
  /\ jobs' = [jobs EXCEPT ![r] = @ + 1]
  /\ \/ UNCHANGED <<inserted, status, pc>>
     \/ /\ inserted' = [inserted EXCEPT ![r] = FALSE]
        /\ Encode(r, 202)
        /\ Goto(r, "reply")
  /\ UNCHANGED <<quiet, heard>>

\* The job is durable; the handler learns it, or (500) it does not.
Commit(r) ==
  /\ At(r, "commit")
  /\ jobs' = [jobs EXCEPT ![r] = @ + 1]
  /\ inserted' = [inserted EXCEPT ![r] = FALSE]
  /\ \E code \in {202, 500} : Encode(r, code)
  /\ Goto(r, "reply")
  /\ UNCHANGED <<quiet, heard>>

\* defer tx.Rollback
Rollback(r) ==
  /\ At(r, "rollback")
  /\ inserted' = [inserted EXCEPT ![r] = FALSE]
  /\ Goto(r, "reply")
  /\ UNCHANGED <<quiet, status, jobs, heard>>

------------------------------------------------------------------------------
\* What an answer says: the order was taken, was not, or may have been.
Says(code) == IF code = 202 THEN "accepted"
              ELSE IF code \in Refusals THEN "refused" ELSE "failed"

\* The handler returns; HostBill hears the answer if it still waits for it.
Reply(r) ==
  /\ At(r, "reply")
  /\ heard' = [heard EXCEPT ![r] = IF @ = "waiting" THEN Says(status[r]) ELSE @]
  /\ Goto(r, "gone")
  /\ UNCHANGED <<quiet, status, inserted, jobs>>

\* HostBill gives up, or the answer will come after the WriteTimeout.
Disconnect(r) ==
  /\ heard[r] = "waiting"
  /\ heard' = [heard EXCEPT ![r] = "lost"]
  /\ UNCHANGED <<quiet, pc, status, inserted, jobs>>

\* The process dies with all its handlers; Postgres aborts what was open.
Crash ==
  /\ crashes < MaxCrashes
  /\ crashes' = crashes + 1
  /\ pc' = [r \in Requests |-> IF At(r, "unsent") THEN "unsent" ELSE "gone"]
  /\ inserted' = [r \in Requests |-> FALSE]
  /\ heard' = [r \in Requests |-> IF heard[r] = "waiting" THEN "lost" ELSE heard[r]]
  /\ UNCHANGED <<configured, body, status, jobs>>

Handle(r) == \/ DecodeValid(r) \/ NoClient(r) \/ HasClient(r) \/ Lookup(r) \/ Begin(r)
             \/ InsertTx(r) \/ UnitFails(r) \/ Commit(r) \/ Rollback(r) \/ Reply(r)

Serve == (\E r \in Requests : Send(r) \/ Handle(r) \/ Disconnect(r)) \/ Crash

\* Every request has been sent and served.
Served == (\A r \in Requests : At(r, "gone")) /\ UNCHANGED vars

Next == Serve \/ Served

Spec == Init /\ [][Next]_vars

------------------------------------------------------------------------------
\* A 202 that HostBill has heard stands for a job of that request, which a crash
\* cannot take back.
AcceptedAreQueued == \A r \in Requests : heard[r] = "accepted" => jobs[r] = 1

\* A request that HostBill has heard refused (400, 422, 502, 503) has made no job
\* and makes none later: only those that answered 500, or whose answer was lost,
\* leave it in doubt.
RefusedNotQueued == \A r \in Requests : heard[r] = "refused" => jobs[r] = 0
==============================================================================
