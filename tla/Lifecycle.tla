------------------------------ MODULE Lifecycle ------------------------------
(***************************************************************************)
(* The life of one process (run in cmd/hbsqueue/main.go): startup, the     *)
(* HTTP server and River side by side on one connection pool, and the      *)
(* shutdown after a signal or a failure of the server.                     *)
(*                                                                         *)
(* A request and a job each hold a connection while their transaction is   *)
(* open (or their Ping under way), and River takes one for each of its own *)
(* queries; who finds none free waits in a queue.  pgxpool's Close refuses *)
(* new acquisitions and waits for the connections in use; http.Server's    *)
(* Shutdown stops accepting and waits for the requests under way; River's  *)
(* Stop stops fetching and waits for the jobs under way and for their      *)
(* outcomes to be written.  The last two give up when shutdownCtx expires. *)
(* River runs jobs under the ctx that Start was given, the one the signal  *)
(* cancels.                                                                *)
(* The connection River listens on is its own, out of the pool's count.    *)
(* The debug server, which uses neither the pool nor River, is left out.   *)
(***************************************************************************)
EXTENDS Naturals, FiniteSets

CONSTANTS Requests, Jobs,
          MaxConns,    \* of the pool
          MaxWorkers   \* of River's queue

ASSUME LifecycleAssumption == MaxConns \in Nat \ {0} /\ MaxWorkers \in Nat \ {0}

VARIABLES phase,      \* where run is
          signalled,  \* SIGINT or SIGTERM has come: ctx is done
          expired,    \* the 30 seconds of shutdownCtx are over
          pool,       \* the connection pool
          http,       \* the HTTP server
          river,      \* the River client
          req,        \* each request
          work        \* each job this process may fetch

vars == <<phase, signalled, expired, pool, http, river, req, work>>

TypeOK ==
  /\ phase = "exited" => pool \in {"none", "closed"}
  /\ phase \in {"newPool", "migrateRiver", "migrateUp", "riverStart", "select",
                "httpShutdown", "riverStop", "poolClose", "exited"}
  /\ signalled \in BOOLEAN
  /\ expired \in BOOLEAN
  /\ pool \in {"none", "open", "closing", "closed"}
  /\ http \in {"off", "starting", "listening", "failed", "closed"}
  /\ river \in {"off", "on", "stopping", "stopped"}
  /\ req \in [Requests -> {"none", "active", "tx", "answered", "refused", "killed"}]
  /\ work \in [Jobs -> {"none", "fetched", "working", "returned", "cut", "recorded", "lost"}]

Init ==
  /\ phase = "newPool"
  /\ signalled = FALSE
  /\ expired = FALSE
  /\ pool = "none"
  /\ http = "off"
  /\ river = "off"
  /\ req = [r \in Requests |-> "none"]
  /\ work = [j \in Jobs |-> "none"]

------------------------------------------------------------------------------
(* Startup.  Each step may fail, on its own or because ctx is done.        *)

NewPool ==
  /\ phase = "newPool"
  /\ \/ phase' = "migrateRiver" /\ pool' = "open"
     \/ phase' = "exited" /\ UNCHANGED pool
  /\ UNCHANGED <<signalled, expired, http, river, req, work>>

MigrateRiver ==
  /\ phase = "migrateRiver"
  /\ phase' \in {"migrateUp", "poolClose"}
  /\ UNCHANGED <<signalled, expired, pool, http, river, req, work>>

MigrateUp ==
  /\ phase = "migrateUp"
  /\ phase' \in {"riverStart", "poolClose"}
  /\ UNCHANGED <<signalled, expired, pool, http, river, req, work>>

\* (mutant of RiverStart) os.Exit in the place of a return: no deferred Close.
RiverStartFatal ==
  /\ phase = "riverStart"
  /\ \/ phase' = "select" /\ river' = "on" /\ http' = "starting"
     \/ phase' = "exited" /\ UNCHANGED <<river, http>>
  /\ UNCHANGED <<signalled, expired, pool, req, work>>

\* River starts, and then the two listeners in goroutines of their own.
RiverStart ==
  /\ phase = "riverStart"
  /\ \/ phase' = "select" /\ river' = "on" /\ http' = "starting"
     \/ phase' = "poolClose" /\ UNCHANGED <<river, http>>
  /\ UNCHANGED <<signalled, expired, pool, req, work>>

\* httpServer.ListenAndServe binds the port, or sends its error to serverErr.
Listen ==
  /\ \/ http = "starting" /\ http' \in {"listening", "failed"}
     \/ http = "listening" /\ http' = "failed"
  /\ phase # "exited"
  /\ UNCHANGED <<phase, signalled, expired, pool, river, req, work>>

Signal ==
  /\ ~signalled
  /\ phase # "exited"
  /\ signalled' = TRUE
  /\ UNCHANGED <<phase, expired, pool, http, river, req, work>>

------------------------------------------------------------------------------
(* What the process is there for.                                          *)

\* (mutant of Holders) Without the deferred Rollback, a transaction that was cut
\* short keeps its connection.
HoldersLeak == {r \in Requests : req[r] = "tx"}
                 \cup {j \in Jobs : work[j] \in {"working", "cut"}}

\* Who holds a connection of the pool.
Holders == {r \in Requests : req[r] = "tx"} \cup {j \in Jobs : work[j] = "working"}

Free == Cardinality(Holders) < MaxConns

Busy == Cardinality({j \in Jobs : work[j] \in {"fetched", "working"}})

Accept(r) ==
  /\ http = "listening"
  /\ req[r] = "none"
  /\ req' = [req EXCEPT ![r] = "active"]
  /\ UNCHANGED <<phase, signalled, expired, pool, http, river, work>>

\* The handler answers with no connection: the order is not valid, the lookup
\* fails, or the client leaves while the handler waits, and its ctx is done.
AnswerEarly(r) ==
  /\ req[r] = "active"
  /\ phase # "exited"
  /\ req' = [req EXCEPT ![r] = "answered"]
  /\ UNCHANGED <<phase, signalled, expired, pool, http, river, work>>

\* The handler's pool.Begin, or Ping, refused once the pool is being closed.
RequestTx(r) ==
  /\ req[r] = "active"
  /\ phase # "exited"
  /\ Free
  /\ req' = [req EXCEPT ![r] = IF pool = "open" THEN "tx" ELSE "refused"]
  /\ UNCHANGED <<phase, signalled, expired, pool, http, river, work>>

\* (mutant of Answer) Insert in the place of InsertTx: a connection of its own.
AnswerInsert(r) ==
  /\ req[r] = "tx"
  /\ phase # "exited"
  /\ Free
  /\ req' = [req EXCEPT ![r] = "answered"]
  /\ UNCHANGED <<phase, signalled, expired, pool, http, river, work>>

Answer(r) ==
  /\ req[r] = "tx"
  /\ phase # "exited"
  /\ req' = [req EXCEPT ![r] = "answered"]
  /\ UNCHANGED <<phase, signalled, expired, pool, http, river, work>>

\* River fetches a job when a worker is free.
FetchJob(j) ==
  /\ river = "on"
  /\ ~signalled
  /\ pool = "open"
  /\ Free
  /\ Busy < MaxWorkers
  /\ work[j] = "none"
  /\ work' = [work EXCEPT ![j] = "fetched"]
  /\ UNCHANGED <<phase, signalled, expired, pool, http, river, req>>

\* Work's pool.Begin: it waits for a connection, and holds it until it returns.
BeginWork(j) ==
  /\ work[j] = "fetched"
  /\ phase # "exited"
  /\ \/ Free /\ work' = [work EXCEPT ![j] = IF pool = "open" THEN "working" ELSE "returned"]
     \/ signalled /\ work' = [work EXCEPT ![j] = "cut"]
  /\ UNCHANGED <<phase, signalled, expired, pool, http, river, req>>

\* River's time for the job is over before Work has got its connection.
TimeOut(j) ==
  /\ work[j] = "fetched"
  /\ phase # "exited"
  /\ work' = [work EXCEPT ![j] = "returned"]
  /\ UNCHANGED <<phase, signalled, expired, pool, http, river, req>>

\* Work returns: at its end, or because the job's ctx is done.
WorkReturns(j) ==
  /\ work[j] = "working"
  /\ phase # "exited"
  /\ \/ work' = [work EXCEPT ![j] = "returned"]
     \/ signalled /\ work' = [work EXCEPT ![j] = "cut"]
  /\ UNCHANGED <<phase, signalled, expired, pool, http, river, req>>

\* River writes the job's outcome, through the pool.
RecordJob(j) ==
  /\ work[j] \in {"returned", "cut"}
  /\ phase # "exited"
  /\ Free
  /\ work' = [work EXCEPT ![j] = IF pool = "open" THEN "recorded" ELSE "lost"]
  /\ UNCHANGED <<phase, signalled, expired, pool, http, river, req>>

------------------------------------------------------------------------------
(* Shutdown.                                                               *)

\* case <-ctx.Done(): the listener is closed as the first thing.
BeginShutdown ==
  /\ phase = "select"
  /\ signalled
  /\ phase' = "httpShutdown"
  /\ http' = IF http = "failed" THEN "failed" ELSE "closed"
  /\ UNCHANGED <<signalled, expired, pool, river, req, work>>

\* (mutant of ServerError) The error is logged, as the debug server's is.
ServerErrorLogged ==
  /\ phase = "select"
  /\ http = "failed"
  /\ UNCHANGED vars

\* case err := <-serverErr: run returns, with the deferred pool.Close alone.
ServerError ==
  /\ phase = "select"
  /\ http = "failed"
  /\ phase' = "poolClose"
  /\ UNCHANGED <<signalled, expired, pool, http, river, req, work>>

Expire ==
  /\ phase \in {"httpShutdown", "riverStop"}
  /\ ~expired
  /\ expired' = TRUE
  /\ UNCHANGED <<phase, signalled, pool, http, river, req, work>>

\* (mutant of HttpShutdown) Close in the place of Shutdown: nothing is drained.
HttpClose ==
  /\ phase = "httpShutdown"
  /\ phase' = "riverStop"
  /\ river' = "stopping"
  /\ UNCHANGED <<signalled, expired, pool, http, req, work>>

\* httpServer.Shutdown returns; riverClient.Stop begins.
HttpShutdown ==
  /\ phase = "httpShutdown"
  /\ expired \/ \A r \in Requests : req[r] \notin {"active", "tx"}
  /\ phase' = "riverStop"
  /\ river' = "stopping"
  /\ UNCHANGED <<signalled, expired, pool, http, req, work>>

\* (mutant of RiverStop) Stop is not waited for.
RiverStopAsync ==
  /\ phase = "riverStop"
  /\ phase' = "poolClose"
  /\ UNCHANGED <<signalled, expired, pool, http, river, req, work>>

\* riverClient.Stop returns, and run with it.
RiverStop ==
  /\ phase = "riverStop"
  /\ \/ /\ \A j \in Jobs : work[j] \in {"none", "recorded"}
        /\ river' = "stopped"
     \/ expired /\ UNCHANGED river
  /\ phase' = "poolClose"
  /\ UNCHANGED <<signalled, expired, pool, http, req, work>>

\* defer pool.Close()
PoolClose ==
  /\ phase = "poolClose"
  /\ pool = "open"
  /\ pool' = "closing"
  /\ UNCHANGED <<phase, signalled, expired, http, river, req, work>>

\* The last connection is back; main returns and the goroutines end with it.
Exit ==
  /\ phase = "poolClose"
  /\ pool = "closing"
  /\ Holders = {}
  /\ pool' = "closed"
  /\ phase' = "exited"
  /\ req' = [r \in Requests |-> IF req[r] = "active" THEN "killed" ELSE req[r]]
  /\ work' = [j \in Jobs |-> IF work[j] \in {"fetched", "returned", "cut"} THEN "lost"
                                ELSE work[j]]
  /\ UNCHANGED <<signalled, expired, http, river>>

------------------------------------------------------------------------------
Gone == phase = "exited" /\ UNCHANGED vars

Run == \/ NewPool \/ MigrateRiver \/ MigrateUp \/ RiverStart
       \/ BeginShutdown \/ ServerError \/ HttpShutdown \/ RiverStop
       \/ PoolClose \/ Exit

ServeRequest(r) == RequestTx(r) \/ Answer(r)

RunJob(j) == BeginWork(j) \/ WorkReturns(j) \/ RecordJob(j)

Next == \/ Run \/ Listen \/ Signal \/ Expire \/ Gone
        \/ \E r \in Requests : Accept(r) \/ AnswerEarly(r) \/ ServeRequest(r)
        \/ \E j \in Jobs : FetchJob(j) \/ TimeOut(j) \/ RunJob(j)

Spec == Init /\ [][Next]_vars

\* run goes on whenever it can; who holds a connection gives it back (each has a
\* timeout: the server's, the HTTP client's, River's for jobs), and the pool
\* serves those who wait for one in the order they came.  That a client leaves or
\* River's timeout ends the wait is never required.
FairSpec == /\ Spec
            /\ WF_vars(Run)
            /\ \A r \in Requests : SF_vars(RequestTx(r)) /\ WF_vars(Answer(r))
            /\ \A j \in Jobs : /\ SF_vars(BeginWork(j)) /\ SF_vars(RecordJob(j))
                               /\ WF_vars(WorkReturns(j))

------------------------------------------------------------------------------
\* A shutdown by signal, within its 30 seconds, breaks no request that was
\* accepted: the pool is not closed under a handler that still needs it.
AcceptedRequestsServed ==
  \A r \in Requests :
    req[r] \in {"refused", "killed"} => expired \/ http = "failed"

\* A shutdown by signal, within its 30 seconds, leaves no job behind that ran
\* and whose outcome River could not write.
OutcomesRecorded ==
  \A j \in Jobs : work[j] = "lost" => expired \/ http = "failed"

\* A signal, or the loss of the HTTP server, ends the process.
Exits == signalled \/ http = "failed" ~> phase = "exited"

\* With as many workers as connections, and the handlers, the probes and River's
\* own queries on the same pool, nobody waits for a connection for ever: no one
\* asks for a second while holding one, and each is given back (db.go:23,
\* river.go:21).  Every accepted request has its end ...
RequestsEnd == \A r \in Requests : req[r] = "active" ~> req[r] \notin {"active", "tx"}

\* ... and every fetched job has its outcome written, or loses it at the exit.
JobsSettle == \A j \in Jobs : work[j] = "fetched" ~> work[j] \in {"recorded", "lost"}

------------------------------------------------------------------------------
(* What the comments say, where the code does otherwise.                   *)

\* main.go:139: "River - stop fetching jobs, let active jobs finish".
ActiveJobsFinish == \A j \in Jobs : work[j] = "cut" => expired

\* main.go:140: "Pool - closed via defer above after everything else is done".
PoolClosedLast ==
  pool \in {"closing", "closed"} => river \in {"off", "stopped"} \/ expired
==============================================================================
