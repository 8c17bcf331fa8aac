# Verification of hbs-queue

TLA+ models of the HostBill Queue Service, checked with TLC on small instances
and, in their safety properties, proved with TLAPS for every size. Paths below
are relative to the repository (`src/`); `PROJECT.json` maps each definition to
the lines it models.

## 1. The system

| component | state | operations | talks to |
|---|---|---|---|
| onboard-org endpoint (`internal/httpapi/handle_onboard_org.go`) | an open transaction per request | decode and validate, VCD lookup, Begin, InsertTx, Commit, answer | HostBill, VCD client, River, pool |
| VCD client (`internal/clients/vcd`) | cached token, mutex | `do`, `getToken`, `authenticate`, `clearToken` | Cloud Director, retry helper; shared by all handlers |
| retry helper (`internal/retry`) | attempts, last error | `Do` | the caller's ctx |
| River, the job queue (external; configured in `internal/db/river.go`) | `river_job` rows | fetch, complete, retry, discard, rescue | Postgres, the worker |
| onboard_org worker (`internal/jobs`) | an open transaction per execution | `Work` | River, pool, workflow engine |
| workflow engine (`internal/workflow`) | `workflow_state` row, the `WorkflowState` in memory | `Runner.Run`, `Create`, `Get`, `UpdateStep` | Postgres, the steps |
| process (`cmd/hbsqueue/main.go`) | pool, HTTP server, River client, ctx | startup, serve, shutdown | all of the above |
| connection pool (`internal/db/db.go`) | 10 connections | Acquire, Release, Close | handlers, workers, River |
| HTTP middleware, auth, routes (`internal/httpapi/middleware.go`, `server.go`, `routes.go`) | per request: ID, status recorded, body | `requestID`, `devCORS`, `requestLogger`, `panicRecovery`, `apiKeyAuth`, `webhookAuth` | handlers |
| `/ready`, `/health`, echo; hook stubs (501) | none | Ping, answer | pool |
| migrations, configuration, debug dashboard | none at run time | | Postgres, environment |

An order travels: HostBill → endpoint (looks its organization up in VCD, puts a
`river_job` row in, answers 202) → River → worker → `Runner.Run` over seven
steps (stubs today) → one COMMIT → River marks the job completed.

What is hard about it:

* *concurrency*: handlers share one VCD client; two executions of one job can
  overlap after a rescue; requests, jobs and the shutdown share the pool;
* *failure*: SQL errors, lost sessions, crashes, panics and COMMITs whose answer
  is lost, at every statement; the job and its workflow live in two transactions;
* *ordering*: resume points over retries, the steps of the shutdown, a 401
  that arrives when the token has been renewed;
* *timeouts*: a ctx cancelled at any call, the 30 seconds of the shutdown, the
  backoff of retries, HostBill sending an order again.

What makes each part correct:

* engine and worker: no partial workflow is ever visible or resumed from, steps
  run in order with none left out, no execution goes on to one when the workflow
  is durable, two executions exclude each other while their Postgres sessions
  last, a completed job has its workflow, every job is closed in the end;
* VCD client: the newest token is the one cached, an expired session costs an
  attempt and no more, cancelled calls stop, every call returns;
* endpoint: a 202 stands for a durable job, a refusal for none; with the worker
  behind it, every accepted order is seen to its end, whatever is lost on the way;
* retry helper: an error means that every attempt failed, `nil` that one did not;
* HTTP middleware: no handler runs for who is not entitled to it, every request is
  answered and logged once as it was answered, a handler gets the body whole;
* pool: nobody waits for a connection for ever, though the workers alone can hold
  them all;
* process: within its 30 seconds a shutdown cuts off no accepted request and
  loses no outcome of a job; it always ends.

## 2. The modules

| module | models | checked by | proved |
|---|---|---|---|
| `WorkflowState` | the row and `Run`'s changes to the state it holds | through `WorkflowRunner` | lemmas |
| `WorkflowRunner` | River's executor, `Work`, `Run`, the repository, faults | `MCWorkflowRunner` | `WorkflowRunnerProofs` |
| `AtomicWorkflow` | the worker's promise: steps done in order, recorded once, closed accordingly | refined by `WorkflowRunner` | the safety part |
| `VCDClient` | `Client.do` under `retry.Do`, several callers at once | itself | `VCDClientProofs` |
| `RetryDo` | the promise of `retry.Do` to its caller | refined by `VCDClient` | the safety part |
| `Enqueue` | `handleOnboardOrg`, HostBill resending, crashes | through `Onboarding` | `EnqueueProofs` |
| `Onboarding` | `Enqueue` and `AtomicWorkflow` over one job table | itself | `OnboardingProofs` |
| `OrderService` | the promise of the whole service to HostBill | refined by `Onboarding` | the safety part |
| `HbsQueue` | `Enqueue` and `WorkflowRunner`, both in full, over one job table | `MCHbsQueue` | `HbsQueueProofs` |
| `HttpPipeline` | the middleware, routes, both kinds of authentication, every handler's statuses | itself | `HttpPipelineProofs` |
| `Lifecycle` | `run`: startup, serving on one pool, shutdown | itself | `LifecycleProofs` |

How they compose: `WorkflowRunner` implements `AtomicWorkflow`, and `Onboarding`
takes `AtomicWorkflow` in its place, next to `Enqueue`, to implement
`OrderService`. So the details of transactions and executors are checked once
and the way of an order from HostBill to the durable workflow is still checked
whole. `HbsQueue` is where the replacement is justified: it puts `Enqueue` next
to `WorkflowRunner` itself, and `HbsQueueProofs` shows that this implements
`Onboarding`, and `OrderService`. In the same manner `Enqueue` relies on what
`VCDClient` shows (each lookup returns), and `HttpPipeline` leaves to `Enqueue`
what a handler does between reading its body and answering.

### WorkflowRunner

One action is one SQL statement, one call of a step, or one move of River.
`rows[j]` is what is committed in `workflow_state` for job `j`; `tx[w]` is the
row that executor `w`'s open transaction has written (`NoRow` if none);
`state[w]` is the `*WorkflowState` in `Run`; `pc[w]` names the statement that is
next; `result[w]` is what `Work` will return; `lost[w]` says that the Postgres
session of its transaction has ended. The row holds `current_step`, the
status, whether there is an error text, and which steps have put an output in
the JSONB accumulator; the columns that never change for a job are left out.

| code | action |
|---|---|
| `pool.Begin`, `argsToData` | `Begin` |
| `repo.Get`, and the new state on `ErrNotFound` | `Get` |
| `repo.Create`, its unique violation | `Create`, `CreateConflict` |
| status = running | `Mark` |
| `step.Run`: nil, error, panic | `StepOK`, `StepError`, `StepPanic` |
| status = failed | `Fail` |
| `CurrentStep = i + 1` | `AdvanceStep` |
| status = completed | `Finish` |
| `tx.Commit`, deferred `tx.Rollback` | `Commit`, `Rollback` |
| any of these statements, on a session that is gone | `Disconnected` |
| River after `Work` | `Report`, `Reschedule`, `Rescue` |

`Create` and `Mark` are enabled only if no other open transaction has written
the job's row: Postgres makes the second INSERT wait on the UNIQUE index and the
second UPDATE on the row lock. Later statements of the same transaction already
hold the lock, as long as its session lasts. At READ COMMITTED, `Get` sees
committed rows. River completes, retries or discards a job only while it is
still marked running, and an executor that was overtaken counts for the attempt
that is on. Faults share the bound `MaxFaults`: `DBError` (any statement, or a
cancelled ctx at it), `SessionLost`, `CommitLost`, `Crash`, `RescueAlive`.

`SessionLost` may come anywhere in a transaction, `step.Run` included
(`runner.go:89`): a restart or failover of Postgres, or a connection that drops.
The locks are free at once, and the executor does not know. A step that is under
way runs to its end; the next statement fails (`Disconnected`). A failing statement
frees the locks too: at once, when it is Postgres that reports the error, or when
Postgres sees that pgx has closed the connection, here no later than `Rollback`.
How long Postgres may take to see a dead connection is left out: it lengthens a wait
for the lock, and lets nobody in meanwhile.

Each executor stands for a process of its own, so that one can crash while
another goes on; several in one process behave alike.

`IInv` says what an executor knows at each `pc`, that at most one transaction
has written a job's row, and that durable rows are final rows. What it says of the
executor's own row holds until its session is lost (`ThinksItOwns`). So two
executions of a job may have steps running at once, and `StepsExclusive` says when:
only if one of them has lost its session. `NoStepAfterDurable` says that such an
orphan is in its last step: it goes on to none once the workflow is durable, nor
(`Disconnected`) at all. The steps to come must bear that one overlap, a reason more
for `runner.go:18` to ask that they be idempotent. `AtomicWorkflow`
hides all of it: `done` is the history variable `advanced`, `recorded` is the
existence of a committed row, `closed` and `tries` are River's columns.

### VCDClient and RetryDo

Callers are goroutines inside `Client.do`. `mu` is the mutex, `token` the cached
token as the number in order of issue, `live` the tokens Cloud Director accepts.
`getToken` is three steps (lock, the answer to the session request, store and
unlock), so that calls and expiries come between them. An answer is its class;
any error goes to `retry.Do`, which treats all alike. Cancellation may come at
any time; it makes a running request fail (`Failures`, `AuthErrors`) and ends a
backoff, but when the timer is ready too, Go's `select` may take either case.

`RetryDo` knows nothing of tokens or errors: `fn` is called until it succeeds,
`MaxAttempts` times at most; `nil` comes from a success only, an error after the
last attempt only, and only the wait between two attempts may be cut short.
`ImplementsRetryDo` maps the phases of a call onto "calling" and "between".

### Enqueue, Onboarding, OrderService

`Enqueue` has one action per call of the handler that can fail; every call may
fail, `Commit` also with its effect applied (the job is durable and the answer
is 500). The first status written is the one sent. Whether there is a VCD client
is fixed at startup (`configured`). HostBill sends an order up to `MaxSends`
times, concurrently too. `Disconnect` stands for a client that gives up and for
the server's WriteTimeout: the handler goes on.

`Onboarding` adds the worker behind the table: `Visible` says that River sees a
row when its transaction is committed, `Drive` is River (try, complete, give
up), `Work` the worker. A job has the name of the request that made it, `jobs`
counts its rows. `OrderService` has two variables, what HostBill knows of a
request and what has become of its job, and the refinement maps to them `heard`
and `Fate`. A job River has given up may still become durable: the rescuer can
give up an execution that is only slow.

### HbsQueue

A step of the service is one of the endpoint (`Endpoint!Serve`) or one of the worker
(`Work`), never both: they share committed rows and nothing else. `queued` is the
number of `river_job` rows a request has made; `jobState` and `attempt` are the
columns River keeps in them. `Work` is `Next` of the worker with the one condition
that the composition adds: River changes no row that is not there. The process of
the endpoint may run executors too; when it dies, each executor dies by a `Crash`
of its own, at the same moment or later, which the other parts cannot tell apart.
`Settled` is the end of the system: all handlers gone, all executors idle and
every job in the table closed.

### HttpPipeline

One request walks through `Chain`, the order in which `NewServer` wraps the
handlers: `depth` is the layer it is at, `flow` whether it is being called,
returns or panics. A layer that answers returns without calling the next. `sent`
is the status of the answer, `wrapped` the one `statusWriter` has recorded (the
last one set, where the client gets the first), `stream` whether the body is
still there to read. The configuration is chosen at the start: `ENV`, an API key
or none, any subset of the hooks' secrets. HMAC is abstracted to whose secret
signed this timestamp and this body. A handler is the set of statuses it may
answer with; it may panic in what it calls, before its answer, and none of them
does anything after it that could.

### Lifecycle

`phase` is where `run` is. A request or a job that has a transaction (or a Ping)
open holds one of `MaxConns` connections (`Holders`), River's own queries need a
free one for a moment, and at most `MaxWorkers` jobs are under way. A worker
waits for its connection as `fetched` (until it has one, the signal cancels it, or
River's timeout for jobs does), and holds it as `working` for the whole
workflow. `Shutdown` and `Stop` return when what they wait for is over or the
shared 30 seconds are (`Expire`). `pool.Close` refuses new connections and waits
for those in use, and the process exits after it. River's outcome of a job needs
the pool: after Close has begun it is lost. The connection River listens on is
outside the pool's count, as River hijacks it.

## 3. The runs

| run | bounds | distinct states | shows |
|---|---|---|---|
| `RunnerSafety` | 2 jobs, 2 executors, 3 steps (first writes output), 3 attempts, 2 faults, all outcomes | 1.6 M | `IInv`, `DurableRowComplete`, `CompletedJobDurable`, `StepsExclusive`, `NoStepAfterDurable`, `RowWaitsEnd` |
| `RunnerRefinement` | 2 jobs, 2 executors, 2 steps, 2 attempts, 2 faults; ok, error, panic | 536 k | `ImplementsAtomicWorkflow`, `JobsClose`, `WorkflowsFinish` |
| `Client` | 2 callers, 3 attempts, 1 expiry, transient and auth errors | 384 k | `TypeOK`, `StopsEarly`, `ExpirySurvived`, `CacheTakesNewest`, `MutexWaitsEnd`, `CallsProgress`, `CallsReturn`, `ImplementsRetryDo` |
| `Onboarding` | 1 order sent twice, every class of body, 1 crash, VCD client or none, 2 steps, 2 attempts | 51 k | `TypeOK`, `AcceptedAreQueued`, `RefusedNotQueued`, `ImplementsOrderService` |
| `HttpPipeline` | 2 of the hooks, every configuration and request | 159 k | `TypeOK`, `HandlersGuarded`, `LoggedAsAnswered`, `BodyWhole` |
| `Lifecycle` | 2 requests, 2 jobs, 2 connections, 2 workers | 13 k | `TypeOK`, `AcceptedRequestsServed`, `OutcomesRecorded`, `Exits`, `RequestsEnd`, `JobsSettle` |

Why the bounds are enough:

* *worker*: the conflicts are between two executions of one job (two executors)
  while another job is under way; a lost COMMIT, the retry that finds the row and
  a crash in it take two faults and three attempts, and so do a session lost in a
  step and the rescue that lets another execution in beside it; three steps give a first, a
  middle and a last one.
* *client*: the calls interact through one cache; with two callers and an expiry
  one holds a stale token while the other has renewed it, and clears the fresh
  one. `client.go` gives 3 to `retry.Do`. Permanent and transient errors take the
  same way (`DocNonRetryable` has the permanent one).
* *endpoint and queue*: requests of different orders share the process, its
  crashes and nothing else; two requests of one order are concurrent or one after
  the other, and either may be accepted, refused or left in doubt.
* *pipeline*: one hook is tried with the secret of another; five are no
  different. Requests share only the configuration.
* *process*: the code has ten connections and ten workers; two and two keep
  that ratio, so that the workers alone can hold every connection while two
  requests and River's own queries wait.

The theorems of section 4 lift these bounds for all safety properties.

`HbsQueue` multiplies the states of its two parts, so that only its smallest
instances can be exhausted. What is claimed of it is proved; `DocDedup` runs it from
the first request to the second COMMIT of a workflow.

Fairness. `WorkflowRunner`: executors go on (weakly fair: a lock they wait for
is freed when its transaction ends), and River's fetch, scheduler and rescuer
run; no fault is ever required. `VCDClient`: a goroutine that can run does, and
`http.Client.Timeout` (30 s) ends every request; `Cancel` and `Expire` are never
required. A call that waits for the mutex needs no strong fairness: every holder
ends its call, so from some point on the mutex stays free. `Onboarding`: handlers
go on, which `CallsReturn` and `RequestsEnd` show of the calls that can be long;
River drives a visible job, which `ImplementsAtomicWorkflow` shows of the worker;
that HostBill sends, gives up or crashes anything is never required. `Lifecycle`:
`run` goes on, handlers and jobs end (the server's, the HTTP client's and River's
timeouts), and who waits for a connection is strongly fair, as pgxpool serves
its waiters in the order they came. `HttpPipeline` has no liveness: it is a
sequential program whose one question is what a request has met when it is over.
Symmetry is used in runs without liveness only.

### Where the comments and the code disagree

Each is a run that TLC ends with a counterexample.

| run | says | does |
|---|---|---|
| `DocResume` | `runner.go:15-18`: steps below `current_step` are durably complete; a retry re-runs the interrupted one | all progress is in the one transaction of `Work`: a retry runs every step again |
| `DocPermanent` | `runner.go:22-23`, `step.go:23-24`: River discards the job | it is retried; nothing returns `river.JobCancel` |
| `DocNonRetryable` | `client.go:187`: return immediately | `retry.Do` tries again |
| `DocDedup` | `docs/todo/db-schema-01.md:9`: River deduplicates by args | `InsertTx` gets no options: in the service whole (`HbsQueue`), one order sent twice becomes two durable workflows |
| `DocJobsFinish` | `main.go:139`: active jobs finish | their ctx is the signal's |
| `DocPoolLast` | `main.go:140`: the pool is closed after everything else | not when the listener fails |

Other sentences are refuted by what is proved. `DurableRowComplete` leaves only
two committed rows, none and the final one; so no committed row has status
failed or an error text (`runner.go:20-22` promises both), and the only
`current_step` ever committed is the number of steps, not the "Last completed
step index" of the migration. It is the other side of `DocResume`: because
everything is in one transaction no partial workflow is ever seen, and no
progress and no error is ever recorded. State updates are not "atomic with job
completion" (`state.go:87-88`): a job is completed in a transaction of River's
own, after `CompletedJobDurable` holds and not together with it. And a call of
the VCD client authenticates again after each 401, not "once"
(`client.go:5-6`), which is what lets it survive several.

## 4. The proofs

`WorkflowRunnerProofs`, from `StepsAssumption` and `RunnerAssumption` (there is
a step; there is an attempt; `NoJob` is no job), for any numbers of jobs,
executors, steps, attempts and faults:

* `Invariance`: `Spec => []IInv`. The safety properties alone are not inductive:
  that a committed row is final needs that a transaction in `commit` holds the
  final row, which needs what the loop has done so far (`InLoop`, `Wrote`),
  which needs that the row an execution resumes from was nothing or final
  (`DurableRowComplete` again) and that nobody else has committed since
  (`OneWriter` and `Owns`). An execution without its session owns nothing, and
  what it holds in memory may be overtaken: `ThinksItOwns` lets it go on in that
  belief, and the guard of every statement, that the session is there, turns the
  belief into ownership where it matters, in `AdvanceStep` and `Commit`.
  `CompletedJobDurable` needs that `report` with result ok is reached through a
  COMMIT. The proof takes type correctness first (`TypeStep`), then the actions
  of one executor (`EnterSteps`, `LoopSteps`, `LeaveSteps`, `CommitSteps`), what
  others keep (`LocalFrame`), the jobs changing hands (`HandOver`) and River
  (`Maintenance`).
* `TypeCorrect`, `DurableRows`, `CompletedJobs`, `Exclusion`: the safety
  properties, from `Invariance`; `Exclusion` says of two executions between steps
  that one of them has lost its session, since `OneWriter` forbids that both own.
* `NoLateStep`: `NoStepAfterDurable`, an action property. A step is reached through
  `Mark` or `AdvanceStep`, whose UPDATE has succeeded: the session was there, so the
  row was the execution's own and the workflow not durable. It is not an invariant
  of the states: during a step its session may go and another execution commit.
* `RowWaits`: whoever waits for a row waits for an execution that waits for none,
  by `OneWriter`: a transaction that has written the row cannot be kept from it.
* `Refinement`: `Spec => Abstract!Safety`. `AdvanceStep` is `Do` (the steps below
  are counted, by `InLoop`), `Commit` and `CommitLost` are `Record` or, on a row
  that was durable already, a stutter; `Fetch` is `Try`, allowed by
  `AttemptsLeft`; `Report` and the rescues are `Complete`, `GiveUp` or stutters.

`VCDClientProofs`, from `ClientAssumption`, for any numbers of callers, attempts
and expiries: `Invariance` (the mutex is held exactly by who authenticates, whose
token is the last one issued; what a late attempt may follow; how attempts
bound the history counters; that the cached token is the newest any call has got
hold of and newer than every token a finished 401 was about), and from it
`TypeCorrect`, `EarlyStop`, `NewerAfterRefusal` (`ExpirySurvived`) and
`NewestToken`, an action property. `MutexWaits` says that whoever waits for the mutex
waits for a call that waits for no lock, and `BoundedCalls` (`CallsProgress`) that a
call makes at most `8 * MaxAttempts` steps: a 401, whoever has renewed the token
meanwhile, costs an attempt that is counted.

`RowWaits`, `MutexWaits` and `BoundedCalls` are the part of `JobsClose` and
`CallsReturn` that is safety: nobody waits in a circle, and no call runs in one.
What is left to TLC is the part fairness gives, that a step which can be taken
is taken and that River fetches a job again.

`RetryRefinement`: `Spec => Do!Safety`. A step of `do` inside an attempt is a stutter;
that a success is reported only after a call that returned nil, and an error
only after `MaxAttempts`, follows from the relation of `pc`, `result` and `attempt`
in the invariant.

`EnqueueProofs`, for any orders and sends: its invariant relates where a handler
is to what it has written (`status`), put in (`inserted`) and made durable
(`jobs`): no job before the COMMIT, and afterwards a status that is never a
refusal. From it `TypeCorrect`, `Accepted` and `Refused`, the other way round:
a heard refusal is a handler that is gone and made nothing.

`OnboardingProofs`, for any orders, sends, crashes, steps and attempts:
`Refinement`, `OnboardingSafety => Service!Safety`. It lifts the invariant of
`Enqueue` to the composition (the worker leaves the handlers alone) and adds that
the queue knows nothing of a job without a row. `Commit` is
`Enqueue` of the abstract service, while the answer is open or lost; `Reply` is
one of `Accept`, `Refuse` and `Doubt` according to the status; `Record`, `GiveUp`
are `Finish`, `Abandon`; the rest stutters.

`HbsQueueProofs`, for any orders, sends, executors, steps, attempts, crashes and
faults, joins the two halves:

* `Parts`: `HbsSpec => Spec /\ Endpoint!Spec`. The composition adds no behaviour to
  a part, so all theorems about the worker and about the endpoint hold in it.
* `InHands`: `HbsSpec => []HInv`. To the worker's `IInv` it adds `TableInv` (where a
  handler is fixes what it has answered, what HostBill has heard of it, and that
  its request has no row before the COMMIT and one at most after it), `HandsInv` (a
  job in an executor's hands is in the table and counts an attempt) and `AbsentInv`
  (a job that is not in the table has no workflow and is not closed). The lemma
  `Touches` is what the step of the worker needs: attempts never decrease, they
  change only with the job's state, and the row and history of a job change only in
  the hands of an executor that has it.
* `WholeRefinement`: `HbsSpec => Promise!OnboardingSafety`. `Refinement` of the worker
  says that its step is one of `AtomicWorkflow`; `Onboarding` allows that step only
  for a job that is visible, and that River has tried when it is about the workflow.
  For `Drive` this is the condition in `Work`, because the job's state changed; for
  `Do` and `Record` it is `HandsInv`, because somebody has the job in hand.
* `EndToEnd`: `HbsSpec => Promise!Service!Safety`, the promise to HostBill kept by the
  two programs in full: `Reply` says what `TableInv` allows it to say (`ReplyMaps`),
  a COMMIT of the endpoint opens a job whose workflow has not begun (`CommitMaps`, by
  `AbsentInv`), and what the worker does to a job is seen as its end, its being
  abandoned, or not at all (`WorkMaps`, from the worker's own `Refinement`).

The last three have the hypothesis `Jobs = Endpoint!Requests`: the jobs of the worker
are those the requests may make, as in `MCHbsQueue`. `EndToEnd` is proved from the
parts and does not pass through `OnboardingProofs`, since TLAPS cannot use a theorem
of a module that is instantiated; `Onboarding` remains what TLC checks, with the
fairness that `HbsQueue` is too large for.

`HttpPipelineProofs`, for any set of hooks: `TypeCorrect`, `Guarded`, `Logged`,
`Whole`. `LoggedAsAnswered` speaks of the end of a request only; its invariant says
for each layer, on each of the three ways, what has been sent, recorded and
logged by then, in particular that a panic above the recovery does not exist and
that below it nothing has been sent.

`LifecycleProofs`, for any sets of requests and jobs and any limits of the pool
and the queue: `Invariance`, and from it `TypeCorrect`, `Served` and `Outcomes`.
That nothing accepted is broken unless the time was over or the listener had
failed is not inductive: `Stages` says what each stage of the shutdown has
already waited for (no request from `riverStop` on, no job from `poolClose` on),
and `Startup` that a failed startup leaves nothing to wait for.

Only model-checked: all liveness (`JobsClose`, `WorkflowsFinish`, `CallsReturn`,
`Exits`, `RequestsEnd`, `JobsSettle` and the fairness part of the three
refinements), which TLAPS cannot prove under fairness. No module has a RECURSIVE
operator and no proof needs induction over data. Each type invariant says a
little more than types: that no call makes an attempt too many, no request two
jobs, no exit leaves a pool open, and no logged status is none.

## 5. What is not modelled, and what could follow

* `cmd/hbsqueue/debug.go`: the dashboard reads runtime metrics on a port of its
  own and shares no state with the service.
* The request types, `Valid` methods and job arguments of the five hook stubs:
  declared, and used by nothing until the stubs are written. The field rules of
  `OnboardOrgRequest.Valid` are pure checks of single fields; a body is valid or it
  is not.
* Configuration beyond what a handler's behaviour depends on: defaults and
  strings that are only passed on.
* `baseDelay` and jitter of `retry.Do`: durations, of which only their ratio to
  each other is computed, and no state depends on them.
* Logging (other than the request log), wording, JSON, URLs and headers, the SQL
  text of migrations; `GetString` and `GetInt`, which only read.
* River's leadership, priorities, backoff times and cleaners; pgxpool's opening
  and retiring of connections.
* A body that `client.do` sends again after it was read: every call passes nil
  today.

When the seven steps are written against real systems, `WorkflowRunner` is the
place for them: a step would get a state in the external system, and the two
jobs of an order sent twice (`DocDedup`), or a step and the orphan it overlaps
(`StepsExclusive`), would have to be kept from acting on it side by side. The
same holds for the hooks, whose handlers would become modules like `Enqueue`.
