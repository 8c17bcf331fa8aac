------------------------------ MODULE HbsQueue ------------------------------
(***************************************************************************)
(* The service whole: the endpoint of Enqueue and the worker of            *)
(* WorkflowRunner, both in full, over one river_job table.  The job of a   *)
(* request has its name.  River's columns are WorkflowRunner's; whether    *)
(* the row is there at all is what the endpoint's transactions decide.     *)
(*                                                                         *)
(* The process that dies in Endpoint!Crash may run executors as well: each *)
(* then dies by a Crash of its own, before any other step or not, for a    *)
(* handler and an executor have nothing but committed rows in common.      *)
(***************************************************************************)
EXTENDS WorkflowRunner

CONSTANTS Orders, MaxSends, Bodies, MaxCrashes

VARIABLES configured, handler, body, status, inserted, queued, heard, crashes

endpoint == <<configured, handler, body, status, inserted, queued, heard, crashes>>

Endpoint == INSTANCE Enqueue WITH pc <- handler, jobs <- queued

HbsInit == Endpoint!Init /\ Init

\* What is in the table for other transactions to see.
Visible(j) == queued[j] = 1

\* River looks for jobs in the table: it changes no row that is not there.
Work == /\ Next
        /\ \A j \in Jobs : jobState'[j] # jobState[j] => Visible(j)
        /\ UNCHANGED endpoint

\* Handlers and executors idle, every job in the table closed.
Settled ==
  /\ \A r \in Endpoint!Requests : Endpoint!At(r, "gone")
  /\ \A w \in Workers : pc[w] = "idle"
  /\ \A j \in Jobs : Visible(j) => jobState[j] \in {"completed", "discarded"}
  /\ UNCHANGED <<vars, endpoint>>

HbsNext == (Endpoint!Serve /\ UNCHANGED vars) \/ Work \/ Settled

HbsSpec == HbsInit /\ [][HbsNext]_<<vars, endpoint>>

------------------------------------------------------------------------------
\* The composition with the worker's promise, which the one with the worker
\* itself is to keep.
Promise == INSTANCE Onboarding WITH
  pc <- handler, jobs <- queued,
  done <- advanced, recorded <- Recorded, closed <- Closed, tries <- attempt

------------------------------------------------------------------------------
(* What a document says, where the code does otherwise.                    *)

\* docs/todo/db-schema-01.md:9: "Deduplication is handled by River
\* (UniqueOpts{ByArgs: true}) at job insertion time": of the requests that
\* HostBill sends for an order, one workflow comes.
OneWorkflowPerOrder ==
  \A o \in Orders, m, n \in 1 .. MaxSends :
    Exists(rows[<<o, m>>]) /\ Exists(rows[<<o, n>>]) => m = n
=============================================================================
