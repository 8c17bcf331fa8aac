----------------------------- MODULE MCHbsQueue -----------------------------
(***************************************************************************)
(* HbsQueue for TLC: the jobs are those the requests may make.             *)
(***************************************************************************)
EXTENDS HbsQueue

MCJobs == Orders \X (1 .. MaxSends)
=============================================================================
