----------------------------- MODULE MCJobQueue -----------------------------
(* JobQueue with an outreach and a notification, shared by two workers.     *)
EXTENDS JobQueue

MCJobs == {1, 2}
MCNotify == {2}
=============================================================================
