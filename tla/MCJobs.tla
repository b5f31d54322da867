--------------------------------- MODULE MCJobs ---------------------------------
(* Processes, forks and slots as few as let every path of jobs.c be taken. *)
EXTENDS Jobs
=============================================================================
