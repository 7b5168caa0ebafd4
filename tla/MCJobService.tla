------------------------------ MODULE MCJobService ------------------------------
(* Two calls, for one job or for two. *)
EXTENDS JobService

CONSTANTS first, second, job1, job2

MCCalls == {first, second}
MCJobs == {job1, job2}
MCRequests == {r \in [MCCalls -> MCJobs] : r[first] = job1}
================================================================================
