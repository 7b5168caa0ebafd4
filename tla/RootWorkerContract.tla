--------------------------- MODULE RootWorkerContract ---------------------------
(***************************************************************************)
(* What the root search worker                                             *)
(* (apps/clearra-web/src/workers/clearraWorker.ts) promises its owner: the *)
(* life of one job after the other, and the events posted about them, in   *)
(* the order posted.  Nothing is said of warm-ups, leases and runners.     *)
(* RootWorker implements this; SearchController relies on it.              *)
(***************************************************************************)
EXTENDS Naturals, Sequences

CONSTANT
    MaxJobs         \* jobs one worker starts at most

ASSUME ContractAssumption == MaxJobs \in Nat \ {0}

VARIABLES
    active,         \* the active job, 0 for null
    nextJobId,      \* nextJobId
    cancelled,      \* cancelled of the last job
    terminalPosted, \* terminalPosted of the last job
    pages,          \* the job whose product pages are kept, 0 for none
    closed,         \* the worker has closed itself
    log             \* events posted so far

workerVars == <<active, nextJobId, cancelled, terminalPosted, pages, closed, log>>

\* A response with status success is "success"; any other is "refused".
Terminal == {"success", "refused", "failed", "cancelled"}

Event(e, j) == [event |-> e, job |-> j]

Post(e, j) == log' = Append(log, Event(e, j))

Posted(e, j) == Len(SelectSeq(log, LAMBDA m : m = Event(e, j)))

NewWorker ==
    /\ active = 0 /\ nextJobId = 1 /\ cancelled = FALSE /\ terminalPosted = FALSE
    /\ pages = 0 /\ closed = FALSE /\ log = <<>>

--------------------------------------------------------------------------------

\* A job is taken up; the pages of the last one may go with it.
Start ==
    /\ ~closed /\ active = 0 /\ nextJobId <= MaxJobs
    /\ active' = nextJobId /\ nextJobId' = nextJobId + 1
    /\ cancelled' = FALSE /\ terminalPosted' = FALSE
    /\ pages' \in {0, pages}
    /\ Post("started", nextJobId) /\ UNCHANGED closed

\* A job asked for while one is active fails in the name of the active one.
Refuse ==
    /\ ~closed /\ active # 0
    /\ Post("failed", active)
    /\ UNCHANGED <<active, nextJobId, cancelled, terminalPosted, pages, closed>>

Proceed ==
    /\ ~closed /\ active # 0 /\ ~terminalPosted
    /\ Post("progress", active)
    /\ UNCHANGED <<active, nextJobId, cancelled, terminalPosted, pages, closed>>

\* A cancellation is noted unless the outcome is already posted.
Note ==
    /\ ~closed /\ active # 0 /\ ~terminalPosted
    /\ cancelled' = TRUE /\ pages' \in {0, pages}
    /\ UNCHANGED <<active, nextJobId, terminalPosted, closed, log>>

\* A cancellation that cannot be carried out ends the job at once.
CancelHard ==
    /\ ~closed /\ active # 0 /\ ~terminalPosted
    /\ Post("cancelled", active) /\ closed' = TRUE
    /\ active' = 0 /\ cancelled' = TRUE /\ terminalPosted' = TRUE /\ pages' \in {0, pages}
    /\ UNCHANGED nextJobId

Release ==
    /\ pages' = 0
    /\ UNCHANGED <<active, nextJobId, cancelled, terminalPosted, closed, log>>

\* Success is posted of a job that was not cancelled; the job may stay active
\* while what it holds is released.
Succeed(now) ==
    /\ ~closed /\ active # 0 /\ ~terminalPosted /\ ~cancelled
    /\ Post("success", active) /\ pages' \in {0, active}
    /\ terminalPosted' = TRUE /\ active' = (IF now THEN 0 ELSE active)
    /\ UNCHANGED <<nextJobId, cancelled, closed>>

Settle ==
    /\ ~closed /\ active # 0 /\ terminalPosted /\ Posted("success", active) > 0
    /\ active' = 0
    /\ UNCHANGED <<nextJobId, cancelled, terminalPosted, pages, closed, log>>

\* Any other outcome closes the worker, if need be once its job has let go.
Conclude(e) ==
    /\ ~closed /\ active # 0 /\ ~terminalPosted
    /\ e = "cancelled" => cancelled
    /\ Post(e, active) /\ terminalPosted' = TRUE /\ pages' \in {0, pages}
    /\ UNCHANGED <<active, nextJobId, cancelled, closed>>

End(e) ==
    /\ ~closed /\ active # 0
    /\ e = "cancelled" => cancelled /\ ~terminalPosted
    /\ e = "refused" => ~terminalPosted
    /\ Post(e, active) /\ closed' = TRUE
    /\ active' = 0 /\ terminalPosted' = TRUE /\ pages' \in {0, pages}
    /\ UNCHANGED <<nextJobId, cancelled>>

\* The worker closes without an outcome: disposed, or failing outside a job.
Close ==
    /\ ~closed /\ closed' = TRUE
    /\ active' = 0 /\ pages' \in {0, pages}
    /\ UNCHANGED <<nextJobId, cancelled, terminalPosted, log>>

\* A job that was waiting when the worker closed under it still posts what it gets
\* to: no success once it was cancelled or its outcome posted, and a cancelled one
\* that it was cancelled, once.
Late(e) ==
    /\ closed /\ nextJobId > 1
    /\ e = "cancelled" <=> cancelled
    /\ e \in {"success", "refused", "cancelled"} => ~terminalPosted
    /\ Post(e, nextJobId - 1)
    /\ terminalPosted' = (terminalPosted \/ e \in Terminal)
    /\ UNCHANGED <<active, nextJobId, cancelled, pages, closed>>

WorkerNext ==
    \/ Start \/ Refuse \/ Proceed \/ Note \/ CancelHard \/ Release \/ Settle \/ Close
    \/ \E now \in BOOLEAN : Succeed(now)
    \/ \E e \in Terminal \ {"success"} : End(e) \/ Conclude(e)
    \/ \E e \in Terminal \cup {"progress"} : Late(e)

Contract == NewWorker /\ [][WorkerNext]_workerVars
================================================================================
