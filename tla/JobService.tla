------------------------------- MODULE JobService -------------------------------
(***************************************************************************)
(* A search of the Discord bot run by the job service:                     *)
(*   apps/clearra-discord-bot/src/clearra/command.mjs  ClearraJobExecutor, *)
(*     the bot's side: one POST that stays open, and a DELETE after any    *)
(*     failure;                                                            *)
(*   apps/clearra-discord-bot/src/job-service/server.mjs                   *)
(*     ClearraJobService, the jobs of one instance;                        *)
(*   apps/clearra-discord-bot/src/job-service/runner.mjs                   *)
(*     ClearraCommandRunner, the process of one job.                       *)
(*                                                                         *)
(* A call is one execute of the executor; an interaction delivered again   *)
(* makes a second call with the id of the same job.  Requests are lost and *)
(* overtake each other, connections break, and the instance may be killed. *)
(* The service answers a POST with an outcome only, so the executor's      *)
(* polling is left out; so are requests that no executor makes.            *)
(***************************************************************************)
EXTENDS Naturals, Sequences, SequencesExt, FiniteSets

CONSTANTS
    Calls,              \* calls of execute
    Jobs,               \* job ids
    Requests,           \* the jobs the calls may be for
    maxConcurrentJobs,
    maxRetainedJobs,
    MaxRestarts         \* instances killed or stopped at most

ASSUME ServiceAssumption ==
    /\ IsFiniteSet(Calls) /\ IsFiniteSet(Jobs) /\ Requests \subseteq [Calls -> Jobs]
    /\ maxConcurrentJobs \in Nat \ {0} /\ maxRetainedJobs \in Nat /\ MaxRestarts \in Nat

VARIABLES
    jobId,      \* the job of each call
    call,       \* where each call of execute is
    post,       \* its POST
    answer,     \* the answer to it
    delete,     \* its DELETE
    jobs,       \* the entry of each job with what its runner holds
    activeJobs,
    completed,  \* jobs completed and retained, in the order of completedAt
    closing,    \* close has been called
    restarts    \* instances gone so far

None == "none"

calls == <<jobId, call, post, answer, delete>>
service == <<activeJobs, completed, closing, restarts>>
vars == <<calls, jobs, service>>

\* An entry: its state, the call that made it, whether its controller is aborted; then
\* where the runner is, the process, the signal sent to it, pendingFailure, what
\* execute was settled with, the directory for a rendered file; and how often
\* the job was run since the entry was made.
Entry(s, c, p, n) ==
    [state |-> s, creator |-> c, aborted |-> FALSE, phase |-> p, child |-> None,
     signal |-> None, failure |-> None, result |-> None, directory |-> None, runs |-> n]

NoEntry == Entry(None, None, None, 0)

Init ==
    /\ jobId \in Requests /\ call = [c \in Calls |-> "idle"]
    /\ post = [c \in Calls |-> None] /\ answer = post /\ delete = post
    /\ jobs = [j \in Jobs |-> NoEntry]
    /\ activeJobs = 0 /\ completed = <<>> /\ closing = FALSE /\ restarts = 0

Running(j) == jobs[j].state = "running"
Alive(j) == jobs[j].child = "alive"
In(j, p) == Running(j) /\ jobs[j].phase = p

--------------------------------------------------------------------------------
(* The executor. *)

execute(c) ==
    /\ call[c] = "idle"
    /\ call' = [call EXCEPT ![c] = "posted"] /\ post' = [post EXCEPT ![c] = "sent"]
    /\ UNCHANGED <<jobId, answer, delete, jobs, service>>

\* The failed call sends its DELETE and waits for it.
Cancel(c) ==
    /\ call' = [call EXCEPT ![c] = "cancelling"] /\ delete' = [delete EXCEPT ![c] = "sent"]

\* The deadline, the caller's signal or a broken connection ends the request.
giveUp(c) ==
    /\ call[c] = "posted" /\ Cancel(c)
    /\ post' = [post EXCEPT ![c] = IF @ = "answered" THEN "closed" ELSE @]
    /\ answer' = [answer EXCEPT ![c] = None] /\ UNCHANGED <<jobId, jobs, service>>

\* Any answer but a completed job is thrown as an error.
receive(c) ==
    /\ call[c] = "posted" /\ post[c] = "answered"
    /\ IF answer[c] = "completed"
         THEN call' = [call EXCEPT ![c] = "returned"] /\ UNCHANGED delete
         ELSE Cancel(c)
    /\ post' = [post EXCEPT ![c] = "closed"] /\ answer' = [answer EXCEPT ![c] = None]
    /\ UNCHANGED <<jobId, jobs, service>>

\* The DELETE is answered, or cancelTimeoutMs are over; the DELETE itself may be
\* under way for longer.
cancel(c) ==
    /\ call[c] = "cancelling" /\ call' = [call EXCEPT ![c] = "thrown"]
    /\ UNCHANGED <<jobId, post, answer, delete, jobs, service>>

losePost(c) ==
    /\ post[c] = "sent" /\ post' = [post EXCEPT ![c] = "closed"]
    /\ UNCHANGED <<jobId, call, answer, delete, jobs, service>>

loseDelete(c) ==
    /\ delete[c] = "sent" /\ delete' = [delete EXCEPT ![c] = "over"]
    /\ UNCHANGED <<jobId, call, post, answer, jobs, service>>

--------------------------------------------------------------------------------
(* What the controller of an entry and its runner do to it. *)

\* Fault: the process is signalled, and the job is over with that.
fail_at_once(e, why) ==
    IF e.failure # None THEN e
    ELSE [e EXCEPT !.failure = why, !.phase = "cleanup", !.result = why,
                   !.signal = IF e.child = "alive" THEN "term" ELSE @]

\* fail with terminate: a process that has exited gets no signal.
fail(e, why) ==
    IF e.failure # None THEN e
    ELSE [e EXCEPT !.failure = why, !.signal = IF e.child = "alive" THEN "term" ELSE @]

\* The runner listens from the spawn until the promise is settled.
abort(e) ==
    LET marked == [e EXCEPT !.aborted = TRUE]
    IN  IF e.phase \in {"process", "artifact"} THEN fail(marked, "cancelled") ELSE marked

--------------------------------------------------------------------------------
(* The service. *)

Retained == {j \in Jobs : jobs[j].state # None}

Oldest(k) == ToSet(SubSeq(completed, 1, k))

\* The jobs completed before the cutoff go, and then the oldest ones until
\* maxRetainedJobs are left.
pruneCompletedJobs(k) ==
    /\ k = Len(completed) \/ Cardinality(Retained) <= maxRetainedJobs + k
    /\ completed' = SubSeq(completed, k + 1, Len(completed))

Pruned(k) == [j \in Jobs |-> IF j \in Oldest(k) THEN NoEntry ELSE jobs[j]]

\* A POST reaches the service, which no longer listens once it closes.
handle(c) ==
    /\ post[c] = "sent" /\ ~closing
    /\ post' = [post EXCEPT ![c] = "reading"]
    /\ \E k \in 0..Len(completed) : pruneCompletedJobs(k) /\ jobs' = Pruned(k)
    /\ UNCHANGED <<jobId, call, answer, delete, activeJobs, closing, restarts>>

\* The requests C are answered, those that someone still waits for.
Answered(C, a) ==
    /\ post' = [c \in Calls |-> CASE c \notin C -> post[c]
                                  [] c \in C /\ call[c] = "posted" -> "answered"
                                  [] OTHER -> "closed"]
    /\ answer' = [c \in Calls |-> IF c \in C /\ call[c] = "posted" THEN a ELSE answer[c]]

\* The connection breaks before the whole body is there.
readJsonBody(c) ==
    /\ post[c] = "reading"
    /\ post' = [post EXCEPT ![c] = "closed"]
    /\ UNCHANGED <<jobId, call, answer, delete, jobs, service>>

\* The deadline is over by now.
validateJobRequest(c) ==
    /\ post[c] = "reading" /\ Answered({c}, "refused")
    /\ UNCHANGED <<jobId, call, delete, jobs, service>>

\* Fault: only a job in progress is joined.
Joined_running(j) == IF Running(j) THEN {"running"} ELSE {}

\* The entry a POST finds.
Joined(j) == {jobs[j].state} \ {None}

Full == activeJobs >= maxConcurrentJobs

\* The rest of handleCreate, once the body is read.
handleCreate(c) ==
    LET j == jobId[c] IN
    /\ post[c] = "reading"
    /\ CASE "running" \in Joined(j) ->
              post' = [post EXCEPT ![c] = "waiting"] /\ UNCHANGED <<answer, jobs, activeJobs>>
         [] Joined(j) \ {"running"} # {} ->
              Answered({c}, jobs[j].state) /\ UNCHANGED <<jobs, activeJobs>>
         [] Joined(j) = {} /\ Full ->
              Answered({c}, "refused") /\ UNCHANGED <<jobs, activeJobs>>
         [] OTHER ->
              /\ post' = [post EXCEPT ![c] = "waiting"] /\ activeJobs' = activeJobs + 1
              /\ jobs' = [jobs EXCEPT ![j] = Entry("running", c, "preparing", @.runs + 1)]
              /\ UNCHANGED answer
    /\ UNCHANGED <<jobId, call, delete, completed, closing, restarts>>

\* The connection of the first request breaks, at either end; that of a later one
\* is not looked at.
abortOnDisconnect(c) ==
    LET j == jobId[c] IN
    /\ post[c] = "waiting" /\ jobs[j].creator = c
    /\ post' = [post EXCEPT ![c] = "closed"]
    /\ jobs' = [jobs EXCEPT ![j] = abort(@)]
    /\ UNCHANGED <<jobId, call, answer, delete, service>>

handleCancel(c) ==
    LET j == jobId[c] IN
    /\ delete[c] = "sent" /\ ~closing /\ delete' = [delete EXCEPT ![c] = "over"]
    /\ \E k \in 0..Len(completed) :
          /\ pruneCompletedJobs(k)
          /\ jobs' = IF Running(j) THEN [Pruned(k) EXCEPT ![j] = abort(@)] ELSE Pruned(k)
    /\ UNCHANGED <<jobId, call, post, answer, activeJobs, closing, restarts>>

close ==
    /\ ~closing /\ restarts < MaxRestarts /\ closing' = TRUE
    /\ jobs' = [j \in Jobs |-> IF Running(j) THEN abort(jobs[j]) ELSE jobs[j]]
    /\ UNCHANGED <<calls, activeJobs, completed, restarts>>

\* The instance is killed, or ends once it is closed; another one takes over.
restart ==
    /\ restarts < MaxRestarts /\ restarts' = restarts + 1
    /\ jobs' = [j \in Jobs |-> NoEntry] /\ activeJobs' = 0 /\ completed' = <<>> /\ closing' = FALSE
    /\ post' = [c \in Calls |-> IF post[c] \in {"reading", "waiting"} THEN "closed" ELSE post[c]]
    /\ UNCHANGED <<jobId, call, answer, delete>>

--------------------------------------------------------------------------------
(* The runner. *)

Settle(j, r) == jobs' = [jobs EXCEPT ![j].phase = "cleanup", ![j].result = r]

\* Fault: a cancellation that came before the process is not looked for.
Spawned_deaf(e) == [e EXCEPT !.phase = "process", !.child = "alive"]

Spawned(e) ==
    LET started == [e EXCEPT !.phase = "process", !.child = "alive"]
    IN  IF e.aborted THEN fail(started, "cancelled") ELSE started

\* The directory is made where the job renders, and the process started.
spawn(j) ==
    /\ In(j, "preparing")
    /\ \E d \in {None, "made"} : LET e == [jobs[j] EXCEPT !.directory = d] IN
          \/ jobs' = [jobs EXCEPT ![j] = Spawned(e)]
          \/ jobs' = [jobs EXCEPT ![j] = [e EXCEPT !.phase = "cleanup", !.result = "failed"]]
    /\ UNCHANGED <<calls, service>>

\* The time is up, there is too much output, or the process reports an error.
overrun(j) ==
    /\ In(j, "process") \/ In(j, "artifact")
    /\ jobs[j].failure = None /\ jobs' = [jobs EXCEPT ![j] = fail(@, "failed")]
    /\ UNCHANGED <<calls, service>>

forceKillTimer(j) ==
    /\ In(j, "process") /\ Alive(j) /\ jobs[j].signal = "term"
    /\ jobs' = [jobs EXCEPT ![j].signal = "kill"]
    /\ UNCHANGED <<calls, service>>

\* The process ends, of itself or by a signal; only SIGKILL cannot be ignored.
exit(j) ==
    /\ Alive(j) /\ jobs' = [jobs EXCEPT ![j].child = "exited"]
    /\ UNCHANGED <<calls, service>>

onClose(e) ==
    IF e.failure # None THEN [e EXCEPT !.phase = "cleanup", !.result = e.failure]
                        ELSE [e EXCEPT !.phase = "artifact"]

closed(j) ==
    /\ In(j, "process") /\ jobs[j].child = "exited"
    /\ jobs' = [jobs EXCEPT ![j] = onClose(@)]
    /\ UNCHANGED <<calls, service>>

\* A cancellation or a timeout is too late by now.
readRenderArtifact(j) ==
    /\ In(j, "artifact")
    /\ Settle(j, "completed") \/ Settle(j, "failed")
    /\ UNCHANGED <<calls, service>>

\* cleanupRenderArtifactPlan; a directory that cannot be removed fails the job.
Cleaned(e) ==
    {[e EXCEPT !.directory = None]}
        \cup (IF e.directory = None THEN {} ELSE {[e EXCEPT !.result = "failed"]})

\* What the entry keeps.
Ended(e) ==
    [e EXCEPT !.state = e.result, !.phase = None, !.failure = None, !.result = None,
              !.child = IF @ = "alive" THEN @ ELSE None]

\* runJob ends, and with it every request that waits for the job.
runJob(j) ==
    /\ In(j, "cleanup")
    /\ \E e \in Cleaned(jobs[j]) :
          /\ jobs' = [jobs EXCEPT ![j] = Ended(e)]
          /\ Answered({c \in Calls : jobId[c] = j /\ post[c] = "waiting"}, e.result)
          /\ activeJobs' = activeJobs - 1
    /\ completed' = Append(completed, j)
    /\ UNCHANGED <<jobId, call, delete, closing, restarts>>

--------------------------------------------------------------------------------

Next ==
    \/ \E c \in Calls :
          \/ execute(c) \/ giveUp(c) \/ receive(c) \/ cancel(c) \/ losePost(c) \/ loseDelete(c)
          \/ handle(c) \/ readJsonBody(c) \/ validateJobRequest(c) \/ handleCreate(c)
          \/ abortOnDisconnect(c) \/ handleCancel(c)
    \/ \E j \in Jobs :
          \/ spawn(j) \/ overrun(j) \/ forceKillTimer(j) \/ exit(j) \/ closed(j)
          \/ readRenderArtifact(j) \/ runJob(j)
    \/ close \/ restart

Spec == Init /\ [][Next]_vars

\* What the runner and the kernel do of themselves; no process outlives SIGKILL.
Step(j) ==
    \/ spawn(j) \/ forceKillTimer(j) \/ closed(j) \/ readRenderArtifact(j) \/ runJob(j)
    \/ jobs[j].signal = "kill" /\ exit(j)

SpecCancel == Spec /\ \A j \in Jobs : WF_vars(Step(j))

--------------------------------------------------------------------------------

\* A process that has not exited belongs to an entry in progress, so its slot is
\* taken and a DELETE finds it: fail leaves the end of the job to "close".
SlotHeld == \A j \in Jobs : Alive(j) => Running(j)

\* A call that comes again is answered by the entry of the first, in progress or
\* not: the job is not run twice while its entry is retained.
RunOnce == \A j \in Jobs : jobs[j].runs <= 1

\* An aborted job ends, however its process takes the signal and whenever the
\* abort came, without help of its deadline.
AbortEnds == \A j \in Jobs : (Running(j) /\ jobs[j].aborted) ~> ~Running(j)

================================================================================
