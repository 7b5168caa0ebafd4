------------------------------ MODULE DesktopJobs ------------------------------
(***************************************************************************)
(* Searches of the desktop application, from the page to the worker        *)
(* thread:                                                                 *)
(*   packages/clearra-ui/src/lib/stores/desktopJobStore.ts  the page's     *)
(*     store, its start generations and its polling;                       *)
(*   apps/clearra-desktop/src-tauri/src/commands.rs  the commands;         *)
(*   crates/clearra-gui-host/src/desktop_host/desktop_request_bridge.rs    *)
(*     and src/job  the bridge, its queue and the worker threads.          *)
(*                                                                         *)
(* The page calls the host and goes on; the host takes the calls in turn,  *)
(* each with the bridge locked, and the replies come back in turn.  The    *)
(* workers run beside all of it and report through channels of their own.  *)
(* Progress and diagnostics are left out: like "started" they end nothing. *)
(* Calls the page never makes (run_request, validate_request) and product  *)
(* pages are left out too.                                                 *)
(***************************************************************************)
EXTENDS Naturals, Sequences, SequencesExt

CONSTANTS
    MaxJobs,        \* searches the page starts at most
    MaxCalls,       \* calls and replies under way when the user adds a cancel
    MaxLeaves       \* workspaces left at most

ASSUME JobsAssumption ==
    MaxJobs \in Nat \ {0} /\ {MaxCalls, MaxLeaves} \subseteq Nat

VARIABLES
    status,         \* status of desktopJobState
    jobId,          \* its jobId, 0 for null
    result,         \* the job its result is of, 0 for null
    pendingToken,   \* pendingToken of desktopJobStartGeneration, 0 for null
    timers,         \* polls scheduled in the current epoch
    starts,         \* searches started so far; the token of the last one
    mounted,        \* a workspace is mounted
    leaves,         \* workspaces left so far
    wire,           \* calls the host has not taken yet
    replies,        \* replies the page has not taken yet
    next_job_id,    \* next_job_id of the queue
    queue,          \* active_job_id of the queue, 0 for None
    active_job,     \* the job whose handle the bridge holds, 0 for None
    active_job_id,  \* active_job_id of the bridge, 0 for None
    registry,       \* the request native assets were last activated for
    drained,        \* events get_job_events has taken while it holds the bridge, or free
    thread,         \* where the worker of each job is
    token,          \* jobs whose cancellation token is set
    channel,        \* events each worker has sent and the host has not taken
    sent,           \* the outcome each worker sent
    told            \* the outcome of each job get_job_events handed out

page == <<status, jobId, result, pendingToken, timers, starts>>
nav == <<mounted, leaves>>
bridge == <<next_job_id, queue, active_job, active_job_id>>
workers == <<thread, token, channel, sent>>
vars == <<page, nav, wire, replies, bridge, registry, drained, workers, told>>

Jobs == 1..MaxJobs
Terminal == {"success", "refused", "failed", "cancelled"}
Live == {j \in Jobs : thread[j] \notin {"none", "ended", "panicked"}}
free == <<"free">>

Init ==
    /\ status = "idle" /\ jobId = 0 /\ result = 0 /\ pendingToken = 0 /\ timers = <<>> /\ starts = 0
    /\ mounted = TRUE /\ leaves = 0 /\ wire = <<>> /\ replies = <<>>
    /\ next_job_id = 1 /\ queue = 0 /\ active_job = 0 /\ active_job_id = 0
    /\ registry = 0 /\ drained = free
    /\ thread = [j \in Jobs |-> "none"] /\ token = {} /\ channel = [j \in Jobs |-> <<>>]
    /\ sent = [j \in Jobs |-> "none"] /\ told = [j \in Jobs |-> "none"]

--------------------------------------------------------------------------------
(* The page.                                                                *)

\* by: the place in the store that waits for the reply; live: a poll whose epoch is
\* still the current one.
Call(cmd, n, by) == [cmd |-> cmd, n |-> n, by |-> by, live |-> TRUE]

Active == status \in {"running", "cancelling"}

Stale(calls) == [i \in 1..Len(calls) |-> [calls[i] EXCEPT !.live = FALSE]]

\* stopDesktopJobPolling raises the epoch: what is scheduled never polls, what is in
\* flight is ignored.
stopDesktopJobPolling(calls) ==
    /\ timers' = <<>> /\ replies' = Stale(replies) /\ wire' = Stale(wire) \o calls

startDesktopJob ==
    /\ mounted /\ starts < MaxJobs
    /\ pendingToken = 0 /\ jobId = 0 /\ ~Active
    /\ starts' = starts + 1 /\ pendingToken' = starts + 1
    /\ status' = "running" /\ result' = 0
    /\ stopDesktopJobPolling(<<Call("start", starts + 1, "start")>>)
    /\ UNCHANGED <<jobId, nav, bridge, registry, drained, workers, told>>

\* What cancelDesktopJob does to a search that is active.
Cancelling ==
    /\ status' = "cancelling"
    /\ wire' = IF jobId = 0 THEN wire ELSE Append(wire, Call("cancel", jobId, "cancel"))
    /\ UNCHANGED <<jobId, result, pendingToken, timers, starts, replies>>

cancelDesktopJob ==
    /\ mounted /\ Active /\ Len(wire) + Len(replies) < MaxCalls
    /\ Cancelling
    /\ UNCHANGED <<nav, bridge, registry, drained, workers, told>>

\* A changed request clears the result; clearDesktopTerminalResult does the same when
\* no job is known.
updateDesktopRequest ==
    /\ mounted /\ ~Active /\ status # "idle"
    /\ status' = "idle" /\ result' = 0
    /\ UNCHANGED <<jobId, pendingToken, timers, starts, nav, wire, replies, bridge, registry,
                   drained, workers, told>>

\* disposeDesktopJobPolling, then clearDesktopTerminalResult.
disposeDesktopJobPolling ==
    /\ pendingToken' = 0
    /\ IF ~Active /\ jobId = 0 THEN status' = "idle" /\ result' = 0
       ELSE /\ status' = IF pendingToken # 0 /\ jobId = 0 THEN "cancelling" ELSE status
            /\ UNCHANGED result
    /\ stopDesktopJobPolling(<<>>) /\ UNCHANGED <<jobId, starts>>

\* A workspace is left: some cancel an active job and let the polling go on, the
\* others stop it.
leave ==
    /\ mounted /\ leaves < MaxLeaves
    /\ mounted' = FALSE /\ leaves' = leaves + 1
    /\ \/ (Active \/ jobId # 0) /\ IF Active THEN Cancelling ELSE UNCHANGED <<page, wire, replies>>
       \/ disposeDesktopJobPolling
    /\ UNCHANGED <<bridge, registry, drained, workers, told>>

\* Fault: the polling that was stopped is not taken up again.
resumeDesktopJobPolling_none == UNCHANGED <<page, wire, replies>>

resumeDesktopJobPolling ==
    IF jobId = 0 THEN UNCHANGED <<page, wire, replies>>
    ELSE /\ timers' = <<jobId>> /\ replies' = Stale(replies) /\ wire' = Stale(wire)
         /\ UNCHANGED <<status, jobId, result, pendingToken, starts>>

\* The next workspace is mounted.
mount ==
    /\ ~mounted /\ mounted' = TRUE
    /\ resumeDesktopJobPolling
    /\ UNCHANGED <<leaves, bridge, registry, drained, workers, told>>

pollDesktopJob ==
    /\ timers # <<>> /\ timers' = Tail(timers)
    /\ wire' = IF jobId = Head(timers) THEN Append(wire, Call("poll", jobId, "poll")) ELSE wire
    /\ UNCHANGED <<status, jobId, result, pendingToken, starts, nav, replies, bridge, registry,
                   drained, workers, told>>

--------------------------------------------------------------------------------
(* Replies.                                                                 *)

Reply == Head(replies)
Schedule(j) == timers' = Append(timers, j)
Settle(s, j) == status' = s /\ jobId' = j
\* settleDisposedDesktopStart
SettleDisposed(s) == status' = IF jobId = 0 /\ status = "cancelling" THEN s ELSE status

\* Fault: a job whose start was given up is left to itself.
cancelDetachedDesktopJob_none(j) == wire' = wire /\ SettleDisposed("cancelled")

\* cancelDetachedDesktopJob up to its await.
cancelDetachedDesktopJob(j) == wire' = Append(wire, Call("cancel", j, "detached")) /\ UNCHANGED status

startReplied ==
    /\ Reply.by = "start" /\ replies' = Tail(replies)
    /\ IF pendingToken # Reply.n
       THEN /\ UNCHANGED <<jobId, pendingToken, timers>>
            /\ IF Reply.ok THEN cancelDetachedDesktopJob(Reply.job)
               ELSE SettleDisposed("cancelled") /\ UNCHANGED wire
       ELSE /\ pendingToken' = 0
            /\ IF ~Reply.ok THEN Settle("failed", 0) /\ UNCHANGED <<wire, timers>>
               ELSE /\ Settle(IF status = "cancelling" THEN status ELSE "running", Reply.job)
                    /\ IF status = "cancelling"
                       THEN /\ wire' = Append(wire, Call("cancel", Reply.job, "started"))
                            /\ UNCHANGED timers
                       ELSE Schedule(Reply.job) /\ UNCHANGED wire
    /\ UNCHANGED result

cancelReplied ==
    /\ Reply.cmd = "cancel" /\ replies' = Tail(replies)
    /\ \/ Reply.by = "cancel" /\ status' = (IF Reply.ok THEN status ELSE "failed")
          /\ UNCHANGED <<jobId, timers>>
       \/ /\ Reply.by = "detached" /\ SettleDisposed(IF Reply.ok THEN "cancelled" ELSE "failed")
          /\ UNCHANGED <<jobId, timers>>
       \/ /\ Reply.by = "started"
          /\ IF Reply.ok THEN Schedule(Reply.n) /\ UNCHANGED <<status, jobId>>
                         ELSE Settle("failed", 0) /\ UNCHANGED timers
    /\ UNCHANGED <<pendingToken, result, wire>>

Outcome(events) ==
    LET ends == SelectSeq(events, LAMBDA e : e \in Terminal) IN
    IF ends = <<>> THEN "none" ELSE Last(ends)

\* pollDesktopJob after its await, applyDesktopJobEvent for each event.
pollReplied ==
    /\ Reply.by = "poll"
    /\ LET end == Outcome(Reply.events) IN
       CASE ~Reply.live ->
              /\ replies' = Tail(replies) /\ UNCHANGED <<status, jobId, result, timers, wire>>
         [] Reply.live /\ (~Reply.ok \/ end # "none") ->
              /\ timers' = <<>> /\ replies' = Stale(Tail(replies)) /\ wire' = Stale(wire)
              /\ Settle(CASE ~Reply.ok \/ end = "refused" -> "failed"
                          [] end = "success" -> "completed" [] OTHER -> end, 0)
              /\ result' = IF Reply.ok /\ end \in {"success", "refused"} THEN Reply.n ELSE result
         [] OTHER ->
              /\ replies' = Tail(replies) /\ Schedule(Reply.n)
              /\ status' = IF Reply.events = <<>> \/ status = "cancelling" THEN status
                           ELSE "running"
              /\ UNCHANGED <<jobId, result, wire>>
    /\ UNCHANGED pendingToken

TakeReply ==
    /\ replies # <<>>
    /\ startReplied \/ cancelReplied \/ pollReplied
    /\ UNCHANGED <<starts, nav, bridge, registry, drained, workers, told>>

--------------------------------------------------------------------------------
(* The host.                                                                *)

Respond(c, ok, job, events) ==
    replies' = Append(replies, [cmd |-> c.cmd, n |-> c.n, by |-> c.by, live |-> c.live,
                                ok |-> ok, job |-> job, events |-> events])

Finished(j) == thread[j] \in {"ended", "panicked"}

ensure_no_running_job == active_job \notin Live

\* reap_finished_job_before_start goes through.
Reapable == active_job # 0 /\ active_job \notin Live

\* finish of the queue.
finish == 0

Refused(c) == Respond(c, FALSE, 0, <<>>)

\* start_job of commands.rs: activation, then start_job of the bridge.
start_job(c) ==
    /\ wire' = Tail(wire)
    /\ \/ Refused(c) /\ UNCHANGED <<bridge, registry, workers>>
       \/ ~ensure_no_running_job /\ Refused(c) /\ UNCHANGED <<bridge, registry, workers>>
       \/ /\ ensure_no_running_job /\ registry' = c.n
          /\ LET held == IF Reapable THEN finish ELSE queue IN
             IF held # 0
             THEN Refused(c) /\ UNCHANGED <<bridge, workers>>
             ELSE IF Reapable /\ thread[active_job] = "panicked"
             THEN /\ Refused(c) /\ UNCHANGED <<next_job_id, workers>>
                  /\ queue' = finish /\ active_job' = 0 /\ active_job_id' = 0
             ELSE /\ next_job_id' = next_job_id + 1
                  /\ queue' = next_job_id /\ active_job' = next_job_id /\ active_job_id' = next_job_id
                  /\ thread' = [thread EXCEPT ![next_job_id] = "spawned"]
                  /\ UNCHANGED <<token, channel, sent>>
                  /\ Respond(c, TRUE, next_job_id, <<>>)
    /\ UNCHANGED <<drained, told>>

cancel_job(c) ==
    /\ wire' = Tail(wire)
    /\ IF active_job_id = c.n THEN token' = token \cup {c.n} /\ Respond(c, TRUE, 0, <<>>)
                              ELSE token' = token /\ Refused(c)
    /\ UNCHANGED <<bridge, registry, drained, thread, channel, sent, told>>

\* drain_job_events takes what is there; the bridge stays locked.
drain_events(c) ==
    IF active_job_id = c.n
    THEN /\ drained' = channel[c.n] /\ channel' = [channel EXCEPT ![c.n] = <<>>]
         /\ UNCHANGED <<wire, replies, bridge, registry, thread, token, sent, told>>
    ELSE /\ wire' = Tail(wire) /\ Refused(c)
         /\ UNCHANGED <<bridge, registry, drained, workers, told>>

\* Fault: what was sent after the drain is dropped.
trailing_events_none(j) == <<>>

trailing_events(j) == IF thread[j] = "panicked" THEN <<"failed">> ELSE channel[j]

join(j) == Finished(j)

\* ... then joins a worker that is finished, or about to be because it has reported.
\* The pages of a success may fail to open: the events are lost to the caller, who
\* learns of an error.
get_job_events(c) ==
    /\ wire' = Tail(wire) /\ drained' = free
    /\ IF ~Finished(c.n) /\ Outcome(drained) = "none"
       THEN Respond(c, TRUE, 0, drained) /\ UNCHANGED <<bridge, channel, told>>
       ELSE /\ join(c.n)
            /\ LET got == drained \o trailing_events(c.n)
                   events == IF Outcome(got) = "none" THEN Append(got, "failed") ELSE got IN
               /\ \/ Respond(c, TRUE, 0, events)
                  \/ Outcome(events) = "success" /\ Refused(c)
               /\ told' = [told EXCEPT ![c.n] = Outcome(events)]
            /\ channel' = [channel EXCEPT ![c.n] = <<>>]
            /\ queue' = finish /\ active_job' = 0 /\ active_job_id' = 0 /\ UNCHANGED next_job_id
    /\ UNCHANGED <<registry, thread, token, sent>>

Host ==
    /\ wire # <<>>
    /\ LET c == Head(wire) IN
       \/ drained = free /\ c.cmd = "start" /\ start_job(c)
       \/ drained = free /\ c.cmd = "cancel" /\ cancel_job(c)
       \/ drained = free /\ c.cmd = "poll" /\ drain_events(c)
       \/ drained # free /\ get_job_events(c)
    /\ UNCHANGED <<page, nav>>

--------------------------------------------------------------------------------
(* Workers.                                                                 *)

Move(j, to) == thread' = [thread EXCEPT ![j] = to] /\ UNCHANGED token

Say(j, e) ==
    /\ channel' = [channel EXCEPT ![j] = Append(@, e)]
    /\ sent' = IF e \in Terminal THEN [sent EXCEPT ![j] = e] ELSE sent

\* The closure GuiJobRunner::spawn runs.  A thread that has reported still has to end.
spawn(j) ==
    /\ \/ thread[j] = "spawned" /\ j \in token /\ Say(j, "cancelled") /\ Move(j, "reported")
       \/ thread[j] = "spawned" /\ j \notin token /\ Say(j, "started") /\ Move(j, "running")
       \/ thread[j] = "running" /\ j \in token /\ Say(j, "cancelled") /\ Move(j, "reported")
       \/ thread[j] = "running" /\ j \notin token /\ Move(j, "finishing") /\ UNCHANGED <<channel, sent>>
       \/ /\ thread[j] = "finishing" /\ Move(j, "reported")
          /\ \E e \in {"success", "refused"} : Say(j, e)
       \/ thread[j] = "reported" /\ Move(j, "ended") /\ UNCHANGED <<channel, sent>>
    /\ UNCHANGED <<page, nav, wire, replies, bridge, registry, drained, told>>

panics(j) ==
    /\ thread[j] \in {"running", "finishing"} /\ Move(j, "panicked")
    /\ UNCHANGED <<channel, sent, page, nav, wire, replies, bridge, registry, drained, told>>

Next ==
    \/ startDesktopJob \/ cancelDesktopJob \/ updateDesktopRequest \/ leave \/ mount
    \/ pollDesktopJob \/ TakeReply \/ Host
    \/ \E j \in Jobs : spawn(j) \/ panics(j)

Spec == Init /\ [][Next]_vars

\* Timers fire, calls are answered, workers come to an end, and a workspace that is
\* left is followed by another.
FairSpec ==
    /\ Spec /\ WF_vars(pollDesktopJob) /\ WF_vars(TakeReply) /\ WF_vars(Host) /\ WF_vars(mount)
    /\ \A j \in Jobs : WF_vars(spawn(j))

--------------------------------------------------------------------------------
(* Properties.                                                              *)

\* The outcome get_job_events hands out is the one the worker sent, however its last
\* events fall between the drain, the end of the thread and the join; it is a failure
\* only of a worker that panicked.
ToldAsSent ==
    \A j \in Jobs : told[j] # "none" =>
        told[j] = IF thread[j] = "panicked" THEN "failed" ELSE sent[j]

\* A page that shows no search has none running behind it that was not cancelled,
\* whatever was left, started and given up ("otherwise a route change can orphan the
\* native job").
NoOrphan ==
    (~Active /\ jobId = 0 /\ wire = <<>> /\ replies = <<>>) => Live \subseteq token

\* A search the page shows under way comes to an outcome.
SearchSettles == Active ~> ~Active

================================================================================
