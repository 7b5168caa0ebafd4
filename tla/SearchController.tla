---------------------------- MODULE SearchController ----------------------------
(***************************************************************************)
(* The page's side of a search:                                            *)
(* packages/clearra-ui/src/lib/wasm/WasmTerminalWorkerController.ts and    *)
(* the store it shows the search in (wasmWorkerStore.ts), composed with a  *)
(* root worker that keeps RootWorkerContract.                              *)
(*                                                                         *)
(* Messages and events cross: each side acts on what the other did some    *)
(* time ago.  A worker is kept from one run to the next, released after    *)
(* anything but a success, and replaced by a new one when it is needed;    *)
(* the worker's variables are those of the worker in use or of the next.   *)
(* Warm-up messages, which the contract does not speak of, are left out.   *)
(***************************************************************************)
EXTENDS RootWorkerContract, SequencesExt

CONSTANTS
    MaxRuns,        \* runs at most
    MaxProgress,    \* progress events of a job at most
    MaxPages,       \* product page requests at most
    MaxMail         \* messages waiting for the worker when the page adds idle ones

ASSUME ControllerAssumption ==
    /\ MaxRuns \in 1..MaxJobs /\ {MaxProgress, MaxPages, MaxMail} \subseteq Nat

VARIABLES
    attached,       \* this.worker is not null
    inbox,          \* messages the worker has not taken yet
    read,           \* events of log the controller has taken
    runInFlight,    \* runInFlight
    cancelling,     \* cancellingWorker and cancelFallback are set
    runningJobId,   \* runningJobId, 0 for null
    newestStartedJobId, \* newestStartedJobId, 0 for null
    prewarmDeferred,    \* prewarmDeferred
    watchdog,       \* progressWatchdog is set
    pending,        \* productPageRequests
    status,         \* status of wasmWorkerState
    storeJob,       \* jobId of wasmWorkerState, 0 for null
    runs,           \* runs posted so far
    startedBy,      \* the run each job of the worker was started for
    shown,          \* the run whose outcome is shown, 0 for none
    requests,       \* page requests made so far
    page            \* the page resolved last: the last run then, and the run it is of

flight == <<runInFlight, cancelling, runningJobId, newestStartedJobId, prewarmDeferred, watchdog>>
store == <<status, storeJob, shown>>
pageVars == <<pending, requests, page>>
control == <<attached, flight, store, pageVars, runs>>
vars == <<workerVars, inbox, read, startedBy, control>>

Message(t, n) == [type |-> t, id |-> n]

Send(ms) == inbox' = inbox \o ms

Init ==
    /\ NewWorker /\ attached = FALSE /\ inbox = <<>> /\ read = 0
    /\ runInFlight = FALSE /\ cancelling = FALSE /\ runningJobId = 0 /\ newestStartedJobId = 0
    /\ prewarmDeferred = FALSE /\ watchdog = FALSE
    /\ status = "idle" /\ storeJob = 0 /\ shown = 0
    /\ pending = {} /\ requests = 0 /\ page = <<0, 0>>
    /\ runs = 0 /\ startedBy = [j \in 1..MaxJobs |-> 0]

--------------------------------------------------------------------------------
(* Owning a worker.                                                         *)

Fresh ==
    /\ active' = 0 /\ nextJobId' = 1 /\ cancelled' = FALSE /\ terminalPosted' = FALSE
    /\ pages' = 0 /\ closed' = FALSE /\ log' = <<>>
    /\ inbox' = <<>> /\ read' = 0 /\ startedBy' = [j \in 1..MaxJobs |-> 0]

\* Fault: the requests stay.
rejectProductPages_kept == pending

rejectProductPages == {}

\* releaseWorker and disposeOwnedWorker: the handlers are taken off and the
\* worker is terminated, with whatever it was doing and had posted.
\* flushDeferredPrewarm, which follows, may attach the next one at once.
releaseWorker(next) ==
    /\ Fresh
    /\ attached' = next /\ cancelling' = FALSE /\ watchdog' = FALSE /\ runningJobId' = 0
    /\ newestStartedJobId' = IF next THEN 0 ELSE newestStartedJobId
    /\ pending' = rejectProductPages /\ UNCHANGED <<requests, page>>

\* A run that is over, the deferred warm-up with it.
Over(s, n) ==
    /\ runInFlight' = FALSE /\ prewarmDeferred' = FALSE
    /\ status' = s /\ storeJob' = 0 /\ shown' = n

\* terminateCancelledWorker, failClosedWorker, the watchdog.
Terminate(s) ==
    /\ releaseWorker(prewarmDeferred) /\ Over(s, 0) /\ UNCHANGED runs

--------------------------------------------------------------------------------
(* Calls of the page.                                                       *)

Admits == ~runInFlight /\ ~cancelling

\* Fault: what the last worker had started is remembered of the next.
newestOfNewWorker_kept == newestStartedJobId

newestOfNewWorker == 0

\* A stale or oversized worker is replaced first.
run(stale) ==
    /\ Admits /\ runs < MaxRuns
    /\ runs' = runs + 1
    /\ LET mail == <<Message("release", 0), Message("run", runs + 1)>> IN
       IF attached /\ ~stale
       THEN Send(mail) /\ UNCHANGED <<workerVars, read, startedBy, newestStartedJobId>>
       ELSE /\ active' = 0 /\ nextJobId' = 1 /\ cancelled' = FALSE /\ terminalPosted' = FALSE
            /\ pages' = 0 /\ closed' = FALSE /\ log' = <<>>
            /\ inbox' = mail /\ read' = 0 /\ startedBy' = [j \in 1..MaxJobs |-> 0]
            /\ newestStartedJobId' = newestOfNewWorker
    /\ attached' = TRUE /\ runInFlight' = TRUE /\ runningJobId' = 0 /\ watchdog' = FALSE
    /\ status' = "running" /\ storeJob' = 0 /\ shown' = 0
    /\ pending' = rejectProductPages
    /\ UNCHANGED <<cancelling, prewarmDeferred, requests, page>>

\* The factory throws or gives nothing, or the message cannot be posted.
runFails ==
    /\ Admits /\ runs < MaxRuns
    /\ runs' = runs + 1
    /\ releaseWorker(prewarmDeferred) /\ Over("failed", 0)

prewarm ==
    /\ IF runInFlight THEN prewarmDeferred' = TRUE /\ UNCHANGED <<attached, newestStartedJobId>>
       ELSE /\ prewarmDeferred' = FALSE /\ attached' = TRUE
            /\ newestStartedJobId' = IF attached THEN newestStartedJobId ELSE 0
    /\ UNCHANGED <<workerVars, inbox, read, startedBy, runInFlight, cancelling, runningJobId,
                   watchdog, store, pageVars, runs>>

\* cancel: a page being computed costs the worker, a run is asked to end.
cancel ==
    /\ attached /\ ~cancelling
    /\ IF ~runInFlight
       THEN IF pending # {}
            THEN releaseWorker(FALSE) /\ UNCHANGED <<runInFlight, prewarmDeferred, store, runs>>
            ELSE /\ Len(inbox) < MaxMail /\ Send(<<Message("release", 0)>>)
                 /\ UNCHANGED <<workerVars, read, startedBy, control>>
       ELSE /\ Send(<<Message("release", 0), Message("cancel", storeJob)>>)
            /\ status' = "cancelling" /\ cancelling' = TRUE /\ watchdog' = FALSE
            /\ pending' = rejectProductPages
            /\ UNCHANGED <<workerVars, read, startedBy, attached, runInFlight, runningJobId,
                           newestStartedJobId, prewarmDeferred, storeJob, shown, requests, page,
                           runs>>

cancelTimesOut == cancelling /\ Terminate("terminated")

watchdogFires == watchdog /\ runInFlight /\ Terminate("terminated")

\* dispose, also before a new factory or snapshot is set.
dispose ==
    /\ attached
    /\ releaseWorker(FALSE)
    /\ runInFlight' = FALSE /\ prewarmDeferred' = FALSE
    /\ IF runInFlight THEN status' = "terminated" /\ storeJob' = 0 /\ shown' = 0
                      ELSE UNCHANGED store
    /\ UNCHANGED runs

\* The worker goes to another owner.
takeIdleWorker ==
    /\ attached /\ ~runInFlight /\ ~cancelling /\ pending = {}
    /\ Fresh /\ attached' = FALSE
    /\ UNCHANGED <<flight, store, pageVars, runs>>

requestProductPage ==
    /\ attached /\ ~runInFlight /\ ~cancelling /\ requests < MaxPages
    /\ requests' = requests + 1 /\ pending' = pending \cup {requests + 1}
    /\ Send(<<Message("page", requests + 1)>>)
    /\ UNCHANGED <<workerVars, read, startedBy, attached, flight, store, page, runs>>

\* The reader of a page gives up, or its deadline passes: the worker goes too.
pageGivenUp ==
    /\ pending # {}
    /\ releaseWorker(FALSE) /\ UNCHANGED <<runInFlight, prewarmDeferred, store, runs>>

clearWasmTerminalResult ==
    /\ status \notin {"idle", "running", "cancelling"}
    /\ status' = "idle" /\ storeJob' = 0 /\ shown' = 0
    /\ UNCHANGED <<workerVars, inbox, read, startedBy, attached, flight, pageVars, runs>>

--------------------------------------------------------------------------------
(* Events of the worker.                                                    *)

\* Fault: the event of any job is taken for one of the run in flight.
acceptCurrentJobEvent_any(m) == runInFlight /\ (m.event = "started" => runningJobId = 0)

acceptCurrentJobEvent(m) ==
    /\ runInFlight
    /\ IF m.event = "started" THEN runningJobId = 0 /\ m.job > newestStartedJobId
                              ELSE m.job = runningJobId

Shows == [success |-> "completed", refused |-> "failed", failed |-> "failed",
          cancelled |-> "cancelled"]

Take == read' = read + 1 /\ UNCHANGED <<workerVars, inbox, startedBy>>

\* resolveProductPage.
onPage(m) ==
    /\ Take
    /\ pending' = pending \ {m.id}
    /\ page' = IF m.id \in pending /\ m.job # 0 THEN <<runs, startedBy[m.job]>> ELSE page
    /\ UNCHANGED <<attached, flight, store, requests, runs>>

\* observeBoundedProgress.  The deadlines of the preparation and of the search are
\* opt-in, and nothing but a test gives one: without, no watchdog is set.
observeBoundedProgress == \E timed \in BOOLEAN : watchdog' = (timed /\ ~cancelling)

onStarted(m) ==
    /\ Take
    /\ runningJobId' = m.job /\ newestStartedJobId' = m.job /\ storeJob' = m.job
    /\ observeBoundedProgress
    /\ UNCHANGED <<attached, runInFlight, cancelling, prewarmDeferred, status, shown, pageVars, runs>>

onProgress(m) ==
    /\ Take
    /\ observeBoundedProgress
    /\ UNCHANGED <<attached, runInFlight, cancelling, runningJobId, newestStartedJobId,
                   prewarmDeferred, store, pageVars, runs>>

\* A success keeps the worker; the cancellation it crosses is dropped.
onSuccess(m) ==
    /\ Take
    /\ Over("completed", startedBy[m.job])
    /\ cancelling' = FALSE /\ watchdog' = FALSE
    /\ runningJobId' = IF cancelling THEN runningJobId ELSE 0
    /\ UNCHANGED <<attached, newestStartedJobId, pageVars, runs>>

onOutcome(m) ==
    /\ releaseWorker(prewarmDeferred)
    /\ Over(Shows[m.event], startedBy[m.job]) /\ UNCHANGED runs

onmessage ==
    /\ attached /\ read < Len(log)
    /\ LET m == log[read + 1] IN
       \/ m.event = "page" /\ onPage(m)
       \/ /\ m.event # "page" /\ acceptCurrentJobEvent(m)
          /\ \/ m.event = "started" /\ onStarted(m)
             \/ m.event = "progress" /\ onProgress(m)
             \/ m.event = "success" /\ onSuccess(m)
             \/ m.event \in Terminal \ {"success"} /\ onOutcome(m)
       \/ m.event # "page" /\ ~acceptCurrentJobEvent(m) /\ Take /\ UNCHANGED control

\* onerror and onmessageerror.
workerErrs == attached /\ Terminate("failed")

--------------------------------------------------------------------------------
(* The worker.                                                              *)

Alone == UNCHANGED <<inbox, read, startedBy, control>>

Handled == inbox' = Tail(inbox) /\ UNCHANGED <<read, control>>

\* The worker takes its next message.
Takes ==
    /\ attached /\ ~closed /\ inbox # <<>>
    /\ LET m == Head(inbox) IN
       \/ /\ m.type = "run" /\ active = 0
          /\ Start /\ startedBy' = [startedBy EXCEPT ![nextJobId] = m.id]
       \/ m.type = "run" /\ active # 0 /\ Refuse /\ UNCHANGED startedBy
       \/ /\ m.type = "cancel" /\ active # 0 /\ ~terminalPosted /\ m.id \in {0, active}
          /\ Note /\ UNCHANGED startedBy
       \/ /\ m.type = "cancel" /\ ~(active # 0 /\ ~terminalPosted /\ m.id \in {0, active})
          /\ UNCHANGED <<workerVars, startedBy>>
       \/ m.type = "release" /\ active = 0 /\ Release /\ UNCHANGED startedBy
       \/ m.type = "release" /\ active # 0 /\ UNCHANGED <<workerVars, startedBy>>
       \/ /\ m.type = "page"
          /\ log' = Append(log, [event |-> "page", job |-> pages, id |-> m.id])
          /\ UNCHANGED <<active, nextJobId, cancelled, terminalPosted, pages, closed, startedBy>>
    /\ Handled

\* The job goes on: it posts progress and in the end its outcome.  After any but a
\* success the page releases the worker, whatever that still does.
Works ==
    /\ attached
    /\ \/ Proceed /\ Posted("progress", active) < MaxProgress
       \/ Succeed(TRUE)
       \/ Succeed(FALSE)
       \/ Settle
       \/ \E e \in Terminal \ {"success"} : End(e)
    /\ Alone

\* An error nobody handles while no job is active: the worker closes itself and
\* tells nobody.
ClosesSilently == attached /\ active = 0 /\ Close /\ Alone

--------------------------------------------------------------------------------

Page ==
    \/ \E stale \in BOOLEAN : run(stale)
    \/ runFails \/ prewarm \/ cancel \/ dispose \/ takeIdleWorker \/ requestProductPage
    \/ pageGivenUp \/ clearWasmTerminalResult

Next ==
    \/ Page \/ cancelTimesOut \/ watchdogFires \/ onmessage \/ workerErrs
    \/ Takes \/ Works \/ ClosesSilently

Spec == Init /\ [][Next]_vars

\* Both sides run, the grace of a cancellation is a timer that is always set, and
\* a job comes to its outcome and lets go of what it holds (JobsEnd of RootWorker).
\* Nothing is assumed of the watchdog, which is set only where a deadline is given.
FairSpec ==
    Spec /\ WF_vars(cancelTimesOut) /\ WF_vars(onmessage) /\ WF_vars(Takes) /\ WF_vars(Works)

--------------------------------------------------------------------------------
(* Properties.                                                              *)

\* An outcome that is shown is that of the last run, never that of an earlier one
\* whose events were still under way or which is still letting go
\* (acceptCurrentJobEvent).
OutcomeIsOwn == shown # 0 => shown = runs

\* A product page that is delivered is of the last run, although requests, releases
\* and runs cross it.
PagesAreCurrent == page[1] = page[2]

\* The page is told of every end: a run whose worker has taken it up, and whose
\* job therefore ends, and every run that is cancelled, whatever its worker does,
\* comes to an outcome the page shows, although events of earlier jobs, releases
\* and cancellations cross its own (acceptCurrentJobEvent, the grace timer of
\* cancel).  A run that its worker refuses, that was posted to a worker already
\* closed, or whose worker falls silent, waits for the user to cancel it.
RunsEnd ==
    runInFlight /\ (status = "cancelling" \/ runs \in Range(startedBy)) ~> ~runInFlight

================================================================================
