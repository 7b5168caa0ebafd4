------------------------------- MODULE RootWorker -------------------------------
(***************************************************************************)
(* The root search worker: apps/clearra-web/src/workers/clearraWorker.ts,  *)
(* the product runner it makes for each job (ClearraProductJobRunner.ts)   *)
(* and the serial, online and distributed runners that one picks from      *)
(* (WasmJobRunner.ts, DistributedWasmJobRunner.ts).                        *)
(*                                                                         *)
(* One thread serves messages, timers and promises.  A job awaits the      *)
(* module, the accelerators, the tablebase, the lease and its runner, and  *)
(* any message can come in between.  Warm-ups of the module, the           *)
(* verifiers, the GPU and the tablebase run beside it; a warm-up that was  *)
(* interrupted still ends, and must then do nothing.                       *)
(***************************************************************************)
EXTENDS Naturals, Sequences

CONSTANTS
    MaxJobs,        \* jobs at most
    MaxProgress,    \* progress events of a job at most
    MaxPrewarms,    \* prewarm messages at most
    Policies        \* the warm-up policies the owner asks for

ASSUME RootAssumption ==
    /\ MaxJobs \in Nat \ {0} /\ {MaxProgress, MaxPrewarms} \subseteq Nat
    /\ Policies \subseteq {"off", "root", "cpu", "gpu", "full"} /\ Policies # {}

VARIABLES
    active, nextJobId, cancelled, terminalPosted, pages, closed, log,
    phase,          \* where runCommandText is
    online,         \* tablebaseRequested as its runner was given it
    lease,          \* the execution lease is held
    coordinator,    \* coordinatorOwned
    poolOwned,      \* poolOwned
    rust,           \* a job of the serial or online runner lives in the module
    late,           \* what a job that was closed upon may still post
    pool,           \* the shared verifiers: "cold", "warm", "job"
    warm,           \* the module, its warm-ups and the tablebase
    policy,         \* warmupPolicy
    asked           \* prewarm messages received

job == <<active, nextJobId, cancelled, terminalPosted>>
held == <<lease, coordinator, poolOwned, rust>>
vars == <<job, pages, closed, log, phase, online, held, late, pool, warm, policy, asked>>

C == INSTANCE RootWorkerContract

Event(e, j) == [event |-> e, job |-> j]

Cpu(p) == p \in {"root", "cpu", "full"}
Gpu(p) == p \in {"gpu", "full"}
Verifiers(p) == p # "root"

None == [tb |-> FALSE, policy |-> "none"]

\* wasm: loadedWasm; gen, on, chains: the generation of the runtime warm-up,
\* whether one is current, and those that have not ended; root, verifiers: what
\* has been warmed; pending: pendingRuntimePrewarm; gpu, gpuDone: gpuWarmup and
\* gpuWarmupCompleted; tb, deferred: tablebaseRequested and
\* deferredTablebaseRequested; transport: tablebaseWarmup; shown: the tablebase
\* phase that was posted last.
Cold == [wasm |-> FALSE, gen |-> 0, on |-> FALSE, chains |-> {}, root |-> FALSE,
         verifiers |-> FALSE, pending |-> None, gpu |-> FALSE, gpuDone |-> FALSE,
         tb |-> FALSE, deferred |-> FALSE, transport |-> FALSE, shown |-> "none"]

Init ==
    /\ C!NewWorker
    /\ phase = "idle" /\ online = FALSE
    /\ lease = FALSE /\ coordinator = FALSE /\ poolOwned = FALSE /\ rust = FALSE
    /\ late = {} /\ pool = "cold" /\ warm = Cold
    /\ policy \in Policies /\ asked = 0

--------------------------------------------------------------------------------
(* Warm-ups, as functions of what is warm.                                  *)

startGpuWarmupAfterWasm(w, p) == [w EXCEPT !.gpu = w.gpu \/ (Gpu(p) /\ ~w.gpuDone)]

startTablebaseTransportWarmup(w) ==
    IF w.tb /\ ~w.transport THEN [w EXCEPT !.transport = TRUE, !.shown = "loading"] ELSE w

setTablebaseRequested(w, on) ==
    CASE on = w.tb -> w
      [] on /\ ~w.tb -> startTablebaseTransportWarmup([w EXCEPT !.tb = TRUE])
      [] OTHER -> [w EXCEPT !.tb = FALSE, !.shown = "disabled"]

\* A new generation of the warm-up.
freshWarmup(w, p) ==
    [w EXCEPT !.gen = w.gen + 1, !.on = TRUE,
       !.chains = w.chains \cup {[gen |-> w.gen + 1, at |-> "load", policy |-> p]}]

\* startRuntimePrewarm while no job is active: nothing to warm, one under way,
\* all warm already, or a new generation.
startRuntimePrewarm(w0, tb, p) ==
    LET w == setTablebaseRequested([w0 EXCEPT !.deferred = tb], tb)
        completed == w.verifiers \/ (~Verifiers(p) /\ w.root) IN
    CASE ~Cpu(p) /\ ~Gpu(p) /\ ~tb -> w
      [] (Cpu(p) \/ Gpu(p) \/ tb) /\ w.on -> [w EXCEPT !.pending = [tb |-> tb, policy |-> p]]
      [] (Cpu(p) \/ Gpu(p) \/ tb) /\ ~w.on /\ completed
           -> IF w.wasm THEN startTablebaseTransportWarmup(startGpuWarmupAfterWasm(w, p)) ELSE w
      [] OTHER -> freshWarmup(w, p)

\* While one is active only the tablebase may be turned on.
startWhileActive(w, tb) ==
    LET d == [w EXCEPT !.deferred = tb] IN IF tb THEN setTablebaseRequested(d, TRUE) ELSE d

\* A current warm-up ends and gives way to the one that was asked for meanwhile.
endWarmup(w) ==
    LET e == [w EXCEPT !.on = FALSE, !.pending = None] IN
    IF w.pending # None /\ active = 0
    THEN startRuntimePrewarm(e, w.pending.tb, w.pending.policy) ELSE e

\* interruptIncompleteRuntimePrewarm: the chain is left to end by itself.
interruptIncompleteRuntimePrewarm(w) ==
    LET g == IF w.gpu THEN [w EXCEPT !.gpu = FALSE, !.gpuDone = FALSE] ELSE w IN
    IF w.on THEN [g EXCEPT !.gen = w.gen + 1, !.on = FALSE, !.pending = None,
                           !.root = FALSE, !.verifiers = FALSE]
            ELSE g

--------------------------------------------------------------------------------
(* The ends of a job.                                                       *)

\* The steps that post: one event, and the worker's own state.
Post(e) == log' = Append(log, Event(e, active))

\* releaseFailedRun and the runners' dispose: everything the job holds.
LetGo ==
    /\ lease' = FALSE /\ coordinator' = FALSE /\ poolOwned' = FALSE /\ rust' = FALSE
    /\ pool' = IF poolOwned THEN "cold" ELSE pool

\* closeFailClosedWorker, once the job has let go.  The job is an object of its
\* own, and keeps cancelled and terminalPosted.
closeFailClosedWorker ==
    /\ closed' = TRUE /\ active' = 0
    /\ phase' = "idle" /\ online' = FALSE /\ pages' = 0 /\ warm' = Cold
    /\ UNCHANGED <<nextJobId, policy, asked>>

\* The end of runCommandText after a success: the next warm-up begins.
Idle ==
    /\ active' = 0 /\ terminalPosted' = TRUE /\ phase' = "idle" /\ online' = FALSE
    /\ warm' = startRuntimePrewarm(warm, warm.deferred, policy)
    /\ UNCHANGED <<nextJobId, cancelled, closed, late, policy, asked>>

\* An outcome other than success: the worker closes.
Ended(e) == LetGo /\ Post(e) /\ closeFailClosedWorker /\ terminalPosted' = TRUE /\ UNCHANGED late

End(e) == Ended(e) /\ UNCHANGED cancelled

\* The catch of runCommandText; an outcome may have been posted before.
Throw ==
    /\ active # 0
    /\ IF cancelled /\ terminalPosted
       THEN LetGo /\ closeFailClosedWorker /\ UNCHANGED <<cancelled, terminalPosted, log, late>>
       ELSE End(IF cancelled THEN "cancelled" ELSE "failed")

--------------------------------------------------------------------------------
(* Messages of the owner.                                                   *)

\* updateRuntimeAuthority comes first.
OnPrewarm(tb, p) ==
    /\ ~closed /\ asked < MaxPrewarms
    /\ asked' = asked + 1 /\ policy' = p
    /\ warm' = IF active # 0 THEN startWhileActive(warm, tb) ELSE startRuntimePrewarm(warm, tb, p)
    /\ UNCHANGED <<job, pages, closed, log, phase, online, held, late, pool>>

\* Loaded is what follows the load of the module up to the next await.
Loaded(w) ==
    /\ phase' = "preparing" /\ pages' = 0 /\ warm' = [w EXCEPT !.wasm = TRUE]

runCommandText(tb, p) ==
    /\ ~closed /\ active = 0 /\ nextJobId <= MaxJobs
    /\ active' = nextJobId /\ nextJobId' = nextJobId + 1
    /\ cancelled' = FALSE /\ terminalPosted' = FALSE
    /\ policy' = p
    /\ log' = Append(log, Event("started", nextJobId))
    /\ LET w == interruptIncompleteRuntimePrewarm(
                  setTablebaseRequested([warm EXCEPT !.deferred = tb], tb)) IN
       IF w.wasm THEN Loaded(w) ELSE phase' = "loading" /\ warm' = w /\ UNCHANGED pages
    /\ UNCHANGED <<closed, online, held, late, pool, asked>>

\* A run that comes while a job is active; one per job.
Refuse(p) ==
    /\ ~closed /\ active # 0 /\ C!Posted("failed", active) = 0
    /\ policy' = p /\ Post("failed")
    /\ UNCHANGED <<job, pages, closed, phase, online, held, late, pool, warm, asked>>

\* cancelActiveJob.  The distributed runner lets go at once, the others ask the
\* module to end the job.
cancelActiveJob ==
    /\ ~closed /\ active # 0 /\ ~terminalPosted
    /\ cancelled' = TRUE
    /\ IF phase \in {"acquiring", "distributed"} THEN LetGo ELSE UNCHANGED <<held, pool>>
    /\ pages' \in {0, pages}
    /\ UNCHANGED <<active, nextJobId, terminalPosted, closed, log, phase, online, late, warm,
                   policy, asked>>

\* The cleanup of a cancellation throws.
cancellationFails ==
    /\ ~closed /\ active # 0 /\ ~terminalPosted
    /\ phase \in {"acquiring", "distributed"}
    /\ cancelled' = TRUE /\ Ended("cancelled")

releaseProductPages ==
    /\ ~closed /\ pages # 0 /\ pages' = 0
    /\ UNCHANGED <<job, closed, log, phase, online, held, late, pool, warm, policy, asked>>

\* A closed worker still runs what its last step made ready.  The waits for the
\* lease, the verifiers and the ranges end in the job's catch.  The wait for the
\* tablebase just ends: a job that is not cancelled goes on, without the tablebase
\* when the runtime was disposed of, to whatever it posts before it must wait again,
\* and otherwise to the failure of its online runner.
Reports(unhandled) ==
    late' = {e \in C!Terminal \cup {"progress"} :
               /\ active # 0 /\ phase \in {"warming", "acquiring", "distributed", "online"}
               /\ IF cancelled THEN e = "cancelled" /\ ~unhandled
                  ELSE \/ e = "failed"
                       \/ e = "progress" /\ phase = "warming"
                       \/ e \in {"success", "refused"} /\ phase = "warming" /\ ~unhandled}

disposeRuntime ==
    /\ ~closed
    /\ Reports(FALSE) /\ LetGo /\ closeFailClosedWorker
    /\ UNCHANGED <<cancelled, terminalPosted, log>>

\* An error nobody handles.
failCloseUnhandled ==
    /\ ~closed
    /\ Reports(TRUE)
    /\ IF active # 0 /\ ~terminalPosted
       THEN Post("failed") /\ terminalPosted' = TRUE
       ELSE UNCHANGED <<log, terminalPosted>>
    /\ LetGo /\ closeFailClosedWorker /\ UNCHANGED cancelled

\* What such a job holds is gone with its worker, and is not followed.
reportLate(e) ==
    /\ e \in late
    /\ e = "progress" => C!Posted("progress", nextJobId - 1) < MaxProgress
    /\ log' = Append(log, Event(e, nextJobId - 1))
    /\ IF e = "progress" THEN UNCHANGED <<late, terminalPosted>>
                         ELSE late' = {} /\ terminalPosted' = TRUE
    /\ UNCHANGED <<active, nextJobId, cancelled, pages, closed, phase, online, held, pool, warm,
                   policy, asked>>

--------------------------------------------------------------------------------
(* The job, from one await to the next.                                     *)

moduleLoads ==
    /\ phase = "loading"
    /\ Loaded(warm)
    /\ UNCHANGED <<job, closed, log, online, held, late, pool, policy, asked>>

\* The preparation is over: the cancelled job ends, the other gets its runner.
Prepared(w) ==
    IF cancelled THEN End("cancelled")
    ELSE /\ phase' = "acquiring" /\ online' = w.tb /\ warm' = w
         /\ Post("progress")
         /\ UNCHANGED <<job, pages, closed, held, late, pool, policy, asked>>

acceleratorsActivated ==
    /\ phase = "preparing"
    /\ IF warm.tb
       THEN /\ phase' = "warming" /\ warm' = startTablebaseTransportWarmup(warm)
            /\ UNCHANGED <<job, pages, closed, log, online, held, late, pool, policy, asked>>
       ELSE Prepared(warm)

Outcome == {"success", "refused", "failed"}

\* finishPreparedResult, and the end of the distributed and the serial run.
Finish(e) ==
    IF e = "success"
    THEN /\ Post("success") /\ pages' \in {0, active}
         /\ lease' = FALSE /\ coordinator' = FALSE /\ poolOwned' = FALSE /\ rust' = FALSE
         /\ pool' = IF poolOwned THEN "warm" ELSE pool
         /\ Idle
    ELSE End(e)

Keep == UNCHANGED <<job, pages, closed, online, late, warm, policy, asked>>

\* acquire returns: the online runner, or the plan of prepare.
onlineRuns ==
    /\ phase = "acquiring" /\ ~cancelled /\ online
    /\ phase' = "online" /\ lease' = TRUE /\ rust' = TRUE
    /\ UNCHANGED <<coordinator, poolOwned, pool, log>> /\ Keep

readyFinishes(e) ==
    /\ phase = "acquiring" /\ ~cancelled /\ ~online
    /\ Finish(e)

distributedRuns(initialized) ==
    /\ phase = "acquiring" /\ ~cancelled /\ ~online
    /\ phase' = "distributed" /\ lease' = TRUE /\ coordinator' = TRUE
    /\ poolOwned' = initialized /\ pool' = IF initialized THEN "job" ELSE pool
    /\ UNCHANGED <<rust, log>> /\ Keep

\* Fault: the reset of the coordinator also gives up the lease.
serialRuns_released ==
    /\ phase = "acquiring" /\ ~cancelled /\ ~online
    /\ phase' = "serial" /\ rust' = TRUE
    /\ Post("progress")
    /\ UNCHANGED <<lease, coordinator, poolOwned, pool>> /\ Keep

serialRuns ==
    /\ phase = "acquiring" /\ ~cancelled /\ ~online
    /\ phase' = "serial" /\ lease' = TRUE /\ rust' = TRUE
    /\ Post("progress")
    /\ UNCHANGED <<coordinator, poolOwned, pool>> /\ Keep

poolInitializes ==
    /\ phase = "distributed" /\ lease /\ ~poolOwned
    /\ poolOwned' = TRUE /\ pool' = "job"
    /\ UNCHANGED <<lease, coordinator, rust, log, phase>> /\ Keep

Proceeds ==
    /\ phase \in {"distributed", "serial", "online"} /\ ~terminalPosted
    /\ C!Posted("progress", active) < MaxProgress
    /\ Post("progress")
    /\ UNCHANGED <<held, pool, phase>> /\ Keep

\* requireActive: not once the run has been released.
distributedFinishes(e) == phase = "distributed" /\ lease /\ Finish(e)

\* Fault: a cancelled job is advanced like any other.
ModuleEnds_advanced(e) == e \in Outcome

\* Fault: a cancelled job is neither advanced nor drained.
ModuleEnds_undrained(e) == ~cancelled /\ e \in Outcome

\* A cancelled job of the module is advanced no more; it reports cancelled.
ModuleEnds(e) == IF cancelled THEN e = "cancelled" ELSE e \in Outcome

serialFinishes(e) == phase = "serial" /\ ModuleEnds(e) /\ Finish(e)

\* The online runner posts its outcome and then awaits its readers.
onlineFinishes(e) ==
    /\ phase = "online" /\ ModuleEnds(e)
    /\ phase' = "releasing" /\ terminalPosted' = TRUE /\ rust' = FALSE
    /\ Post(e) /\ IF e = "success" THEN pages' \in {0, active} ELSE UNCHANGED pages
    /\ UNCHANGED <<active, nextJobId, cancelled, closed, online, lease, coordinator, poolOwned,
                   late, pool, warm, policy, asked>>

onlineReleases ==
    /\ phase = "releasing"
    /\ IF C!Posted("success", active) > 0
       THEN lease' = FALSE /\ Idle /\ UNCHANGED <<coordinator, poolOwned, rust, pool, pages, log>>
       ELSE LetGo /\ closeFailClosedWorker /\ UNCHANGED <<cancelled, terminalPosted, log, late>>

\* A run that was released throws at its next step, an aborted wait at once.
Aborts ==
    /\ (phase = "acquiring" /\ cancelled) \/ (phase = "distributed" /\ ~lease)
    /\ Throw

--------------------------------------------------------------------------------
(* The ends of warm-ups.                                                    *)

Others == UNCHANGED <<job, pages, closed, log, phase, online, held, late, policy, asked>>

Current(c) == c.gen = warm.gen

\* A chain that was interrupted returns when its load resolves.
warmupLoads(c) ==
    LET rest == [warm EXCEPT !.chains = @ \ {c}]
        root == startTablebaseTransportWarmup(startGpuWarmupAfterWasm(
                    [rest EXCEPT !.wasm = TRUE, !.root = TRUE], c.policy))
        on == Cpu(c.policy) /\ Verifiers(c.policy)
                /\ (warm.pending # None => Verifiers(warm.pending.policy)) IN
    /\ c.at = "load"
    /\ warm' = CASE ~Current(c) -> rest
                 [] Current(c) /\ on -> [root EXCEPT !.chains = @ \cup {[c EXCEPT !.at = "verifiers"]}]
                 [] OTHER -> endWarmup(root)
    /\ UNCHANGED pool /\ Others

\* The verifiers of an interrupted chain are warm all the same.
verifiersWarm(c) ==
    LET rest == [warm EXCEPT !.chains = @ \ {c}] IN
    /\ c.at = "verifiers"
    /\ warm' = IF Current(c) THEN endWarmup([rest EXCEPT !.verifiers = TRUE]) ELSE rest
    /\ pool' = IF pool = "cold" THEN "warm" ELSE pool
    /\ Others

\* Fault: disposes of the verifiers without a look at the generation.
warmupFails_any(c) ==
    /\ warm' = IF Current(c) THEN endWarmup([warm EXCEPT !.chains = @ \ {c}, !.verifiers = FALSE])
                             ELSE [warm EXCEPT !.chains = @ \ {c}]
    /\ pool' = "cold" /\ Others

\* A load that is rejected, verifiers that fail or take too long.
warmupFails(c) ==
    LET rest == [warm EXCEPT !.chains = @ \ {c}] IN
    /\ IF Current(c)
       THEN warm' = endWarmup([rest EXCEPT !.verifiers = FALSE]) /\ pool' = "cold"
       ELSE warm' = rest /\ UNCHANGED pool
    /\ Others

gpuEnds(ok) ==
    /\ warm.gpu
    /\ warm' = [warm EXCEPT !.gpu = FALSE, !.gpuDone = ok]
    /\ UNCHANGED pool /\ Others

publish(w, p) == [w EXCEPT !.transport = FALSE, !.shown = IF w.tb THEN p ELSE @]

\* The transport is up or not; the job that awaits it goes on in the same turn.
transportEnds(p) ==
    /\ warm.transport
    /\ IF phase = "warming" THEN Prepared(publish(warm, p))
       ELSE warm' = publish(warm, p) /\ UNCHANGED pool /\ Others

--------------------------------------------------------------------------------

JobStep ==
    \/ moduleLoads \/ acceleratorsActivated \/ onlineRuns \/ serialRuns \/ poolInitializes
    \/ Proceeds \/ onlineReleases \/ Aborts
    \/ \E i \in BOOLEAN : distributedRuns(i)
    \/ \E e \in Outcome : readyFinishes(e) \/ distributedFinishes(e)
    \/ \E e \in Outcome \cup {"cancelled"} : serialFinishes(e) \/ onlineFinishes(e)

WarmupStep == \E c \in warm.chains : warmupLoads(c) \/ verifiersWarm(c) \/ warmupFails(c)

TransportStep == \E p \in {"ready", "unavailable"} : transportEnds(p)

Message ==
    \/ \E tb \in BOOLEAN, p \in Policies : OnPrewarm(tb, p) \/ runCommandText(tb, p)
    \/ \E p \in Policies : Refuse(p)
    \/ cancelActiveJob \/ cancellationFails \/ releaseProductPages \/ disposeRuntime

Next ==
    \/ Message \/ JobStep \/ WarmupStep \/ TransportStep
    \/ \E ok \in BOOLEAN : gpuEnds(ok)
    \/ Throw \/ failCloseUnhandled
    \/ \E e \in C!Terminal \cup {"progress"} : reportLate(e)

Spec == Init /\ [][Next]_vars

\* Loads, searches, the wait for the lease and the transport all end: they are
\* finite or bounded by a timer.  Nothing is assumed of errors.
FairSpec == Spec /\ WF_vars(JobStep) /\ WF_vars(TransportStep)

--------------------------------------------------------------------------------
(* Properties.                                                              *)

\* The module's coordinator, its jobs and the shared verifiers are used under the
\* execution lease only, on every path from prepare to release
\* (DistributedWasmJobRunner.ts prepare, ClearraProductJobRunner.ts run), and
\* between jobs the lease is given back, however the last one ended.
RunsUnderLease == (coordinator \/ poolOwned \/ rust => lease) /\ (lease => active # 0)

\* The verifiers of a running search are never disposed of by a warm-up, however
\* late it fails (the generation checks of startRuntimePrewarm).
PoolBelongsToJob == poolOwned => pool = "job"

\* The worker keeps the promises RootWorkerContract states.
Implements == C!Contract

\* Every job comes to an end, the cancelled ones included, in every phase.
JobsEnd == active # 0 ~> active = 0

================================================================================
