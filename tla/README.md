# A TLA+ model of Clearra's execution core

Clearra computes perfect-clear and build probabilities. Most of its lines are
pure search over boards. What can go wrong in ways a test hardly reaches is the
machinery around the search: who may use how much of the machine, which worker
may execute which task, what a crash leaves behind, and whether a job ends. That
machinery is modelled here.

Paths below are relative to the repository root.

## The system and its parts

| Part | State | Operations | Interacts with |
|---|---|---|---|
| Shared resource lease authority (`crates/clearra-core-domain/src/resource/shared_resource_lease.rs`) | used capacity, epoch counter, tree of allocations | acquire, delegate to a child, release, drop | execution admission, wasm runtimes |
| Durable delegation authority (`crates/clearra-core-executor/src/resource/durable_delegation_journal.rs`) | delegations in memory, fencing token, journal | prepare, offer, accept, publish, run, heartbeat, seal, apply, complete, abort, expire, compact, recover | its journal, the job's coordinator |
| Native JSON Lines journal (same file) | a locked file, its quarantine files and markers | open, lock, recover, append, reset, quarantine | other processes through the file system |
| Native host runtime (`crates/clearra-app/src/native_build_probability_host_runtime.rs`) | journal root, boot marker, job sequence | register (recovers all journals), run a job | journal, job |
| Durable native job (`crates/clearra-app/src/native_durable_build_probability_execution.rs`) | coordinator, worker threads, channels | waves of delegations, joins, application of results | delegation authority |
| Parallel search of extended families (`crates/clearra-core-executor/src/backend/wasm_cpu/extended_pc_*_parallel.rs`) | queue of branches, memory budget, worker results | take, open, process, shut, drain, merge | native worker pool |
| Root search worker of the browser (`apps/clearra-web/src/workers/clearraWorker.ts` and its runners) | active job, lease, verifiers, warm-ups | run, cancel, prewarm, dispose | page, verifier pool, wasm module |
| Verifier pool of the browser (`apps/clearra-web/src/workers/ClearraVerifierPool.ts`) | clients, leases, waiters, commit queue | prewarm, begin, enqueue, finish, cancel | root worker, verifier workers |
| Search controller of the page (`packages/clearra-ui/src/lib/wasm/WasmTerminalWorkerController.ts`) | worker in use, run, pending pages | run, cancel, load pages, release, dispose | root worker |
| Desktop searches (`packages/clearra-ui/src/lib/stores/desktopJobStore.ts`, `crates/clearra-gui-host/src/job`, `.../desktop_host`) | store of the page, queue, bridge, worker thread | start, poll, cancel, leave, resume | application services |
| Accelerator assets (`crates/clearra-cli/src/accelerator_asset_store.rs`) | generations in directories, activation journal | download, repair, remove, activate | other processes through the file system |
| Discord bot jobs (`apps/clearra-discord-bot/src/job-service`, `src/clearra/command.mjs`) | entries, slots, processes | POST, DELETE, run, abort, close | the command line program |
| Search, scoring, documents, rendering, command line | none that outlives a call | pure functions | everything above |

What is hard here: appends and resets that fail half way, crashes between two
system calls, several processes on one file, a wall clock that may go
backwards, workers that answer out of order or not at all, rendezvous channels,
nested leases dropped in any order, messages that cross, cancellations that come
at any await, and limits (task bound, epoch counter, memory budget, `u64::MAX`
timestamps). `PROJECT.json` lists these hazards with their lines and the
properties that cover them, and every part with its status.

## Modules

`ResourceLease` — the lease authority. `used`, `next_epoch` and `allocations`
are the fields of `AuthorityState`; `leases` is the set of live handles. One
action per public operation (`try_acquire`, `try_child`, `release_as`, `drop`);
every operation holds the mutex, so each is one step. `release_ready_allocation`
is the code's loop as a recursive function over its state. Calls that are
refused change nothing and have no action.

`DelegationProtocol` — phases, `valid_transition`, records and `replay`, without
state. `DelegationAuthority` and `DurableWave` share it.

`DelegationAuthority` — `DurableDelegationAuthority` over the journal of one job.
Memory (`states`, `next`, `tokens`) and file (`journal`, `disk`, `dirty`) are
separate: `journal` is the replay of the acknowledged records, `disk` is the set
of journals that the file's bytes may be read back as, `dirty` says that bytes
were written which nobody acknowledged. An append that fails may have written
nothing, part of a line or all of it, and the authority goes on. `recover`
chooses what the file is read back as. Quarantine is one step here.

`NativeJournal` — the same journal one level down: inodes with contents and
synced contents, the name, the marker and the quarantine names, the lock, and
processes that make one system call per step. `Owner` runs the job (`start`,
`check`, `open`, `lock`, `read`, `header`, `append`, `finish`); the `Recoverers`
register (`peek` reads the header without the lock, `recover`, `reset`,
`release`, `rename`, `mark`). A process may crash at any step and `power_loss`
keeps what was synced and any part of the rest.

`DurableWave` — one job: the coordinator's program counter runs through
`drive_durable_build_probability`, `execute_durable_wave` and the end of
`run_provider_admitted_native_build_probability`; each worker runs
`durable_worker_main`. Request channels hold one message, the completion channel
none. Of the authority only each task's phase is kept, and every call may fail.
Of the producer only the number of candidates is kept: each pass yields at most
the cap, and a field with a distinct horizontal mirror has two passes.

`FamilyParallel` — one search of an extended family or of its tilings. Each
thread goes through `run_worker`; the caller is one of them and then collects.
`owners` and `private_total` are the shared budget; memory is counted in units.
The jobs wait in the pool's queue for one of its threads (`start`), of which there
is one for certain and more only if they could be spawned (`grow`). The caller
receives an answer per job, or an error once no job is left to send one. Jobs of
other searches, and the branch for a job the pool refuses, which no native build
takes, are left out.

`RootWorkerContract` — what the root worker promises its owner, as a state
machine over the active job and the log of events it posts. `RootWorker` is the
worker in detail, a step from one await to the next, with everything a job
holds (lease, coordinator, verifiers, module) and the warm-ups beside it. A job
that waits when its worker closes still wakes; `late` is the set of events it may
then post. The worker is shown to implement the contract (`Implements`).

`SearchController` — the page's controller and its store, composed with any
worker that keeps the contract: it EXTENDS `RootWorkerContract`, adds the two
queues of messages between page and worker, and every step of the worker is a
step of the contract. What holds here holds over `RootWorker`.

`VerifierPool` — the pool between the root worker and its verifier clients, one
step from await to await. `work` is the set of operations in flight, `waiters`
the callers waiting for a client, `generation` the query or warm-up that owns
the pool. A client answers, fails or is lost without a word.

`DesktopJobs` — the page's store, the commands, the bridge and its queue, and
the worker threads with their channels and tokens, composed in one module.

`AcceleratorStore` — one asset on disk under processes of two releases, a step
per call of the file system that can fail, removals included; `load_active` is
the reading of the journal's last record. A staging file is named after the id of
its process, which may be used again, and is never opened when it exists.

`JobService` — the bot's executor, the service's entries, the runner and the
process of each job; requests are lost, overtake each other or lose their
connection, and the instance may be killed.

The theorems about a module `M` are in `M_proofs`; `FiniteSums` holds the lemmas
about sums and induction that several of them use. Modules whose name starts with
`MC` give constants their values; the other specifications that are run have
only numbers and strings as constants. Definitions whose comment starts with
"Fault:" are deliberately wrong variants; they show that a property notices the
mistake, and no specification uses them.

## Assumptions about the environment

- Creating and renaming a file are durable at once, and `lseek` does not fail.
  The code does not sync directories; a file system that loses a rename on
  power loss is outside the model.
- A synced prefix survives power loss; of what was written later any prefix may
  survive, and it may end within a line.
- Quarantine names are distinct. The code looks for a free name and then
  renames, which two processes could do at once with the same content.
- A job id is never used by two processes. It is derived from a random boot
  UUID that `create_boot_marker` refuses to reuse. Hence a crash between the
  rename and the marker leaves nothing that is opened again under that name.
- SHA-256 has no collisions: a digest is the value it stands for.
- JavaScript runs one step from await to await without interruption, and
  messages between a page and a worker arrive in the order sent.
- The desktop application's job commands are synchronous and run on the main
  thread in the order called, and their replies come back in that order.
- No process outlives SIGKILL, and a process killed with its instance is gone.
- What a process wrote to an asset's directory stays when the process ends; loss
  of power is not modelled for assets.
- A thread of the native pool that is free takes the next job.

## Runs

Bounds are constants of the configurations. Deadlock is not checked: a job, a
lease pool with no epoch left, a page with no runs left and a set of processes
that have all registered really stop.

| Run | Bounds | States | Checks |
|---|---|---|---|
| `lease` | two owners, pool of 3 units and 2 bytes, three request sizes, 5 epochs | 123,312 | `Conservation`, `NoLeak`, `ReleaseNeverFaults`, `HeldLeaseIsBacked` |
| `authority_one` | one task, one worker, two results, times 0..2 with every timeout 1 | 705,873 | `LiveMatchesReplay`, `PermitIsDurable`, `TerminalIsFinal`, `SealedResultIsFinal`, `NoResume` |
| `journal` | owner and two interchangeable recovering processes, 2 inodes, 3 chunks | 361,398 | `AckedSurvives`, `UnresolvedIsKept`, `SingleWriter`, `RecoveryQuarantines` |
| `journal_read_only` | owner and one recovering process, 4 chunks | | `QuarantineIsReadOnly`, violated |
| `wave` | two workers, batches of 2, up to 5 candidates, panics | 1,731,376 | `ExecutesOnce`, `AppliedOnlyWhenAllSealed`, `OkIsComplete`, `TaskBoundSuffices`, `FollowsProtocol`, `JobReturns` |
| `root_worker` | two jobs, two progress events, one warm-up of everything | 662,390 | `RunsUnderLease`, `PoolBelongsToJob`, `Implements`, `JobsEnd` |
| `search_controller` | three runs, two page requests, one progress event, one idle message | 478,980 | `OutcomeIsOwn`, `PagesAreCurrent`, `RunsEnd` |
| `verifier_pool` | two clients, two callers, three tasks, two generations | 102,099 | `NoLostWakeup`, `FinishIsComplete`, `AppliesInTurn` |
| `desktop_jobs` | two searches, two calls under way, two workspaces left | 635,549 | `ToldAsSent`, `NoOrphan`, `SearchSettles` |
| `accelerator_store` | two releases, one repair directory, three records, two faults | 668,535 | `ActivationKept`, `Heals` |
| `job_service` | two calls for one job or two, one slot, one retained entry, one restart | 493,529 | `RunOnce`, `SlotHeld`, `AbortEnds` |
| `family_parallel` | three workers, a pool of one thread or two; a family of four branches under 9 units, a tiling of two under 5 | 947,850 | `Accounted`, `OutcomeIsTrue`, `Returns` |

Why the bounds are enough to meet the interesting cases.

- Five epochs hold a lease, a child and a grandchild beside other roots, so a
  cascade takes several steps, meets held and abandoned parents, and the counter
  runs out; the pool is exhausted in units and in memory separately.
- With times 0..2 and timeouts of 1 every comparison with a timeout is met on
  both sides, the clock goes backwards, and the expiry of a permit overflows at
  time 2. What several delegations add (a sweep that fails half way, compaction
  that one open delegation must stop) is covered by the theorems, which hold for
  every set of tasks.
- Three chunks are a header, a record and torn bytes or an unacknowledged line.
  Recovering processes are interchangeable and no property names one, so
  symmetry is sound. The same run with four chunks (1,268,738 states) passes.
- Five candidates in batches of two make two full batches and a partial one, and
  a second consume wave. With a cap of two and three candidates in two passes the
  task bound is met.
- A second job shows what the first left behind. Two progress events let a job
  go on after the one posted when it is prepared. One warm-up of policy `full`
  warms all four parts; it can be interrupted by a job and end late.
- Three runs are a run, the one that replaces its worker and the one after it,
  so job ids of a new worker meet ids of an old one.
- Two callers and two clients with three tasks make callers wait, be woken in
  vain and commit out of order; the second generation meets late answers of the
  first. Callers and clients are interchangeable and only safety is checked. The
  same run with three clients (1,120,813 states) passes.
- A page that leaves twice comes back to a search it left and leaves one whose
  start is still under way.
- Two releases make one download replace what the other installed; two faults
  break a download and then the one that repairs it, or leave a staging file that
  a later process with the same id meets.
- One slot and one retained entry are full with one job, so the second call is
  refused, joins, or is answered from the entry. By renaming, the first call is
  for the first job. The same run with three calls (3.4 million states) passes.
- The four branches of the family are one more than the workers, so one is taken
  from the queue; all branches of the tiling are. The caps refuse memory in some
  behaviours and let others succeed.

`UnresolvedIsKept` and `RecoveryQuarantines` excuse recoveries that overlap on
one file (`overlap`). With two at once, a marker that cannot be created lets the
first one move the file back after the second has finished its registration.

### Fairness

- `DurableWave!FairSpec`: weak fairness of the coordinator and of each worker
  thread. The operating system runs every thread that can run, channel
  operations that can proceed do, and a verifier's operation ends. The
  coordinator's heartbeat is not part of its fair action: it is enabled as long
  as workers compute and is no progress. `JobReturns` excuses behaviours with a
  panic: a panicking worker sends no completion, the other workers keep the
  channel connected, and the timed receive renews the dead task for ever. Nothing
  in the repository promises otherwise, so this is recorded as a hazard.
- `RootWorker!FairSpec`: the steps of a job and of its transport. Loads, searches
  and the wait for the lease are finite or bounded by a timer.
- `SearchController!FairSpec`: the grace period of a cancellation ends, messages
  are delivered, and the worker's job comes to its outcome, which is `JobsEnd` of
  `RootWorker`. Nothing is assumed of the progress watchdog: its deadlines are
  opt-in and off by default, so a run may or may not have one.
- `DesktopJobs!FairSpec`: polling timers fire, calls are answered, threads end.
- `AcceleratorStore!LiveSpec`: an operation that has begun goes on. Faults are not
  fair, and `Heals` is about downloads repeated by processes whose staging file is
  not there already.
- `JobService!SpecCancel`: the runner goes on and SIGKILL ends a process. Nothing
  is assumed of the network, of the deadline or of a process that ignores
  SIGTERM.
- `FamilyParallel!FairSpec`: the caller and every thread of the pool. Nothing is
  assumed of the growth of the pool: `Returns` holds with one thread, as the
  comment in `ensure_background_workers_progressively` promises.

### A disagreement with the documents

`journal_read_only`. `docs/v0.8.0-remaining-work-plan.md:911-912` allows only
read-only inspection and archiving of quarantined journals. A registration that
lists the directory after a job created its file and before it wrote the header
finds a torn header, without looking at the lock, and quarantines the file; the
job holds it open and goes on acknowledging records into it.

What the properties excuse is worth knowing too, although no run reports it:

- lines 564-565 of the same document say that unresolved journals are not
  deleted but quarantined; two overlapping recoveries whose markers both fail,
  one of which created an empty file in between, leave one without a name;
- a capped job whose mirrored pass yields candidates too may end with
  `task_bound_exceeded`, because `checked_maximum_task_count` counts the cap once
  (`TaskBoundSuffices` says that this is the only case);
- a staging file whose removal failed, or whose process ended, refuses every
  download of a process that gets the same id until somebody removes it;
- a run that its root worker refuses, because the job before still lets go of
  its readers, or that is posted to a worker which closed without a word, waits
  until the user cancels it (`RunsEnd` is stated of runs that were taken up);
- half a record at the end of an activation journal hides the record before it
  until the next download (`ActivationKept` excuses a torn journal, `Heals`
  covers the download).

## Proofs

TLC checks small instances; the theorems below hold for every value of the
constants. Each states that a property a run checks follows from the
specification (`PROJECT.json` names the property). The assumptions are the
`ASSUME`s of the modules, which say only what kind of values the constants are.
None of the properties is inductive as it stands. Each proofs module defines the
invariant that is, `IInv`; TLC was run on it before it was proved. Fairness plays
no part: the theorems are about `Init /\ [][Next]_vars`.

### Delegation authority

`DelegationAuthority_proofs`: `TypeCorrect`, `LiveMatches`, `PermitsDurable`,
`TerminalFinal`, `SealedFinal`, `NeverResumes`.

A crash forgets the memory, so what holds after recovery must be known of
everything the file can be read back as. `IInv` adds to `TypeOK` and
`LiveMatchesReplay`:

- `FileInv`: the acknowledged journal replays; every state has the worker and
  the result its phase calls for; among all journals the file may be read back
  as and the acknowledged one, at most one non-empty journal has no unresolved
  delegation; and while a delegation is unresolved, every readable journal
  extends the acknowledged one. The third conjunct is what makes `TerminalFinal`
  hold across a restart: only that journal can be opened.
- `CleanInv`, unless `dirty`: an unresolved journal is read back as exactly what
  was acknowledged.
- `PermitInv`: permits are backed by the acknowledged journal and by every
  readable one, and are one per task.

The proof has lemmas about `replay` (it yields journals, extends what is settled,
keeps permits backed), one about each outcome of an append, one per group of
operations that only move a phase, one for each of the operations that do more
(`PublishStep`, `HeartbeatStep`, `PrepareStep`, `ExpireStep`, `CompactStep`,
`RecoverStep`), and `StepLemma`, which puts them together.

### Resource lease

`ResourceLease_proofs`: `Conserves`, `NeverFaults`, `HeldIsBacked`,
`LeaksNothing`, for any capacity and requests and a tree of any depth.

`Sound` says of a tree of allocations that parents are older than their
children and that grants, remainders and counts of children add up, in the tree
and in the pool. `IInv` is that, and that an allocation has a handle or is a
tombstone with a child. The loop of `release_ready_allocation` is followed by an
invariant of its own (`LoopInv`): the tree stays sound, what is gone is the
released lease and tombstones, and the loop is at the only tombstone without a
child. An allocation goes with every round, so the loop ends, and with success.

### Native journal

`NativeJournal_proofs`: `HasOneWriter`, `KeepsAcked`, `KeepsUnresolved`,
`RegistersSafely`, for any set of recovering processes and any bounds on files
and chunks.

`IInv` adds to the types: who has a file open and locked (`LockInv`); what a
process has read is still there (`ReadInv`); only the owner writes event lines,
and only into the first file (`OwnerInv`); the acknowledged records are a prefix
of what can be recovered from the content of that file and from what is synced of
it (`GoodInv`), from which `PowerLossStep` derives the same of everything in
between; and, unless recoveries overlap, where the file's name is (`KeepInv`,
`OrphanInv`).

### Durable job

`DurableWave_proofs`: `Inductive`, `ExecutesOnceHolds`,
`AppliedOnlyWhenAllSealedHolds`, `OkIsCompleteHolds`, `TaskBoundSufficesHolds`,
`FollowsProtocolHolds`, for any number of workers, any batch capacity and any
number of candidates, with and without panics.

Coordinator and workers share a delegation that neither holds alone: its phase is
in the journal, the request and the answer are in channels, and the worker keeps
the offer, the published task and the verifier. `IInv` says of every place of the
coordinator where each of them is. Its parts are

- `CountInv`: the delegations made so far and the batches that the candidates
  left still call for stay within the batches of all candidates, of whatever pass,
  and the two waves for all workers. `Batches` rounds up, so that a batch taken,
  full or the last, lowers the need by one at least. `Batches` is monotone, so a
  job that meets the bound has more candidates than the cap
  (`ExceedsOverCap`); this is what `TaskBoundSufficesHolds` rests on.
- `PendingInv`: the n-th delegation of a wave is for worker n, and the
  delegations of a wave are the last ones made.
- `PhaseInv`: delegations of earlier waves are sealed and executed, those of this
  wave are before or after the request of its stage, and the rest are absent.
- `ReceivedInv`: a result is received once, from a delegation that is no longer
  expected, and the results are sealed in turn.
- `WorkerInv`: a worker rests, or is busy with the request of the stage (asked,
  computing, answering, gone), or has answered; what it holds follows from which
  of these it is. While the job is left it is busy or idle, and after the joins
  it is gone, which is why `fail_all` ends no delegation that is being executed.
- `EndInv`: nothing is applied before the drive has succeeded, and success means
  that every delegation is executed and sealed and every verifier finished.

Each action has a lemma (`SendStep`, `ReceiveStep`, `SealStep`, ...); `NextIInv`
puts them together. `FollowsProtocolHolds` then needs only which delegation an
action moves and from which phase (`Moves`, `NextMoves`).

### Parallel search of families

`FamilyParallel_proofs`: `KeepsAccounts`, `TellsTheTruth`, for any number of
workers, any branches and any cap.

`IInv` says what a worker has at each of its places (`WorkInv`), that the budget
adds up (`BudgetInv`), that a branch is in one place only and, unless a worker
gave up, in one at least (`PlaceInv`), that whoever stops the others has a reason
(`BlameInv`), and what the caller has collected (`CollectInv`). The steps of a
worker are sorted by what they do to its own state (`GiveUp`, `Reserve`, `Move`,
`Pop`, `Carry`, `Shut`), and each conjunct is shown over those kinds.
`ContractHolds` shows that the check the caller makes before it merges cannot
fail.

### Root worker

`RootWorker_proofs`: `RunsLeased`, `KeepsPool`, and the refinement
`KeepsContract`: every step of `RootWorker` is a step of `RootWorkerContract` or
leaves what the owner sees alone. `IInv` says what a phase of the job allows it to
hold, that at most one chain of warm-ups is of the current generation, that
there is none while a job is active, and what a job closed upon may still post
(`LateInv`): nothing while the worker is open, of a cancelled job only that it was
cancelled, and no second outcome but a failure. With the theorem, `SearchController`, which
is composed with the contract, says something of any number of jobs.

### Job service

`JobService_proofs`: `RunsOnce`, `HoldsSlot`, `CountsSlots`, `BoundsProcesses`.
`IInv` relates the fields of an entry to its phase, the counter of active jobs to
the entries in progress, and the list of ended jobs, from which the service
prunes, to the entries that have ended.

### What is only model-checked

- Liveness, everywhere: `JobReturns`, `JobsEnd`, `RunsEnd`, `SearchSettles`,
  `Heals`, `AbortEnds`, `Returns`. Fairness and ENABLED are out of the prover's
  reach.
- The safety properties of `SearchController`, `VerifierPool`, `DesktopJobs` and
  `AcceleratorStore`. Their invariants speak of queues of messages between two
  sides and have not been strengthened to inductive ones yet.
- `QuarantineIsReadOnly`, which is violated.

Where a proof needs induction over data (sums over finite sets, the rounds of a
loop, prefixes of a file), it is by a least counterexample: a set of numbers has
a least element and a set of finite sets a minimal one (`LeastNatural`,
`NaturalInduction`, `SubsetInduction`). The induction theorems of the standard
library take an operator as a parameter, which the provers do not instantiate.

## Not modelled

Within the modules: hash chains, JSON text and identities of the journal (they
are sequence numbers, chunks and tasks); provider admission and boot markers;
the arithmetic of the merger; what a search, a candidate or an accelerator
computes; progress figures and wording; polling of a job by the bot, which
changes nothing; more than one instance of the job service.

Parts with state of their own and no module: the browser's resource authority,
delegation journal and verifier clients; execution admission and the distributed
wasm runtimes; the parallel search with shared coverage; product pages and the windows over them; the panels that drive
downloads; the bot's message queues, preferences and gateway; the memory of the
C core. `PROJECT.json` says of each how the modules beside it take its effect.

The rest of the repository, by far most of its lines, is search, scoring,
document and rendering code: pure functions whose data is beyond a model
checker.

## Plan

1. Browser side: one verifier client with the delegation journal in IndexedDB as
   a second user of `DelegationProtocol`, below `VerifierPool`; the waiters and
   timeouts of the browser's resource authority.
2. Admission: `execution_admission` and `shared_execution_resource_authority` on
   `ResourceLease`, as a composition.
3. Refinement: an abstract specification of a delegation (executed at most once,
   ended once, one result) that `DelegationAuthority` implements; `NativeJournal`
   as an implementation of the journal of `DelegationAuthority`; `DurableWave`
   composed with the authority.
4. Algorithms as operators against a reference over bounded inputs: the supply
   automaton, exact minimum cover, the union measure of pattern sets.
5. Proofs: `OutcomeIsOwn` and `PagesAreCurrent` of `SearchController`;
   `NoLostWakeup` and `AppliesInTurn` of `VerifierPool`; `ToldAsSent` and
   `NoOrphan` of `DesktopJobs`.
