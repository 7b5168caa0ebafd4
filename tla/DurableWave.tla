------------------------------ MODULE DurableWave ------------------------------
(***************************************************************************)
(* A native build-probability job: the coordinator that drives waves of    *)
(* delegations through the durable authority, and the worker threads that  *)
(* execute them                                                            *)
(* (crates/clearra-app/src/native_durable_build_probability_execution.rs). *)
(*                                                                         *)
(* Worker w has a request channel of capacity 1; all workers share one     *)
(* completion channel of capacity 0, so a worker waits in "send" until the *)
(* coordinator receives.  Of the authority only the phase of each task is  *)
(* kept: a call is acknowledged and moves it, or fails and leaves it (see  *)
(* DelegationAuthority).  A task is its ordinal, which is also its place   *)
(* in live_tokens; a key mismatch is a task mismatch.                      *)
(***************************************************************************)
EXTENDS Integers, Sequences

CONSTANTS
    N,                  \* worker threads
    BatchCapacity,      \* NATIVE_BUILD_BATCH_CAPACITY
    MaxCandidates,      \* bound on the candidates of all passes together
    MayPanic            \* whether a verifier may panic

ASSUME WaveAssumption ==
    N \in Nat \ {0} /\ BatchCapacity \in Nat \ {0} /\ MaxCandidates \in Nat /\ MayPanic \in BOOLEAN

Worker == 1..N

\* Fault: the last, partial batch is forgotten.
BatchesFull(candidates) == candidates \div BatchCapacity

Batches(candidates) == (candidates + BatchCapacity - 1) \div BatchCapacity

\* Task ordinals, more than any job needs.
Task == 1..(Batches(MaxCandidates) + 2 * N + 1)

P == INSTANCE DelegationProtocol WITH Tasks <- Task, Workers <- Worker, Results <- {}, None <- 0

VARIABLES
    pc,             \* where the coordinator is
    wave,           \* "Initialize", "Consume" or "Finish"
    stage,          \* what execute_durable_wave sends: "Offer", "Publish", "Run"
    i,              \* the index of the coordinator's current loop
    pending,        \* the wave's delegations: <<[task, worker]>>
    expected,       \* tasks of the wave whose completion is awaited
    received,       \* tasks of the wave whose result arrived, in order
    live,           \* number of live_tokens
    sealed,         \* sealed delegations, in order
    cap,            \* max_candidates of the request: 0 is no cap
    total,          \* candidates of all passes of the producer
    left,           \* candidates the producer has left
    summary,        \* the producer has completed
    why,            \* what the drive ended with
    phase,          \* the authority's phase of each task
    request,        \* the request channels
    senders,        \* the coordinator still has the request senders
    receiver,       \* the coordinator still has the completion receiver
    wpc,            \* per worker: "recv", "compute", "send", "exited"
    offer,          \* accepted_offer, or 0
    published,      \* the published task and its operation, or <<>>
    verifier,       \* "none", "ready", "finished"
    out,            \* the completion a worker is sending
    panicked,       \* workers that panicked
    runs            \* how often a worker has begun to execute each task

coordinator == <<wave, stage, i, pending, expected, received, live, sealed>>
producer == <<cap, total, left, summary>>
channels == <<request, senders, receiver>>
workers == <<wpc, offer, published, verifier, out, panicked, runs>>
vars == <<pc, why, coordinator, producer, phase, channels, workers>>

\* checked_maximum_task_count; 0 stands for no bound.
maximum_task_count == IF cap = 0 THEN 0 ELSE Batches(cap) + 2 * N

\* Each pass of the producer yields the capped number of candidates at most.  There
\* is a second pass where the field's horizontal mirror is included and distinct.
Yields(n) == \E passes \in 1..2 : cap # 0 => n <= passes * cap

Init ==
    /\ pc = "spawn" /\ wave = "Initialize" /\ stage = "Offer" /\ i = 1
    /\ pending = <<>> /\ expected = {} /\ received = <<>> /\ live = 0 /\ sealed = <<>>
    /\ cap \in 0..MaxCandidates
    /\ total \in 0..MaxCandidates /\ Yields(total) /\ left = total
    /\ summary = FALSE /\ why = "none"
    /\ phase = [t \in Task |-> "Absent"]
    /\ request = [w \in Worker |-> <<>>] /\ senders = TRUE /\ receiver = TRUE
    /\ wpc = [w \in Worker |-> "recv"]
    /\ offer = [w \in Worker |-> 0]
    /\ published = [w \in Worker |-> <<>>]
    /\ verifier = [w \in Worker |-> "none"]
    /\ out = [w \in Worker |-> <<>>]
    /\ panicked = {}
    /\ runs = [t \in Task |-> 0]

--------------------------------------------------------------------------------
(* The coordinator: drive_durable_build_probability.                        *)

\* The drive returns; the pool is taken down whatever it returned.
Return(reason) == pc' = "drop_senders" /\ why' = reason

Exceeds(count) == maximum_task_count # 0 /\ count > maximum_task_count

\* prepare_durable_delegation acknowledged for worker w, the token pushed.
Prepared(w) ==
    /\ phase' = [phase EXCEPT ![live + 1] = "Prepared"]
    /\ live' = live + 1
    /\ pending' = Append(pending, [task |-> live + 1, worker |-> w])

spawn ==
    /\ pc = "spawn"
    /\ \/ pc' = "reserve" /\ UNCHANGED why
       \/ Return("unavailable")
    /\ UNCHANGED <<coordinator, producer, phase, channels, workers>>

\* The receipts of an Initialize or a Finish wave are reserved at once.
reserve ==
    /\ pc = "reserve"
    /\ i' = 1 /\ pending' = <<>>
    /\ IF Exceeds(live + N) THEN Return("task_bound") ELSE pc' = "prepare" /\ UNCHANGED why
    /\ UNCHANGED <<wave, stage, expected, received, live, sealed, producer, phase, channels, workers>>

prepare ==
    /\ pc = "prepare"
    /\ \/ /\ ~Exceeds(live + 1)
          /\ Prepared(i)
          /\ i' = IF i = N THEN 1 ELSE i + 1
          /\ pc' = IF i = N THEN "journal" ELSE "prepare"
          /\ stage' = "Offer"
          /\ UNCHANGED why
       \/ /\ Return(IF Exceeds(live + 1) THEN "task_bound" ELSE "prepare")
          /\ UNCHANGED <<i, stage, live, pending, phase>>
    /\ UNCHANGED <<wave, expected, received, sealed, producer, channels, workers>>

\* One worker's share of a Consume wave: a batch is filled until it is full or
\* the producer completes, and delegated unless it is empty.
fill ==
    LET batch == IF left < BatchCapacity THEN left ELSE BatchCapacity
        done == batch < BatchCapacity
    IN  /\ pc = "fill"
        /\ \/ /\ batch > 0 => ~Exceeds(live + 1)
              /\ left' = left - batch
              /\ summary' = done
              /\ IF batch > 0 THEN Prepared(i) ELSE UNCHANGED <<phase, live, pending>>
              /\ IF ~done /\ i < N
                 THEN i' = i + 1 /\ UNCHANGED <<pc, stage, wave>>
                 ELSE /\ i' = 1
                      /\ IF pending' = <<>>
                         THEN pc' = "reserve" /\ wave' = "Finish" /\ UNCHANGED stage
                         ELSE pc' = "journal" /\ stage' = "Offer" /\ UNCHANGED wave
              /\ UNCHANGED why
           \/ /\ Return(IF batch > 0 /\ Exceeds(live + 1) THEN "task_bound" ELSE "cancelled")
              /\ UNCHANGED <<wave, stage, i, pending, live, left, summary, phase>>
        /\ UNCHANGED <<expected, received, sealed, cap, total, channels, workers>>

--------------------------------------------------------------------------------
(* The coordinator: execute_durable_wave.                                   *)

Item == pending[i]

\* The phase each authority call of the wave moves a delegation to.
Target(from) ==
    CASE from = "Prepared" -> "Offered"
      [] from = "Offered" -> "Accepted"
      [] from = "Accepted" -> "Published"
      [] from = "Published" -> "Running"

\* offered; accepted, then publish; running.  publish may fail after its
\* record was acknowledged, when the expiry of the permit overflows.
journal ==
    LET t == Item.task
        to == Target(phase[t])
    IN  /\ pc = "journal"
        /\ \/ /\ phase' = [phase EXCEPT ![t] = to]
              /\ pc' = IF to = "Accepted" THEN "journal" ELSE "send"
              /\ UNCHANGED why
           \/ /\ Return("journal")
              /\ phase' \in {phase, [phase EXCEPT ![t] = IF to = "Published" THEN to ELSE @]}
        /\ UNCHANGED <<coordinator, producer, channels, workers>>

\* send blocks while the channel is full and fails when the worker is gone.
send ==
    LET w == Item.worker IN
    /\ pc = "send"
    /\ \/ /\ wpc[w] = "exited"
          /\ Return("pool")
          /\ UNCHANGED <<i, request, expected, received>>
       \/ /\ wpc[w] # "exited" /\ request[w] = <<>>
          /\ request' = [request EXCEPT ![w] = <<[kind |-> stage, task |-> Item.task, op |-> wave]>>]
          /\ IF i < Len(pending)
             THEN i' = i + 1 /\ pc' = "journal" /\ UNCHANGED <<expected, received>>
             ELSE /\ i' = 1 /\ pc' = "collect"
                  /\ expected' = {pending[n].task : n \in DOMAIN pending}
                  /\ received' = <<>>
          /\ UNCHANGED why
    /\ UNCHANGED <<wave, stage, pending, live, sealed, producer, phase, senders, receiver, workers>>

\* The answer a worker gives to each request.
Answer == [Offer |-> "OfferAccepted", Publish |-> "Started", Run |-> wave]

Awaited(w, c) ==
    /\ c.ok
    /\ c.task \in expected
    /\ [task |-> c.task, worker |-> w] \in {pending[n] : n \in DOMAIN pending}
    /\ c.answer = Answer[stage]

\* receive_wave_stage and receive_final_wave_with_heartbeats: a completion
\* that is an error or not awaited ends the drive.
receive(w) ==
    LET c == out[w] IN
    /\ pc = "collect"
    /\ wpc[w] = "send"
    /\ wpc' = [wpc EXCEPT ![w] = IF ~c.ok \/ c.answer = "Finish" THEN "exited" ELSE "recv"]
    /\ out' = [out EXCEPT ![w] = <<>>]
    /\ IF Awaited(w, c)
       THEN /\ expected' = expected \ {c.task}
            /\ received' = Append(received, c.task)
            /\ pc' = IF expected' # {} THEN "collect"
                     ELSE IF stage = "Run" THEN "seal" ELSE "journal"
            /\ stage' = IF expected' # {} THEN stage
                        ELSE IF stage = "Offer" THEN "Publish" ELSE "Run"
            /\ UNCHANGED why
       ELSE Return("worker") /\ UNCHANGED <<expected, received, stage>>
    /\ UNCHANGED <<wave, i, pending, live, sealed, producer, phase, channels,
                   offer, published, verifier, panicked, runs>>

\* recv fails once every worker has dropped its completion sender.
disconnected ==
    /\ pc = "collect"
    /\ \A w \in Worker : wpc[w] = "exited"
    /\ Return("pool")
    /\ UNCHANGED <<coordinator, producer, phase, channels, workers>>

\* A timeout while results are awaited: the coordinator beats for each awaited
\* task; renewals that are due are journalled, and a failed one ends the drive.
heartbeat ==
    /\ pc = "collect" /\ stage = "Run"
    /\ \A w \in Worker : wpc[w] # "send"
    /\ \E renewed \in SUBSET expected :
         phase' = [t \in Task |-> IF t \in renewed THEN "Renewed" ELSE phase[t]]
    /\ UNCHANGED <<pc, why>> \/ Return("heartbeat")
    /\ UNCHANGED <<coordinator, producer, channels, workers>>

\* The results are sealed in the order they arrived; the last one ends the wave.
seal ==
    LET t == received[i] IN
    /\ pc = "seal"
    /\ \/ /\ phase' = [phase EXCEPT ![t] = "ResultSealed"]
          /\ sealed' = Append(sealed, t)
          /\ IF i < Len(received)
             THEN i' = i + 1 /\ UNCHANGED <<pc, why, wave, pending>>
             ELSE /\ i' = 1 /\ pending' = <<>>
                  /\ CASE wave = "Finish" -> Return("ok") /\ UNCHANGED wave
                       [] wave # "Finish" /\ summary ->
                            pc' = "reserve" /\ wave' = "Finish" /\ UNCHANGED why
                       [] wave # "Finish" /\ ~summary ->
                            pc' = "fill" /\ wave' = "Consume" /\ UNCHANGED why
       \/ Return("seal") /\ UNCHANGED <<i, wave, pending, phase, sealed>>
    /\ UNCHANGED <<stage, expected, received, live, producer, channels, workers>>

--------------------------------------------------------------------------------
(* The coordinator: run_provider_admitted_native_build_probability, after   *)
(* the drive.                                                               *)

drop_senders ==
    /\ pc = "drop_senders"
    /\ senders' = FALSE
    /\ pc' = "drop_receiver"
    /\ UNCHANGED <<why, coordinator, producer, phase, request, receiver, workers>>

drop_receiver ==
    /\ pc = "drop_receiver"
    /\ receiver' = FALSE
    /\ pc' = "join"
    /\ UNCHANGED <<why, coordinator, producer, phase, request, senders, workers>>

\* Fault: the threads are detached.
join_detached ==
    /\ pc = "join"
    /\ i' = 1
    /\ pc' = IF why = "ok" /\ panicked = {} /\ Len(sealed) = live THEN "merge" ELSE "fail_all"
    /\ UNCHANGED <<why, wave, stage, pending, expected, received, live, sealed,
                   producer, phase, channels, workers>>

\* Fault: what was sealed is applied although the drive failed.
join_partial ==
    /\ pc = "join"
    /\ \A w \in Worker : wpc[w] = "exited"
    /\ i' = 1
    /\ pc' = IF sealed # <<>> THEN "merge" ELSE "fail_all"
    /\ UNCHANGED <<why, wave, stage, pending, expected, received, live, sealed,
                   producer, phase, channels, workers>>

\* Every worker is joined before anything is applied or failed closed.
join ==
    /\ pc = "join"
    /\ \A w \in Worker : wpc[w] = "exited"
    /\ i' = 1
    /\ pc' = IF why = "ok" /\ panicked = {} /\ Len(sealed) = live THEN "merge" ELSE "fail_all"
    /\ UNCHANGED <<why, wave, stage, pending, expected, received, live, sealed,
                   producer, phase, channels, workers>>

merge ==
    /\ pc = "merge"
    /\ pc' \in {"apply", "fail_all"}
    /\ UNCHANGED <<why, coordinator, producer, phase, channels, workers>>

\* result_application_decision, then result_applied.  A decision that fails
\* returns at once, without failing the delegations closed.
apply ==
    LET t == sealed[i] IN
    /\ pc = "apply"
    /\ IF phase[t] \in P!Sealed
       THEN \/ /\ phase[t] = "ResultSealed"
               /\ phase' = [phase EXCEPT ![t] = "ResultApplied"]
               /\ pc' = "complete"
               /\ UNCHANGED i
            \/ /\ pc' = "fail_all" /\ i' = 1
               /\ UNCHANGED phase
       ELSE pc' = "error" /\ UNCHANGED <<phase, i>>
    /\ UNCHANGED <<why, wave, stage, pending, expected, received, live, sealed,
                   producer, channels, workers>>

\* Fault: a completion that is not acknowledged is ignored.
complete_unchecked ==
    /\ pc = "complete"
    /\ phase' \in {phase, [phase EXCEPT ![sealed[i]] = "Completed"]}
    /\ i' = i + 1
    /\ pc' = IF i = Len(sealed) THEN "done" ELSE "apply"
    /\ UNCHANGED <<why, wave, stage, pending, expected, received, live, sealed,
                   producer, channels, workers>>

complete ==
    /\ pc = "complete"
    /\ \/ /\ phase' = [phase EXCEPT ![sealed[i]] = "Completed"]
          /\ i' = i + 1
          /\ pc' = IF i = Len(sealed) THEN "done" ELSE "apply"
       \/ /\ pc' = "fail_all" /\ i' = 1
          /\ UNCHANGED phase
    /\ UNCHANGED <<why, wave, stage, pending, expected, received, live, sealed,
                   producer, channels, workers>>

\* Fault: ended delegations are failed too.
fail_all_blind ==
    /\ pc = "fail_all"
    /\ IF i <= live
       THEN /\ phase' = [phase EXCEPT ![i] = "FailedClosed"]
            /\ i' = i + 1
            /\ UNCHANGED pc
       ELSE pc' = "error" /\ UNCHANGED <<phase, i>>
    /\ UNCHANGED <<why, wave, stage, pending, expected, received, live, sealed,
                   producer, channels, workers>>

\* fail_all_live_delegations tries every task that has not ended and ignores
\* the ones whose record fails.
fail_all ==
    /\ pc = "fail_all"
    /\ IF i <= live
       THEN /\ IF phase[i] \in P!Terminal
               THEN UNCHANGED phase
               ELSE phase' \in {phase, [phase EXCEPT ![i] = "FailedClosed"]}
            /\ i' = i + 1
            /\ UNCHANGED pc
       ELSE pc' = "error" /\ UNCHANGED <<phase, i>>
    /\ UNCHANGED <<why, wave, stage, pending, expected, received, live, sealed,
                   producer, channels, workers>>

Coordinator ==
    \/ spawn \/ reserve \/ prepare \/ fill
    \/ journal \/ send \/ (\E w \in Worker : receive(w)) \/ disconnected \/ seal
    \/ drop_senders \/ drop_receiver \/ join \/ merge \/ apply \/ complete \/ fail_all

--------------------------------------------------------------------------------
(* The workers: durable_worker_main.                                        *)

Completion(t, answer) == [ok |-> TRUE, task |-> t, answer |-> answer]

Failure(t) == [ok |-> FALSE, task |-> t, answer |-> "error"]

\* What the operation needs of the verifier.
OperationStateValid(w, op) == verifier[w] = IF op = "Initialize" THEN "none" ELSE "ready"

\* A queued request is still received after the sender was dropped.
take(w, kind) ==
    /\ wpc[w] = "recv"
    /\ request[w] # <<>>
    /\ Head(request[w]).kind = kind
    /\ request' = [request EXCEPT ![w] = Tail(@)]
    /\ UNCHANGED <<pc, why, coordinator, producer, phase, senders, receiver, panicked, verifier>>

worker_offer(w) ==
    LET r == Head(request[w])
        valid == offer[w] = 0 /\ published[w] = <<>> /\ verifier[w] # "finished"
    IN  /\ take(w, "Offer")
        /\ offer' = [offer EXCEPT ![w] = IF valid THEN r.task ELSE @]
        /\ out' = [out EXCEPT ![w] = IF valid THEN Completion(r.task, "OfferAccepted")
                                              ELSE Failure(r.task)]
        /\ wpc' = [wpc EXCEPT ![w] = "send"]
        /\ UNCHANGED <<published, runs>>

\* publication_is_valid: the permit is for the offered task, and has not
\* expired by the coordinator's clock, which may have moved.
worker_publish(w) ==
    LET r == Head(request[w]) IN
    /\ take(w, "Publish")
    /\ \/ /\ offer[w] = r.task
          /\ OperationStateValid(w, r.op)
          /\ published' = [published EXCEPT ![w] = <<r.task, r.op>>]
          /\ out' = [out EXCEPT ![w] = Completion(r.task, "Started")]
       \/ /\ out' = [out EXCEPT ![w] = Failure(r.task)]
          /\ UNCHANGED published
    /\ wpc' = [wpc EXCEPT ![w] = "send"]
    /\ UNCHANGED <<offer, runs>>

worker_run(w) ==
    LET r == Head(request[w])
        valid == published[w] # <<>> /\ published[w][1] = r.task
    IN  /\ take(w, "Run")
        /\ IF valid
           THEN /\ offer' = [offer EXCEPT ![w] = 0]
                /\ runs' = [runs EXCEPT ![r.task] = @ + 1]
                /\ wpc' = [wpc EXCEPT ![w] = "compute"]
                /\ UNCHANGED <<published, out>>
           ELSE /\ published' = [published EXCEPT ![w] = <<>>]
                /\ out' = [out EXCEPT ![w] = Failure(r.task)]
                /\ wpc' = [wpc EXCEPT ![w] = "send"]
                /\ UNCHANGED <<offer, runs>>

\* The operation ends: with its result, with an error, or in a panic.
compute(w) ==
    LET t == published[w][1]
        op == published[w][2]
    IN  /\ wpc[w] = "compute"
        /\ published' = [published EXCEPT ![w] = <<>>]
        /\ verifier' = [verifier EXCEPT ![w] = IF op = "Finish" THEN "finished" ELSE "ready"]
        /\ \/ /\ OperationStateValid(w, op)
              /\ out' = [out EXCEPT ![w] = Completion(t, op)]
              /\ wpc' = [wpc EXCEPT ![w] = "send"]
              /\ UNCHANGED panicked
           \/ /\ op # "Initialize" \/ ~OperationStateValid(w, op)
              /\ out' = [out EXCEPT ![w] = Failure(t)]
              /\ wpc' = [wpc EXCEPT ![w] = "send"]
              /\ UNCHANGED panicked
           \/ /\ MayPanic /\ op # "Initialize"
              /\ wpc' = [wpc EXCEPT ![w] = "exited"]
              /\ panicked' = panicked \cup {w}
              /\ UNCHANGED out
        /\ UNCHANGED <<pc, why, coordinator, producer, phase, channels, offer, runs>>

\* Fault: a worker does not notice that nobody receives any more.
worker_exit_on_request(w) ==
    /\ wpc[w] = "recv" /\ request[w] = <<>> /\ ~senders
    /\ wpc' = [wpc EXCEPT ![w] = "exited"]
    /\ UNCHANGED <<pc, why, coordinator, producer, phase, channels,
                   offer, published, verifier, out, panicked, runs>>

\* recv fails when the channel is empty and its sender is gone, send fails
\* when the completion receiver is gone: the thread ends.
worker_exit(w) ==
    /\ \/ wpc[w] = "recv" /\ request[w] = <<>> /\ ~senders
       \/ wpc[w] = "send" /\ ~receiver
    /\ wpc' = [wpc EXCEPT ![w] = "exited"]
    /\ UNCHANGED <<pc, why, coordinator, producer, phase, channels,
                   offer, published, verifier, out, panicked, runs>>

durable_worker_main(w) ==
    worker_offer(w) \/ worker_publish(w) \/ worker_run(w) \/ compute(w) \/ worker_exit(w)

Next == Coordinator \/ heartbeat \/ \E w \in Worker : durable_worker_main(w)

Spec == Init /\ [][Next]_vars

\* The scheduler runs every thread that can run, and a verifier's operation
\* ends.  A heartbeat is no progress: nothing makes one happen, or fail.
FairSpec == Spec /\ WF_vars(Coordinator) /\ \A w \in Worker : WF_vars(durable_worker_main(w))

--------------------------------------------------------------------------------
(* Properties.                                                              *)

\* A worker executes a task only while its delegation is durably Running, and
\* no task is executed twice: the coordinator never ends or retries a task
\* that a worker may still be working on.
ExecutesOnce ==
    /\ \A w \in Worker :
         wpc[w] = "compute" => phase[published[w][1]] \in {"Running", "Renewed"}
    /\ \A t \in Task : runs[t] <= 1

\* Nothing is applied before everything is sealed: when one result has been
\* applied, every task of the job was executed and either sealed or, after an
\* acknowledgement failed, closed.
AppliedOnlyWhenAllSealed ==
    (\E t \in Task : phase[t] \in {"ResultApplied", "Completed"}) =>
        \A t \in 1..live : runs[t] = 1 /\ phase[t] \in P!Sealed \cup {"FailedClosed"}

\* A job that returns a result has consumed every candidate and completed
\* every delegation.
OkIsComplete ==
    pc = "done" => /\ left = 0 /\ summary
                   /\ \A t \in 1..live : phase[t] = "Completed"
                   /\ \A w \in Worker : verifier[w] = "finished"

\* checked_maximum_task_count, which counts the batches of one capped pass, refuses
\* no job whose candidates are within the cap, however they fall into batches and
\* waves: a job it refuses has more, the candidates of its mirrored pass.
TaskBoundSuffices == why = "task_bound" => cap # 0 /\ total > cap

\* Every authority call the coordinator makes is a transition the authority
\* allows, in whatever order workers answer and appends fail.
FollowsProtocol ==
    [][\A t \in Task :
         phase'[t] # phase[t] =>
             \/ phase[t] = "Absent" /\ phase'[t] = "Prepared"
             \/ P!valid_transition(phase[t], phase'[t])]_vars

\* The job returns unless a worker panics: coordinator and workers never wait for each
\* other forever.
JobReturns == <>(pc \in {"done", "error"} \/ panicked # {})

================================================================================
