------------------------------ MODULE VerifierPool ------------------------------
(***************************************************************************)
(* ClearraVerifierPool of                                                  *)
(* apps/clearra-web/src/workers/ClearraVerifierPool.ts: the pool that      *)
(* leases verifier clients to tasks, commits their sealed results one      *)
(* after another, and ends a query by draining and finishing its clients.  *)
(*                                                                         *)
(* Everything runs on the coordinator's one JavaScript thread.  A step is  *)
(* the code from one await to the next, so a cancellation, a failure or    *)
(* another caller can come between any two steps of an operation.  What a  *)
(* client does between being asked and answering is left out: it answers,  *)
(* fails, or is lost without a word.                                       *)
(***************************************************************************)
EXTENDS Naturals, Sequences, FiniteSets, SequencesExt

CONSTANTS
    Clients,        \* the verifier clients there can be
    Callers,        \* concurrent calls of enqueueFromSource
    MaxTasks,       \* tasks the source of one query hands out at most
    MaxGeneration   \* no query or warm-up starts beyond this generation

ASSUME SizeAssumption ==
    /\ IsFiniteSet(Clients) /\ Clients # {}
    /\ MaxTasks \in Nat /\ MaxGeneration \in Nat

VARIABLES
    generation,     \* generation
    active,         \* active
    issuanceClosed, \* issuanceClosed
    failure,        \* failure # null
    clients,        \* clients
    ready,          \* the clients whose initialized is set
    leased,         \* leasedClients
    waiters,        \* waiters: <<generation, who waits>>
    call,           \* each call of enqueueFromSource: where it is, its generation
    work,           \* <<generation, client>> -> the client's operation
    tail,           \* resultCommitTail of each generation: clients yet to commit
    rejectedTails,  \* generations whose resultCommitTail has rejected
    drain,          \* the finish or completeAtomicTasks under way
    warm,           \* the generation of the prewarm under way, or 0
    issued, completed,   \* this query's tasks: handed out, committed
    torn            \* generations in which applying a result has failed

vars == <<generation, active, issuanceClosed, failure, clients, ready, leased, waiters,
          call, work, tail, rejectedTails, drain, warm, issued, completed, torn>>

owner == <<generation, active, issuanceClosed, failure>>
tally == <<issued, completed>>
commits == <<tail, rejectedTails, torn>>

\* cancel and fail can each end one generation more.
Generations == 0..(MaxGeneration + 2)

Drainer == "drain"

Idle == [st |-> "idle", generation |-> 0]

NoDrain == [st |-> "none", generation |-> 0, atomic |-> FALSE]

Init ==
    /\ generation = 0 /\ active = FALSE /\ issuanceClosed = TRUE /\ failure = FALSE
    /\ clients = {} /\ ready = {} /\ leased = {} /\ waiters = <<>>
    /\ call = [k \in Callers |-> Idle]
    /\ work = <<>>
    /\ tail = [g \in Generations |-> <<>>] /\ rejectedTails = {} /\ torn = {}
    /\ drain = NoDrain /\ warm = 0
    /\ issued = 0 /\ completed = 0

--------------------------------------------------------------------------------
(* Operators.                                                               *)

\* assertActive(g), here as a condition.
Owns(g) == active /\ ~failure /\ g = generation

Available == {c \in clients : c \in ready /\ c \notin leased}

Without(k) == [x \in DOMAIN work \ {k} |-> work[x]]

At(k, st) == [work EXCEPT ![k].st = st]

\* The running operations of the clients cs are rejected when these are released.
\* An initializer that is publishing its delegation may instead never settle.
Released(w, cs, st, lost) ==
    [k \in DOMAIN w |->
        IF k[2] \in cs /\ w[k].st = "running"
        THEN [w[k] EXCEPT !.st = IF k \in lost THEN "lost" ELSE st]
        ELSE w[k]]

\* The initializers that a release can leave unsettled.
Losable(w, cs) ==
    {k \in DOMAIN w : k[2] \in cs /\ w[k].kind = "init" /\ w[k].st = "running"}

Waits(ws, who) == \E i \in DOMAIN ws : ws[i][2] = who

\* The calls, and the drain, once the waiters ws have been rejected.
CallsAfter(calls, ws) == [k \in Callers |-> IF Waits(ws, k) THEN Idle ELSE calls[k]]

DrainAfter(ws) == IF Waits(ws, Drainer) THEN [drain EXCEPT !.st = "failed"] ELSE drain

\* cancel, and fail unless it has run before: the generation ends, its clients
\* are terminated and every waiter is rejected.  w is the work left to settle.
Stop(w, failed) ==
    /\ \E lost \in SUBSET Losable(w, clients) : work' = Released(w, clients, "rejected", lost)
    /\ generation' = generation + 1
    /\ active' = FALSE /\ issuanceClosed' = TRUE /\ failure' = failed
    /\ clients' = {} /\ ready' = ready \ clients /\ leased' = {}
    /\ waiters' = <<>> /\ call' = CallsAfter(call, waiters) /\ drain' = DrainAfter(waiters)

fail(w) ==
    IF failure
    THEN work' = w /\ UNCHANGED <<owner, clients, ready, leased, waiters, call, drain>>
    ELSE Stop(w, TRUE)

\* Fault: a freed client is announced to nobody.
wakeNextWaiter_never(calls) == call' = calls /\ UNCHANGED <<waiters, drain>>

\* The first waiter of this generation is woken, those before it are rejected;
\* calls are the calls as the one who wakes it leaves them.
wakeNextWaiter(calls) ==
    LET n == SelectInSeq(waiters, LAMBDA w : active /\ w[1] = generation)
        gone == IF n = 0 THEN waiters ELSE SubSeq(waiters, 1, n - 1)
    IN  /\ waiters' = IF n = 0 THEN <<>> ELSE SubSeq(waiters, n + 1, Len(waiters))
        /\ call' = [k \in Callers |->
                      IF n # 0 /\ waiters[n][2] = k THEN [calls[k] EXCEPT !.st = "woken"]
                      ELSE CallsAfter(calls, gone)[k]]
        /\ drain' = IF n # 0 /\ waiters[n][2] = Drainer THEN [drain EXCEPT !.st = "woken"]
                    ELSE DrainAfter(gone)

--------------------------------------------------------------------------------
(* Warming and starting.                                                    *)

\* prewarm(n): clients are added up to n, never removed.
prewarm(n) ==
    /\ ~active /\ warm = 0 /\ generation < MaxGeneration
    /\ generation' = generation + 1 /\ warm' = generation + 1
    /\ \E more \in SUBSET (Clients \ clients) :
         /\ more = {} => Cardinality(clients) >= n
         /\ more # {} => Cardinality(clients \cup more) = n
         /\ clients' = clients \cup more
    /\ UNCHANGED <<active, issuanceClosed, failure, ready, leased, waiters, call, work,
                   commits, drain, tally>>

\* The warm-ups have settled; a rejection fails the pool it was asked for.
prewarmSettles(rejected) ==
    /\ warm # 0
    /\ warm' = 0
    /\ IF rejected /\ warm = generation
       THEN fail(work)
       ELSE UNCHANGED <<owner, clients, ready, leased, waiters, call, work, drain>>
    /\ UNCHANGED <<commits, tally>>

\* initialize(n): a new generation, in which all n clients are initialized anew.
\* Its runner starts it when the previous one has ended.
initialize(n) ==
    /\ ~active /\ drain.st \in {"none", "ok", "failed"} /\ generation < MaxGeneration
    /\ \A k \in Callers : call[k].st = "idle"
    /\ LET g == generation + 1 IN
       /\ generation' = g
       /\ \E cs \in SUBSET Clients :
            /\ Cardinality(cs) = n /\ (cs \subseteq clients \/ clients \subseteq cs)
            /\ clients' = cs /\ ready' = {}
            /\ work' = [k \in DOMAIN work \cup {<<g, c>> : c \in cs} |->
                          IF k[1] = g THEN [kind |-> "init", st |-> "running"] ELSE work[k]]
    /\ active' = TRUE /\ issuanceClosed' = FALSE /\ failure' = FALSE
    /\ leased' = {} /\ drain' = NoDrain
    /\ issued' = 0 /\ completed' = 0
    /\ UNCHANGED <<waiters, call, commits, warm>>

\* A client's initializer succeeds: its client is ready and one waiter is told.
initialized(k) ==
    /\ k \in DOMAIN work /\ work[k] = [kind |-> "init", st |-> "running"]
    /\ work' = Without(k)
    /\ ready' = ready \cup {k[2]}
    /\ IF active /\ k[1] = generation THEN wakeNextWaiter(call) ELSE UNCHANGED <<waiters, call, drain>>
    /\ UNCHANGED <<owner, clients, leased, commits, warm, tally>>

\* An initializer rejects: unless it was retired, or its query is over, the pool
\* fails.
initializerRejects(k) ==
    /\ k \in DOMAIN work /\ work[k].kind = "init" /\ work[k].st \in {"rejected", "retired"}
    /\ IF work[k].st = "retired" \/ k[1] # generation
       THEN work' = Without(k) /\ UNCHANGED <<owner, clients, ready, leased, waiters, call, drain>>
       ELSE fail(Without(k))
    /\ UNCHANGED <<commits, warm, tally>>

--------------------------------------------------------------------------------
(* Tasks.                                                                   *)

\* With an available client the call hands it a task, or finds its source empty
\* and frees it again; without one it waits.
Iterate(k) ==
    IF Available = {}
    THEN /\ waiters' = Append(waiters, <<generation, k>>)
         /\ call' = [call EXCEPT ![k] = [st |-> "waiting", generation |-> generation]]
         /\ UNCHANGED <<leased, work, drain, issued>>
    ELSE \/ /\ issued < MaxTasks
            /\ \E c \in Available :
                 /\ leased' = leased \cup {c}
                 /\ work' = [x \in DOMAIN work \cup {<<generation, c>>} |->
                               IF x = <<generation, c>>
                               THEN [kind |-> "task", st |-> "running"] ELSE work[x]]
            /\ issued' = issued + 1
            /\ call' = [call EXCEPT ![k] = Idle]
            /\ UNCHANGED <<waiters, drain>>
         \/ /\ wakeNextWaiter([call EXCEPT ![k] = Idle])
            /\ UNCHANGED <<leased, work, issued>>

\* enqueueFromSource is called.
enqueueFromSource(k) ==
    /\ call[k].st = "idle" /\ Owns(generation) /\ ~issuanceClosed
    /\ Iterate(k)
    /\ UNCHANGED <<owner, clients, ready, commits, warm, completed>>

\* A woken call looks for a client again, in the query it was made in.
enqueueResumes(k) ==
    /\ call[k].st = "woken"
    /\ IF Owns(call[k].generation) /\ ~issuanceClosed
       THEN Iterate(k)
       ELSE /\ call' = [call EXCEPT ![k] = Idle]
            /\ UNCHANGED <<leased, work, waiters, drain, issued>>
    /\ UNCHANGED <<owner, clients, ready, commits, warm, completed>>

\* client.consume or client.finish answers with a sealed result, or rejects.
clientAnswers(k) ==
    /\ k \in DOMAIN work /\ work[k].kind # "init" /\ work[k].st = "running"
    /\ work' = At(k, "sealed")
    /\ UNCHANGED <<owner, clients, ready, leased, waiters, call, commits, drain, warm, tally>>

clientFails(k) ==
    /\ k \in DOMAIN work /\ work[k].st = "running"
    /\ work' = At(k, "rejected")
    /\ UNCHANGED <<owner, clients, ready, leased, waiters, call, commits, drain, warm, tally>>

\* A worker that nothing is asked of errs: its client is released, and the pool
\* is not told.
workerLost(c) ==
    /\ c \in ready
    /\ \A k \in DOMAIN work : k[2] = c => work[k].st # "running"
    /\ ready' = ready \ {c}
    /\ UNCHANGED <<owner, clients, leased, waiters, call, work, commits, drain, warm, tally>>

--------------------------------------------------------------------------------
(* Committing.                                                              *)

\* A sealed result of the current query joins the tail of its generation.
commitResult(k) ==
    /\ k \in DOMAIN work /\ work[k].st = "sealed"
    /\ IF Owns(k[1])
       THEN /\ work' = At(k, "queued")
            /\ tail' = [tail EXCEPT ![k[1]] = Append(@, k[2])]
       ELSE work' = At(k, "failed") /\ UNCHANGED tail
    /\ UNCHANGED <<owner, clients, ready, leased, waiters, call, rejectedTails, torn, drain,
                   warm, tally>>

\* Fault: results do not wait for one another.
IsHead_any(k) == \E i \in DOMAIN tail[k[1]] : tail[k[1]][i] = k[2]

IsHead(k) == tail[k[1]] # <<>> /\ Head(tail[k[1]]) = k[2]

\* The commit of k rejects, and with it the tail; applied says whether the
\* application of its result had begun.
Rejects(k, applied) ==
    /\ work' = At(k, "failed")
    /\ tail' = [tail EXCEPT ![k[1]] = Remove(@, k[2])]
    /\ torn' = IF applied THEN torn \cup {k[1]} ELSE torn
    /\ rejectedTails' = rejectedTails \cup {k[1]}

Applies(k, st) == work' = At(k, st) /\ UNCHANGED commits

\* applySealedVerifierResult up to its first await.  A result is applied in two
\* chunks, between which the merger may yield to the host: the first is applied
\* and the merger yields, or both are and the journal is told; a chunk can throw.
applySealedVerifierResult(k) ==
    /\ k \in DOMAIN work /\ work[k].st = "queued" /\ IsHead(k)
    /\ IF k[1] \in rejectedTails \/ ~Owns(k[1])
       THEN Rejects(k, FALSE)
       ELSE Rejects(k, TRUE) \/ Applies(k, "yielded") \/ Applies(k, "completing")
    /\ UNCHANGED <<owner, clients, ready, leased, waiters, call, drain, warm, tally>>

\* The merger resumes after its yield: the second chunk, if the query still is
\* the one that owns the result.
applyResumes(k) ==
    /\ k \in DOMAIN work /\ work[k].st = "yielded"
    /\ Rejects(k, TRUE) \/ (Owns(k[1]) /\ Applies(k, "completing"))
    /\ UNCHANGED <<owner, clients, ready, leased, waiters, call, drain, warm, tally>>

\* resultAppliedAndCompleted answers.
resultAppliedAndCompleted(k) ==
    /\ k \in DOMAIN work /\ work[k].st = "completing"
    /\ \/ Rejects(k, TRUE) /\ UNCHANGED completed
       \/ /\ Owns(k[1])
          /\ work' = At(k, "committed")
          /\ tail' = [tail EXCEPT ![k[1]] = Remove(@, k[2])]
          /\ completed' = IF work[k].kind = "task" THEN completed + 1 ELSE completed
          /\ UNCHANGED <<rejectedTails, torn>>
    /\ UNCHANGED <<owner, clients, ready, leased, waiters, call, drain, warm, issued>>

\* consumeLease ends: the lease is given up and the next waiter woken, or the
\* pool fails.
Unlease(k) == IF k[1] = generation THEN leased \ {k[2]} ELSE leased

taskSucceeds(k) ==
    /\ k \in DOMAIN work /\ work[k] = [kind |-> "task", st |-> "committed"]
    /\ work' = Without(k)
    /\ leased' = Unlease(k)
    /\ wakeNextWaiter(call)
    /\ UNCHANGED <<owner, clients, ready, commits, warm, tally>>

taskFails(k) ==
    /\ k \in DOMAIN work /\ work[k].kind = "task" /\ work[k].st \in {"rejected", "failed"}
    /\ IF active /\ k[1] = generation
       THEN fail(Without(k))
       ELSE /\ work' = Without(k)
            /\ leased' = Unlease(k)
            /\ UNCHANGED <<owner, clients, ready, waiters, call, drain>>
    /\ UNCHANGED <<commits, warm, tally>>

--------------------------------------------------------------------------------
(* Ending a query.                                                          *)

\* finish, with readySubset as its runner calls it, and completeAtomicTasks: no
\* more tasks are issued.
endQuery(atomic) ==
    /\ Owns(generation) /\ drain.st = "none" /\ ~issuanceClosed
    /\ issuanceClosed' = TRUE
    /\ waiters' = <<>> /\ call' = CallsAfter(call, waiters)
    /\ drain' = [st |-> "draining", generation |-> generation, atomic |-> atomic]
    /\ UNCHANGED <<generation, active, failure, clients, ready, leased, work, commits, warm, tally>>

Of(g, kind) == {k \in DOMAIN work : k[1] = g /\ work[k].kind = kind}

\* Fault: the tasks in flight are not waited for.
waitForIdle_skipped(g) == TRUE

\* The tasks in flight have settled.
waitForIdle(g) == Of(g, "task") = {}

\* retainReadySubset: without a ready client it waits; otherwise the others are
\* retired, and the ready ones finish, unless the tasks were atomic.
retainReadySubset ==
    LET cs == clients \cap ready IN
    IF cs = {}
    THEN /\ waiters' = Append(waiters, <<generation, Drainer>>)
         /\ drain' = [drain EXCEPT !.st = "waiting"]
         /\ UNCHANGED <<active, clients, work>>
    ELSE /\ \E lost \in SUBSET Losable(work, clients \ cs) :
              LET w == Released(work, clients \ cs, "retired", lost)
                  finals == {<<generation, c>> : c \in IF drain.atomic THEN {} ELSE cs}
              IN  work' = [k \in DOMAIN w \cup finals |->
                             IF k \in finals THEN [kind |-> "final", st |-> "running"] ELSE w[k]]
         /\ clients' = cs
         /\ active' = ~drain.atomic
         /\ drain' = [drain EXCEPT !.st = IF drain.atomic THEN "ok" ELSE "finals"]
         /\ UNCHANGED waiters

drainAdvances ==
    /\ \/ drain.st = "draining" /\ waitForIdle(drain.generation)
       \/ drain.st = "woken"
    /\ IF Owns(drain.generation)
       THEN retainReadySubset
       ELSE /\ drain' = [drain EXCEPT !.st = "failed"]
            /\ UNCHANGED <<active, clients, work, waiters>>
    /\ UNCHANGED <<generation, issuanceClosed, failure, ready, leased, call, commits, warm, tally>>

\* One client's final result fails, and with it finish.
finalFails(k) ==
    /\ k \in DOMAIN work /\ work[k].kind = "final" /\ work[k].st \in {"rejected", "failed"}
    /\ IF active /\ k[1] = generation
       THEN fail(Without(k))
       ELSE work' = Without(k) /\ UNCHANGED <<owner, clients, ready, leased, waiters, call, drain>>
    /\ UNCHANGED <<commits, warm, tally>>

\* finish returns when every final result is committed, and rejects once one of
\* them has failed, or the query has been cancelled, first.
finishReturns ==
    /\ drain.st = "finals"
    /\ \/ /\ Owns(drain.generation)
          /\ \A k \in Of(drain.generation, "final") : work[k].st = "committed"
          /\ Cardinality(Of(drain.generation, "final")) = Cardinality(clients)
          /\ drain' = [drain EXCEPT !.st = "ok"]
          /\ active' = FALSE
       \/ /\ ~Owns(drain.generation)
          /\ drain' = [drain EXCEPT !.st = "failed"]
          /\ UNCHANGED active
    /\ work' = [k \in {x \in DOMAIN work : work[x].kind # "final" \/ work[x].st # "committed"}
                  |-> work[k]]
    /\ UNCHANGED <<generation, issuanceClosed, failure, clients, ready, leased, waiters, call, commits,
                   warm, tally>>

cancel ==
    /\ (active \/ failure \/ clients # {}) /\ generation <= MaxGeneration
    /\ Stop(work, FALSE)
    /\ UNCHANGED <<commits, warm, tally>>

--------------------------------------------------------------------------------

Next ==
    \/ \E n \in 1..Cardinality(Clients) : prewarm(n) \/ initialize(n)
    \/ \E b \in BOOLEAN : prewarmSettles(b) \/ endQuery(b)
    \/ \E k \in Callers : enqueueFromSource(k) \/ enqueueResumes(k)
    \/ \E k \in DOMAIN work :
         \/ initialized(k) \/ initializerRejects(k)
         \/ clientAnswers(k) \/ clientFails(k)
         \/ commitResult(k) \/ applySealedVerifierResult(k) \/ applyResumes(k)
         \/ resultAppliedAndCompleted(k)
         \/ taskSucceeds(k) \/ taskFails(k) \/ finalFails(k)
    \/ \E c \in Clients : workerLost(c)
    \/ drainAdvances \/ finishReturns \/ cancel

Spec == Init /\ [][Next]_vars

--------------------------------------------------------------------------------

\* A chunk of a result only reaches the merger while the query it was issued in is
\* the one that owns the pool, however long the merger had yielded before it; never
\* inside another result of that query, whose terminal record may still be on its
\* way ("must not interleave two sealed results", commitResult); and not once
\* applying a result of that query has failed.
AppliesInTurn ==
    [][\A k \in DOMAIN work \cap DOMAIN work' :
         work'[k].st # work[k].st /\ work'[k].st \in {"yielded", "completing"} =>
           /\ Owns(k[1]) /\ k[1] \notin torn
           /\ \A l \in DOMAIN work \ {k} :
                l[1] = k[1] => work[l].st \notin {"yielded", "completing"}]_vars

\* A finish or completeAtomicTasks that returns has every task of its query
\* applied and recorded, and leaves none of its operations behind.
FinishIsComplete ==
    drain.st = "ok" /\ drain.generation = generation =>
      /\ issued = completed
      /\ \A k \in DOMAIN work : k[1] = generation => work[k].kind = "init"

\* No wake-up is lost: while a call waits and a client is free, some call has been
\* woken and will look.
NoLostWakeup ==
    active /\ ~issuanceClosed /\ Available # {} /\ waiters # <<>>
      => \E k \in Callers : call[k].st = "woken"

================================================================================
