---------------------------- MODULE FamilyParallel ----------------------------
(***************************************************************************)
(* One search of an extended family, or of its tilings, shared by the      *)
(* caller and jobs of the worker pool under one memory budget              *)
(* (crates/clearra-core-executor/src):                                     *)
(*   backend/wasm_cpu/extended_pc_family_parallel.rs  "family";            *)
(*   backend/wasm_cpu/extended_pc_tiling_parallel.rs  "tiling";            *)
(*   resource/aggregate_execution_budget.rs  the budget: an owner for each *)
(*     worker and one for the branches still queued;                       *)
(*   cpu_worker_pool.rs  the pool of threads that takes the jobs in turn.  *)
(*                                                                         *)
(* Memory is counted in units: a queued branch holds one, its traversal    *)
(* may take a second, a candidate's evidence takes one or none, and a      *)
(* family keeps a digest for each candidate, for which it reserves room    *)
(* when it opens the branch.  What the caller holds besides is fixed and   *)
(* left out of the cap.  The pool refuses no job of a native build, so the *)
(* branches for a submission that fails are left out, and so are jobs of   *)
(* other searches.                                                         *)
(***************************************************************************)
EXTENDS Integers, FiniteSets, Sequences, Functions

CONSTANTS
    Width,          \* workers: the jobs submitted to the pool, and last the caller
    Searches        \* the searches there are

ASSUME FamilyAssumption ==
    /\ Width \in Nat \ {0}
    /\ \A s \in Searches :
          /\ s.kind \in {"family", "tiling"} /\ s.count \in Seq(Nat \ {0})
          /\ s.order \in Bijection(1..Len(s.count), 1..Len(s.count))
          /\ s.cap \in Nat /\ s.cap >= Len(s.count)

VARIABLES
    search,         \* the search
    queue,          \* branches no worker has
    abort,          \* abort
    cancelled,      \* the control is cancelled
    user,           \* ... and the user did it
    pool,           \* threads of the pool
    owners,         \* what each owner has reserved
    private_total,  \* the sum the budget keeps
    pc,             \* where each thread is
    branch,         \* the branch it has, 0 for none
    seen,           \* candidates of it already processed
    traversal,      \* units the branch holds
    kept,           \* units of its result
    segments,       \* branches it has gone through
    result,         \* how it ended
    received,       \* threads whose results the caller holds, its own first
    merged,         \* units the caller has taken over
    outcome         \* what the search returns

budget == <<owners, private_total>>
control == <<search, abort, cancelled, user, pool>>
local == <<branch, seen, traversal, kept, segments>>
vars == <<queue, control, budget, pc, local, result, received, merged, outcome>>

Kind == search.kind
Count == search.count   \* the candidates of each branch, in ordinal order
Order == search.order   \* the branches as sorted, the one offered first last
Cap == search.cap       \* units the workers and the queue may hold

Threads == 1..Width
Caller == Width
Background == 1..(Width - 1)
Queued == 0
Owners == Threads \cup {Queued}

\* The workers of a family are given their first branch, the largest ones, one after
\* the other and the caller last; those of a tiling take theirs from the queue.
Given == CASE Kind = "tiling" -> 0 [] Kind = "family" -> IF Width <= Len(Count) THEN Width ELSE Len(Count)

First(w) == IF w <= Given THEN Order[Len(Order) + 1 - w] ELSE 0

Init ==
    /\ search \in Searches
    /\ queue = SubSeq(Order, 1, Len(Order) - Given)
    /\ abort = FALSE /\ cancelled = FALSE /\ user = FALSE /\ pool = 1
    /\ owners = [o \in Owners |-> IF o = Queued THEN Len(queue) ELSE IF First(o) # 0 THEN 1 ELSE 0]
    /\ private_total = Len(Count)
    /\ pc = [w \in Threads |-> IF w = Caller THEN "loop" ELSE "queued"]
    /\ branch = [w \in Threads |-> First(w)]
    /\ seen = [w \in Threads |-> 0] /\ kept = [w \in Threads |-> 0]
    /\ traversal = [w \in Threads |-> IF First(w) # 0 THEN 1 ELSE 0]
    /\ segments = [w \in Threads |-> {}] /\ result = [w \in Threads |-> "none"]
    /\ received = <<>> /\ merged = 0 /\ outcome = "none"

Goto(w, to) == pc' = [pc EXCEPT ![w] = to]

\* A worker that gives up drops what it holds; what it had reserved stays reserved.
Give(w, how) ==
    /\ Goto(w, "ended") /\ result' = [result EXCEPT ![w] = how]
    /\ branch' = [branch EXCEPT ![w] = 0] /\ traversal' = [traversal EXCEPT ![w] = 0]
    /\ kept' = [kept EXCEPT ![w] = 0] /\ UNCHANGED <<seen, segments>>

--------------------------------------------------------------------------------
(* The budget.                                                              *)

Fits(w, n) == private_total - owners[w] + n <= Cap

ensure(w, n) ==
    /\ owners' = [owners EXCEPT ![w] = n]
    /\ private_total' = private_total - owners[w] + n

\* Fault: the queue's share is returned and the worker's grows with its next step.
transfer_retained_to_later(w) ==
    /\ owners' = [owners EXCEPT ![Queued] = @ - 1] /\ private_total' = private_total - 1

transfer_retained_to(w) ==
    /\ owners' = [owners EXCEPT ![Queued] = @ - 1, ![w] = @ + 1] /\ UNCHANGED private_total

--------------------------------------------------------------------------------
(* The surroundings.                                                        *)

cancel ==
    /\ ~user /\ outcome \in {"none", "merging"} /\ user' = TRUE /\ cancelled' = TRUE
    /\ UNCHANGED <<search, queue, abort, pool, budget, pc, local, result, received, merged, outcome>>

\* The pool has one thread for certain; the others join it before the jobs are submitted
\* or while they run, as far as they can be had.
grow ==
    /\ pool < Width - 1 /\ pool' = pool + 1
    /\ UNCHANGED <<search, queue, abort, cancelled, user, budget, pc, local, result, received,
                   merged, outcome>>

\* Fault: a worker that panics unwinds, and with it the job and its thread of the pool.
Caught_never(w) == result[w] # "failed"

\* Whatever a worker ends with is a result of the job, a panic included.
Caught(w) == TRUE

\* The jobs a thread of the pool is taken up with.
Running == {w \in Background : pc[w] # "queued" /\ ~(pc[w] = "sent" /\ Caught(w))}

\* A free thread of the pool takes the job that was submitted first.
start(w) ==
    /\ pc[w] = "queued" /\ (\A v \in 1..(w - 1) : pc[v] # "queued") /\ Cardinality(Running) < pool
    /\ Goto(w, "loop")
    /\ UNCHANGED <<queue, control, budget, local, result, received, merged, outcome>>

--------------------------------------------------------------------------------
(* run_worker.                                                              *)

Stopped == cancelled \/ abort

Empty == queue = <<>>

before_count(w) == seen' = [seen EXCEPT ![w] = 0]

\* The head of the outer loop, and the branch: the one given, or one of the queue.
take(w) ==
    /\ pc[w] = "loop"
    /\ IF Stopped THEN Give(w, "cancelled") /\ UNCHANGED queue
       ELSE /\ UNCHANGED <<traversal, kept, segments, result>>
            /\ IF branch[w] # 0 THEN Goto(w, "open") /\ UNCHANGED <<queue, branch>>
               ELSE IF Empty THEN Goto(w, "close") /\ UNCHANGED <<queue, branch>>
               ELSE /\ branch' = [branch EXCEPT ![w] = queue[Len(queue)]]
                    /\ queue' = SubSeq(queue, 1, Len(queue) - 1)
                    /\ Goto(w, "transfer")
            /\ before_count(w)
    /\ UNCHANGED <<control, budget, received, merged, outcome>>

transfer(w) ==
    /\ pc[w] = "transfer" /\ transfer_retained_to(w) /\ Goto(w, "open")
    /\ traversal' = [traversal EXCEPT ![w] = 1]
    /\ UNCHANGED <<queue, control, branch, seen, kept, segments, result, received, merged, outcome>>

\* A checkpoint of the budget: what it refuses ends the worker.
Checkpoint(w, n, step) ==
    IF Fits(w, n) THEN ensure(w, n) /\ step ELSE UNCHANGED budget /\ Give(w, "resource")

\* A family reserves room for the digests of the branch; a tiling keeps none.
Digests(w) == IF Kind = "family" THEN Count[branch[w]] ELSE 0

open(w) ==
    /\ pc[w] = "open"
    /\ LET n == Digests(w) IN
       Checkpoint(w, kept[w] + traversal[w] + n,
           /\ kept' = [kept EXCEPT ![w] = @ + n] /\ Goto(w, "inner")
           /\ UNCHANGED <<branch, seen, traversal, segments, result>>)
    /\ UNCHANGED <<queue, control, received, merged, outcome>>

\* The head of the inner loop, and next_candidate_with_owner: the traversal may grow,
\* with room reserved first; there may be no candidate left.
next_candidate(w) ==
    /\ pc[w] = "inner"
    /\ IF Stopped THEN Give(w, "cancelled") /\ UNCHANGED budget
       ELSE IF seen[w] = Count[branch[w]]
       THEN Goto(w, "shut") /\ UNCHANGED <<local, result, budget>>
       ELSE \E n \in {traversal[w], 2} :
               Checkpoint(w, kept[w] + n,
                   /\ traversal' = [traversal EXCEPT ![w] = n] /\ Goto(w, "process")
                   /\ UNCHANGED <<branch, seen, kept, segments, result>>)
    /\ UNCHANGED <<queue, control, received, merged, outcome>>

\* The candidate is processed: room for its evidence is reserved, then taken.
process_candidate(w, n) ==
    Checkpoint(w, kept[w] + traversal[w] + n,
        /\ kept' = [kept EXCEPT ![w] = @ + n] /\ seen' = [seen EXCEPT ![w] = @ + 1]
        /\ Goto(w, "inner") /\ UNCHANGED <<branch, traversal, segments, result>>)

process(w) ==
    /\ pc[w] = "process"
    /\ \/ \E n \in 0..1 : process_candidate(w, n)
       \/ Give(w, "failed") /\ UNCHANGED budget
       \/ Kind = "family" /\ cancelled /\ Give(w, "cancelled") /\ UNCHANGED budget
    /\ UNCHANGED <<queue, control, received, merged, outcome>>

\* The end of a branch: it is dropped, and its room returned.
shut(w) ==
    /\ pc[w] = "shut"
    /\ segments' = [segments EXCEPT ![w] = @ \cup {branch[w]}]
    /\ branch' = [branch EXCEPT ![w] = 0] /\ traversal' = [traversal EXCEPT ![w] = 0]
    /\ ensure(w, kept[w]) /\ Goto(w, "loop")
    /\ UNCHANGED <<queue, control, seen, kept, result, received, merged, outcome>>

close(w) ==
    /\ pc[w] = "close" /\ ensure(w, kept[w])
    /\ Goto(w, "ended") /\ result' = [result EXCEPT ![w] = "ok"]
    /\ UNCHANGED <<queue, control, local, received, merged, outcome>>

\* The closure of the job, and the caller after its share: an error stops the others;
\* that of a family also cancels the control.
send(w) ==
    /\ pc[w] = "ended" /\ Goto(w, "sent")
    /\ IF Caught(w)
       THEN /\ abort' = (abort \/ result[w] # "ok")
            /\ cancelled' = (cancelled \/ (Kind = "family" /\ result[w] # "ok"))
            /\ received' = IF w = Caller THEN <<w>> \o received ELSE Append(received, w)
       ELSE UNCHANGED <<abort, cancelled, received>>
    /\ UNCHANGED <<search, queue, user, pool, budget, local, result, merged, outcome>>

Worker(w) ==
    \/ start(w) \/ take(w) \/ transfer(w) \/ open(w) \/ next_candidate(w) \/ process(w)
    \/ shut(w) \/ close(w) \/ send(w)

--------------------------------------------------------------------------------
(* The caller, when its share is done.                                      *)

\* The caller holds its own result and receives one for each job submitted, unless the
\* channel closes first: every job is gone, and with it its sender.
Closed == \A w \in Background : pc[w] = "sent"

Drained == Len(received) = Width \/ Closed

\* The jobs for which recv returns an error instead, a pool_error.
Lost == {w \in Background : w \notin Range(received)}

\* The places in received of the results with one of these ends, and the first of some.
At(how) == {n \in DOMAIN received : result[received[n]] \in how}

Earliest(places) == CHOOSE n \in places : \A m \in places : n <= m

\* Fault: the first error is kept whatever it is.
first_error_kept ==
    LET errors == At({"failed", "resource", "cancelled"}) IN
    IF errors = {} THEN "none" ELSE result[received[Earliest(errors)]]

\* The first error, but a cancellation only if there is no other.
first_error ==
    LET errors == At({"failed", "resource"}) IN
    CASE errors # {} -> result[received[Earliest(errors)]]
      [] errors = {} /\ Lost # {} -> "failed"
      [] errors = {} /\ Lost = {} /\ At({"cancelled"}) # {} -> "cancelled"
      [] errors = {} /\ Lost = {} /\ At({"cancelled"}) = {} -> "none"

Processed == [w \in Threads |-> SumFunctionOnSet(Count, segments[w])]

\* A family folds the digests in ordinal order, without gap or repetition; of a tiling
\* the number of candidates is compared.
Contract ==
    IF Kind = "family"
    THEN \A b \in 1..Len(Count) : \E w \in Threads :
            b \in segments[w] /\ \A v \in Threads \ {w} : b \notin segments[v]
    ELSE SumFunction(Processed) = SumFunction(Count)

\* Room for the caller's own containers may be refused at any time.
collect ==
    /\ outcome = "none" /\ pc[Caller] = "sent" /\ Drained
    /\ outcome' \in {"resource",
                    IF first_error # "none" THEN first_error
                    ELSE IF cancelled THEN "cancelled"
                    ELSE IF ~Contract THEN "contract" ELSE "merging"}
    /\ UNCHANGED <<queue, control, budget, pc, local, result, received, merged>>

release_after_drop(w) == ensure(w, 0)

\* A worker's result is taken over and dropped, then its room returned.  A family
\* compares what it holds with the bound at each.
merge ==
    /\ outcome = "merging" /\ received # <<>>
    /\ LET w == received[Len(received)] IN
       /\ merged' = merged + kept[w] /\ kept' = [kept EXCEPT ![w] = 0]
       /\ release_after_drop(w) /\ received' = SubSeq(received, 1, Len(received) - 1)
    /\ outcome' \in {outcome} \cup (IF Kind = "family" THEN {"resource"} ELSE {})
    /\ UNCHANGED <<queue, control, pc, branch, seen, traversal, segments, result>>

\* The result is completed, which may still find the search cancelled or need room.
complete ==
    /\ outcome = "merging" /\ received = <<>>
    /\ outcome' \in {"ok", "resource"} \cup (IF Kind = "family" /\ cancelled THEN {"cancelled"} ELSE {})
    /\ UNCHANGED <<queue, control, budget, pc, local, result, received, merged>>

Collect == collect \/ merge \/ complete

Next == cancel \/ grow \/ Collect \/ \E w \in Threads : Worker(w)

Spec == Init /\ [][Next]_vars

\* Every thread is scheduled, those of the pool included.  Nothing is assumed of its growth.
FairSpec == Spec /\ WF_vars(Collect) /\ \A w \in Threads : WF_vars(Worker(w))

--------------------------------------------------------------------------------

\* What the workers hold is reserved before it is allocated, each under its own owner
\* and a queued branch under the queue's, also while a branch changes hands; the sum
\* the budget keeps is the sum of the reservations and never more than the cap; and a
\* search that succeeds has returned all of it (SharedExecutionMemoryBudget).
Accounted ==
    /\ private_total = SumFunction(owners) /\ private_total <= Cap
    /\ \A w \in Threads : kept[w] + traversal[w] <= owners[w]
    /\ owners[Queued] = Len(queue) + Cardinality({w \in Threads : pc[w] = "transfer"})
    /\ merged + SumFunction(kept) <= Cap
    /\ outcome = "ok" => private_total = 0

\* What the search returns is true of it.  It returns, and its lease with it, only when
\* every job has answered: "Even submit/panic/cancellation errors must drain every
\* owned job" (extended_pc_tiling_parallel.rs).  If it succeeds, every branch was gone
\* through exactly once; the caller's own check of that never fails.  It is cancelled
\* only when the user cancelled it and nothing else went wrong: the cancellation with
\* which a failing worker stops the others never hides its error (first_error).
OutcomeIsTrue ==
    /\ outcome \notin {"none", "merging"} => \A w \in Background : pc[w] = "sent"
    /\ outcome # "contract"
    /\ outcome = "ok" => \A b \in 1..Len(Count) : \E w \in Threads :
          b \in segments[w] /\ \A v \in Threads \ {w} : b \notin segments[v]
    /\ outcome = "cancelled" => user /\ \A w \in Threads : result[w] \notin {"failed", "resource"}

\* The search returns, also when it is cancelled, a worker fails or panics, or the memory
\* does not suffice, and however few threads the pool has: a worker waits for no other,
\* and "Logical jobs remain queued and are still completed by ready workers"
\* (ensure_background_workers_progressively).
Returns == <>(outcome \notin {"none", "merging"})
================================================================================
