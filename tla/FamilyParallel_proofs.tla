------------------------- MODULE FamilyParallel_proofs -------------------------
(* Proofs about FamilyParallel, for any number of workers and any searches.   *)
EXTENDS FamilyParallel, FiniteSums

Branches == 1..Len(Count)

\* Where a worker has a branch, and where it has none any more.
HasBranch == {"transfer", "open", "inner", "process", "shut"}
NoBranch == {"close", "ended", "sent"}

Places == {"queued", "loop"} \cup HasBranch \cup NoBranch

Errors == {"failed", "resource", "cancelled"}

TypeOK ==
    /\ search \in Searches /\ queue \in Seq(Branches)
    /\ abort \in BOOLEAN /\ cancelled \in BOOLEAN /\ user \in BOOLEAN
    /\ owners \in [Owners -> Nat] /\ private_total \in Nat
    /\ pc \in [Threads -> Places]
    /\ branch \in [Threads -> {0} \cup Branches] /\ segments \in [Threads -> SUBSET Branches]
    /\ traversal \in [Threads -> Nat] /\ kept \in [Threads -> Nat]
    /\ result \in [Threads -> {"none", "ok"} \cup Errors]
    /\ received \in Seq(Threads) /\ merged \in Nat
    /\ outcome \in {"none", "merging", "ok"} \cup Errors

\* What a worker has at each place.
WorkInv ==
    \A w \in Threads :
        /\ pc[w] \in HasBranch => branch[w] # 0
        /\ pc[w] \in NoBranch => branch[w] = 0
        /\ branch[w] = 0 \/ pc[w] = "transfer" => traversal[w] = 0
        /\ result[w] # "none" <=> pc[w] \in {"ended", "sent"}
        /\ result[w] = "ok" \/ pc[w] = "close" => queue = <<>>

Moving == {w \in Threads : pc[w] = "transfer"}

BudgetInv ==
    /\ private_total = SumFunction(owners) /\ private_total <= Cap
    /\ \A w \in Threads : kept[w] + traversal[w] <= owners[w]
    /\ owners[Queued] = Len(queue) + Cardinality(Moving)

\* A branch is in one place, and in one at least unless a worker has given up.
PlaceInv ==
    /\ \A m, n \in DOMAIN queue : queue[m] = queue[n] => m = n
    /\ \A n \in DOMAIN queue, w \in Threads : queue[n] # branch[w] /\ queue[n] \notin segments[w]
    /\ \A w, v \in Threads : branch[w] # 0 /\ branch[w] = branch[v] => w = v
    /\ \A w, v \in Threads : branch[w] \notin segments[v]
    /\ \A w, v \in Threads : w # v => segments[w] \cap segments[v] = {}
    /\ (\A w \in Threads : result[w] \notin Errors) =>
          \A b \in Branches :
              (\E n \in DOMAIN queue : queue[n] = b) \/ \E w \in Threads : branch[w] = b \/ b \in segments[w]

\* Whoever stops the others has a reason.
Blamed == user \/ \E w \in Threads : result[w] \in {"failed", "resource"}

BlameInv ==
    /\ cancelled \/ abort => Blamed
    /\ \A w \in Threads : result[w] = "cancelled" => Blamed

Sending == {w \in Threads : pc[w] = "sent"}

\* The caller collects what the workers send, once each, and merges when all have.
CollectInv ==
    /\ outcome = "none" => merged = 0 /\ Range(received) = Sending /\ Len(received) = Cardinality(Sending)
    /\ outcome # "none" => Sending = Threads /\ merged + SumFunction(kept) <= Cap
    /\ outcome \in {"merging", "ok"} =>
          \A w \in Threads : result[w] = "ok" /\ (w \in Range(received) \/ owners[w] = 0)
    /\ outcome = "ok" => received = <<>>
    /\ outcome = "cancelled" => user /\ \A w \in Threads : result[w] \notin {"failed", "resource"}

IInv == TypeOK /\ WorkInv /\ BudgetInv /\ PlaceInv /\ BlameInv /\ CollectInv

--------------------------------------------------------------------------------
(* The search and its threads. *)

LEMMA SearchIs ==
    ASSUME TypeOK
    PROVE  /\ Kind \in {"family", "tiling"} /\ Count \in Seq(Nat \ {0}) /\ Len(Count) \in Nat
           /\ Order \in Bijection(Branches, Branches)
           /\ Cap \in Nat /\ Len(Count) <= Cap
           /\ \A b \in Branches : Count[b] \in Nat \ {0}
<1>1. /\ Kind \in {"family", "tiling"} /\ Count \in Seq(Nat \ {0})
      /\ Order \in Bijection(Branches, Branches)
      /\ Cap \in Nat /\ Len(Count) <= Cap
  BY FamilyAssumption, Zenon DEF TypeOK, Kind, Count, Order, Cap, Branches
<1> QED BY <1>1 DEF Branches

LEMMA ThreadsAre ==
    /\ Width \in Nat \ {0} /\ Caller \in Threads /\ Background \subseteq Threads
    /\ Queued \in Owners /\ Queued \notin Threads /\ Threads \subseteq Owners
    /\ \A o \in Owners : o # Queued => o \in Threads
    /\ IsFiniteSet(Threads) /\ IsFiniteSet(Owners) /\ Cardinality(Threads) = Width
<1>1. Width \in Nat \ {0}
  BY FamilyAssumption, Zenon
<1>2. IsFiniteSet(Threads) /\ Cardinality(Threads) = Width
  BY <1>1, FS_Interval DEF Threads
<1>3. IsFiniteSet(Owners)
  BY <1>2, FS_AddElement, Zenon DEF Owners
<1> QED BY <1>1, <1>2, <1>3 DEF Threads, Caller, Background, Queued, Owners

LEMMA SearchKept ==
    ASSUME Next
    PROVE  /\ search' = search /\ Kind' = Kind /\ Count' = Count /\ Cap' = Cap /\ Branches' = Branches
<1>1. search' = search
  <2>1. ASSUME NEW w \in Threads, Worker(w) PROVE search' = search
    BY <2>1, Zenon DEF Worker, start, take, transfer, open, next_candidate, process, shut, close, send, control
  <2>2. ASSUME cancel \/ grow \/ Collect PROVE search' = search
    BY <2>2, Zenon DEF cancel, grow, Collect, collect, merge, complete, control
  <2> QED BY <2>1, <2>2, Zenon DEF Next
<1> QED BY <1>1, Zenon DEF Kind, Count, Cap, Branches

\* What the other workers have is left alone.
LEMMA OthersKeep ==
    ASSUME TypeOK, NEW w \in Threads, Worker(w), NEW v \in Threads, v # w
    PROVE  /\ pc'[v] = pc[v] /\ branch'[v] = branch[v] /\ traversal'[v] = traversal[v]
           /\ kept'[v] = kept[v] /\ segments'[v] = segments[v] /\ result'[v] = result[v]
           /\ owners'[v] = owners[v]
<1> USE DEF Goto, Give, TypeOK, local, budget
<1>1. CASE start(w) \/ take(w) \/ close(w)
  BY <1>1, ThreadsAre DEF start, take, close, ensure
<1>2. CASE transfer(w) \/ shut(w) \/ send(w)
  BY <1>2, ThreadsAre, Zenon DEF transfer, shut, send, ensure, transfer_retained_to
<1>3. CASE open(w) \/ next_candidate(w)
  BY <1>3, ThreadsAre, Zenon DEF open, next_candidate, Checkpoint, ensure
<1>4. CASE process(w)
  BY <1>4, ThreadsAre DEF process, process_candidate, Checkpoint, ensure
<1> QED BY <1>1, <1>2, <1>3, <1>4, Zenon DEF Worker

--------------------------------------------------------------------------------
(* The budget. *)

LEMMA OwnerBelow ==
    ASSUME TypeOK, BudgetInv, NEW o \in Owners
    PROVE  owners[o] <= private_total
<1>1. /\ DOMAIN owners = Owners /\ \A x \in Owners : owners[x] \in Nat
  BY Zenon DEF TypeOK
<1>2. private_total = owners[o] + SumFunctionOnSet(owners, Owners \ {o})
  BY <1>1, SumRemove, ThreadsAre DEF BudgetInv, SumFunction
<1>3. IsFiniteSet(Owners \ {o})
  BY ThreadsAre, FS_Subset, Zenon
<1>4. SumFunctionOnSet(owners, Owners \ {o}) \in Nat
  BY <1>1, <1>3, SumNat, Zenon
<1> QED BY <1>1, <1>2, <1>4

LEMMA UpdateSum ==
    ASSUME NEW S, IsFiniteSet(S), NEW g \in [S -> Nat], NEW h \in [S -> Nat], NEW x \in S,
           \A y \in S : y # x => g[y] = h[y]
    PROVE  SumFunction(h) = SumFunction(g) + h[x] - g[x]
<1>1. \A y \in S : g[y] \in Int /\ h[y] \in Int
  OBVIOUS
<1>2. SumFunctionOnSet(h, S) = SumFunctionOnSet(g, S) + h[x] - g[x]
  BY <1>1, SumUpdate
<1> QED BY <1>2, Zenon DEF SumFunction

LEMMA EnsureKeeps ==
    ASSUME TypeOK, BudgetInv, NEW w \in Threads, NEW n \in Nat, ensure(w, n)
    PROVE  /\ owners' \in [Owners -> Nat] /\ private_total' \in Nat
           /\ private_total' = SumFunction(owners')
           /\ private_total' = private_total - owners[w] + n
           /\ owners'[w] = n /\ owners'[Queued] = owners[Queued]
<1>1. /\ owners \in [Owners -> Nat] /\ w \in Owners /\ owners' = [owners EXCEPT ![w] = n]
      /\ private_total' = private_total - owners[w] + n /\ private_total \in Nat
      /\ private_total = SumFunction(owners) /\ IsFiniteSet(Owners)
  BY ThreadsAre, Zenon DEF TypeOK, ensure, BudgetInv
<1>2. /\ owners' \in [Owners -> Nat] /\ owners'[w] = n /\ owners'[Queued] = owners[Queued]
      /\ \A o \in Owners : o # w => owners[o] = owners'[o]
  BY <1>1, ThreadsAre, Zenon
<1>3. SumFunction(owners') = SumFunction(owners) + owners'[w] - owners[w]
  <2>1. /\ owners \in [Owners -> Nat] /\ w \in Owners /\ IsFiniteSet(Owners)
    BY <1>1, Zenon
  <2> QED BY <1>2, <2>1, UpdateSum
<1>4. owners[w] <= private_total /\ owners[w] \in Nat
  BY <1>1, OwnerBelow, Zenon
<1> QED BY <1>1, <1>2, <1>3, <1>4

LEMMA TransferKeeps ==
    ASSUME TypeOK, BudgetInv, NEW w \in Threads, transfer_retained_to(w), pc[w] = "transfer"
    PROVE  /\ owners' \in [Owners -> Nat] /\ private_total' = private_total
           /\ private_total' = SumFunction(owners')
           /\ owners'[w] = owners[w] + 1 /\ owners'[Queued] = owners[Queued] - 1
<1>1. /\ owners \in [Owners -> Nat] /\ w \in Owners /\ Queued \in Owners /\ w # Queued
      /\ owners' = [owners EXCEPT ![Queued] = @ - 1, ![w] = @ + 1]
      /\ private_total' = private_total /\ private_total = SumFunction(owners) /\ IsFiniteSet(Owners)
  BY ThreadsAre, Zenon DEF TypeOK, transfer_retained_to, BudgetInv
<1>2. owners[Queued] >= 1
  <2>1. IsFiniteSet(Moving) /\ w \in Moving
    BY ThreadsAre, FS_Subset, Zenon DEF Moving
  <2>2. Cardinality(Moving) \in Nat /\ Cardinality(Moving) # 0
    BY <2>1, FS_CardinalityType, FS_EmptySet, Zenon
  <2>3. Len(queue) \in Nat
    BY DEF TypeOK
  <2> QED BY <2>2, <2>3 DEF BudgetInv
<1> DEFINE g == [owners EXCEPT ![Queued] = owners[Queued] - 1]
<1>3. /\ owners' \in [Owners -> Nat] /\ owners'[w] = owners[w] + 1 /\ owners'[Queued] = owners[Queued] - 1
      /\ \A o \in Owners : o # w => g[o] = owners'[o]
  BY <1>1, <1>2
<1>4. /\ g \in [Owners -> Nat] /\ g[Queued] = owners[Queued] - 1 /\ g[w] = owners[w]
      /\ \A o \in Owners : o # Queued => owners[o] = g[o]
  BY <1>1, <1>2
<1> HIDE DEF g
<1>5. owners \in [Owners -> Nat] /\ w \in Owners /\ Queued \in Owners /\ IsFiniteSet(Owners)
  BY <1>1, Zenon
<1>6. SumFunction(g) = SumFunction(owners) + g[Queued] - owners[Queued]
  BY <1>4, <1>5, UpdateSum
<1>7. SumFunction(owners') = SumFunction(g) + owners'[w] - g[w]
  BY <1>3, <1>4, <1>5, UpdateSum
<1>8. SumFunction(owners) \in Nat
  BY <1>1, Zenon DEF TypeOK
<1> QED BY <1>1, <1>3, <1>4, <1>5, <1>6, <1>7, <1>8

--------------------------------------------------------------------------------
(* Types. *)

\* The steps of a worker by what they change: the place, the branch, the units of the
\* result and of the traversal, and the branches gone through.
Local(w, to, b, n, t, S) ==
    /\ Goto(w, to) /\ branch' = [branch EXCEPT ![w] = b]
    /\ kept' = [kept EXCEPT ![w] = n] /\ traversal' = [traversal EXCEPT ![w] = t]
    /\ segments' = [segments EXCEPT ![w] = S] /\ result' = result

\* It gives up.
GiveUp(w) ==
    /\ pc[w] \in {"loop", "open", "inner", "process"} /\ UNCHANGED <<queue, budget>>
    /\ \E how \in Errors : Give(w, how) /\ (how = "cancelled" => Stopped)

\* It goes on with n and t units, reserved before.
Reserve(w) ==
    /\ pc[w] \in {"open", "inner", "process"} /\ queue' = queue
    /\ \E to \in {"inner", "process"}, n, t \in Nat :
          Local(w, to, branch[w], n, t, segments[w]) /\ Fits(w, n + t) /\ ensure(w, n + t)

\* It only moves on.
Move(w) ==
    /\ UNCHANGED <<queue, budget>>
    /\ \E to \in {"loop", "open", "close", "shut"} :
          /\ Local(w, to, branch[w], kept[w], traversal[w], segments[w])
          /\ to = "loop" => pc[w] = "queued"
          /\ to = "open" => pc[w] = "loop" /\ branch[w] # 0
          /\ to = "close" => pc[w] = "loop" /\ branch[w] = 0 /\ queue = <<>>
          /\ to = "shut" => pc[w] = "inner"

\* It takes a branch of the queue; the branch's room follows; it ends the branch.
Pop(w) ==
    /\ pc[w] = "loop" /\ branch[w] = 0 /\ queue # <<>> /\ queue' = SubSeq(queue, 1, Len(queue) - 1)
    /\ Local(w, "transfer", queue[Len(queue)], kept[w], traversal[w], segments[w])
    /\ UNCHANGED budget

Carry(w) ==
    /\ pc[w] = "transfer" /\ queue' = queue /\ transfer_retained_to(w)
    /\ Local(w, "open", branch[w], kept[w], 1, segments[w])

Shut(w) ==
    /\ pc[w] = "shut" /\ queue' = queue /\ ensure(w, kept[w])
    /\ Local(w, "loop", 0, kept[w], 0, segments[w] \cup {branch[w]})

Quiet == UNCHANGED <<control, received, merged, outcome>>

LEMMA Unchanged ==
    ASSUME TypeOK, NEW w \in Threads
    PROVE  /\ branch = [branch EXCEPT ![w] = branch[w]] /\ kept = [kept EXCEPT ![w] = kept[w]]
           /\ traversal = [traversal EXCEPT ![w] = traversal[w]]
           /\ segments = [segments EXCEPT ![w] = segments[w]]
BY Zenon DEF TypeOK

LEMMA OpenIs ==
    ASSUME TypeOK, WorkInv, NEW w \in Threads, open(w)
    PROVE  Quiet /\ (GiveUp(w) \/ Reserve(w))
<1>1. Digests(w) \in Nat
  <2>1. branch[w] \in Branches
    BY Zenon DEF open, WorkInv, TypeOK, HasBranch
  <2> QED BY <2>1, SearchIs, Zenon DEF Digests
<1> DEFINE n == kept[w] + Digests(w)
<1>2. n \in Nat /\ n + traversal[w] = kept[w] + traversal[w] + Digests(w) /\ traversal[w] \in Nat
  BY <1>1 DEF TypeOK
<1>3. Quiet /\ pc[w] = "open" /\ queue' = queue
  BY Zenon DEF open, Quiet
<1>4. CASE Fits(w, kept[w] + traversal[w] + Digests(w))
  <2>1. /\ ensure(w, kept[w] + traversal[w] + Digests(w)) /\ Goto(w, "inner") /\ result' = result
        /\ kept' = [kept EXCEPT ![w] = n] /\ branch' = branch /\ traversal' = traversal /\ segments' = segments
    BY <1>4, Zenon DEF open, Checkpoint
  <2>2. Local(w, "inner", branch[w], n, traversal[w], segments[w])
    BY <2>1, Unchanged, Zenon DEF Local
  <2> HIDE DEF n
  <2> QED BY <1>2, <1>3, <1>4, <2>1, <2>2, Zenon DEF Reserve
<1>5. CASE ~Fits(w, kept[w] + traversal[w] + Digests(w))
  BY <1>3, <1>5, Zenon DEF open, Checkpoint, GiveUp, Errors
<1> QED BY <1>4, <1>5, Zenon

LEMMA NextCandidateIs ==
    ASSUME TypeOK, NEW w \in Threads, next_candidate(w)
    PROVE  Quiet /\ (GiveUp(w) \/ Reserve(w) \/ Move(w))
<1>1. Quiet /\ pc[w] = "inner" /\ queue' = queue /\ kept[w] \in Nat
  BY Zenon DEF next_candidate, Quiet, TypeOK
<1>2. CASE Stopped
  BY <1>1, <1>2, Zenon DEF next_candidate, GiveUp, Errors
<1>3. CASE ~Stopped /\ seen[w] = Count[branch[w]]
  <2>1. Goto(w, "shut") /\ UNCHANGED <<local, result, budget>>
    BY <1>3, Zenon DEF next_candidate
  <2> QED BY <1>1, <2>1, Unchanged, Zenon DEF Move, Local, local
<1>4. CASE ~Stopped /\ seen[w] # Count[branch[w]]
  <2>1. PICK n \in {traversal[w], 2} :
               Checkpoint(w, kept[w] + n,
                   /\ traversal' = [traversal EXCEPT ![w] = n] /\ Goto(w, "process")
                   /\ UNCHANGED <<branch, seen, kept, segments, result>>)
    BY <1>4, Zenon DEF next_candidate
  <2>2. n \in Nat
    BY DEF TypeOK
  <2>3. CASE Fits(w, kept[w] + n)
    <3>1. ensure(w, kept[w] + n) /\ Local(w, "process", branch[w], kept[w], n, segments[w])
      BY <2>1, <2>3, Unchanged, Zenon DEF Checkpoint, Local
    <3> QED BY <1>1, <2>2, <2>3, <3>1, Zenon DEF Reserve
  <2>4. CASE ~Fits(w, kept[w] + n)
    BY <1>1, <2>1, <2>4, Zenon DEF Checkpoint, GiveUp, Errors
  <2> QED BY <2>3, <2>4, Zenon
<1> QED BY <1>2, <1>3, <1>4, Zenon

LEMMA ProcessIs ==
    ASSUME TypeOK, NEW w \in Threads, process(w)
    PROVE  Quiet /\ (GiveUp(w) \/ Reserve(w))
<1>1. Quiet /\ pc[w] = "process" /\ queue' = queue /\ kept[w] \in Nat /\ traversal[w] \in Nat
  BY Zenon DEF process, Quiet, TypeOK
<1>2. ASSUME NEW n \in 0..1, process_candidate(w, n) PROVE GiveUp(w) \/ Reserve(w)
  <2>1. CASE Fits(w, kept[w] + traversal[w] + n)
    <3>1. /\ ensure(w, kept[w] + traversal[w] + n)
          /\ Local(w, "inner", branch[w], kept[w] + n, traversal[w], segments[w])
      BY <1>2, <2>1, Unchanged, Zenon DEF process_candidate, Checkpoint, Local
    <3>2. kept[w] + n \in Nat /\ kept[w] + n + traversal[w] = kept[w] + traversal[w] + n
      BY <1>1
    <3> QED BY <1>1, <2>1, <3>1, <3>2, Zenon DEF Reserve
  <2>2. CASE ~Fits(w, kept[w] + traversal[w] + n)
    BY <1>1, <1>2, <2>2, Zenon DEF process_candidate, Checkpoint, GiveUp, Errors
  <2> QED BY <2>1, <2>2, Zenon
<1>3. CASE Give(w, "failed") /\ UNCHANGED budget
  BY <1>1, <1>3, Zenon DEF GiveUp, Errors
<1>4. CASE cancelled /\ Give(w, "cancelled") /\ UNCHANGED budget
  BY <1>1, <1>4, Zenon DEF GiveUp, Errors, Stopped
<1> QED BY <1>1, <1>2, <1>3, <1>4, Zenon DEF process

LEMMA TakeIs ==
    ASSUME TypeOK, NEW w \in Threads, take(w)
    PROVE  Quiet /\ (GiveUp(w) \/ Move(w) \/ Pop(w))
<1>1. Quiet /\ pc[w] = "loop" /\ UNCHANGED budget
  BY Zenon DEF take, Quiet
<1>2. CASE Stopped
  BY <1>1, <1>2, Zenon DEF take, GiveUp, Errors
<1>3. CASE ~Stopped
  <2>1. kept' = kept /\ traversal' = traversal /\ segments' = segments /\ result' = result
    BY <1>3, Zenon DEF take
  <2>2. CASE branch[w] # 0
    <3>1. Goto(w, "open") /\ queue' = queue /\ branch' = branch
      BY <1>3, <2>2, Zenon DEF take
    <3> QED BY <1>1, <2>1, <2>2, <3>1, Unchanged, Zenon DEF Move, Local
  <2>3. CASE branch[w] = 0 /\ queue = <<>>
    <3>1. Goto(w, "close") /\ queue' = queue /\ branch' = branch
      BY <1>3, <2>3, Zenon DEF take, Empty
    <3> QED BY <1>1, <2>1, <2>3, <3>1, Unchanged, Zenon DEF Move, Local
  <2>4. CASE branch[w] = 0 /\ queue # <<>>
    <3>1. /\ branch' = [branch EXCEPT ![w] = queue[Len(queue)]] /\ Goto(w, "transfer")
          /\ queue' = SubSeq(queue, 1, Len(queue) - 1)
      BY <1>3, <2>4, Zenon DEF take, Empty
    <3> QED BY <1>1, <2>1, <2>4, <3>1, Unchanged, Zenon DEF Pop, Local
  <2> QED BY <2>2, <2>3, <2>4, Zenon
<1> QED BY <1>2, <1>3, Zenon

\* Every step of a worker is one of these.
LEMMA WorkerIs ==
    ASSUME TypeOK, WorkInv, NEW w \in Threads, Worker(w)
    PROVE  \/ send(w)
           \/ Quiet /\ (GiveUp(w) \/ Reserve(w) \/ Move(w) \/ Pop(w) \/ Carry(w) \/ Shut(w) \/ close(w))
<1>1. CASE start(w)
  BY <1>1, Unchanged, Zenon DEF start, Quiet, Move, Local, local
<1>2. CASE transfer(w)
  BY <1>2, Unchanged, Zenon DEF transfer, Quiet, Carry, Local
<1>3. CASE shut(w)
  BY <1>3, Unchanged, Zenon DEF shut, Quiet, Shut, Local
<1>4. CASE close(w)
  BY <1>4, Zenon DEF close, Quiet
<1> QED BY <1>1, <1>2, <1>3, <1>4, TakeIs, OpenIs, NextCandidateIs, ProcessIs, Zenon DEF Worker

\* What its own worker has after a step, and the types of what it has.
OwnTypes ==
    /\ pc' \in [Threads -> Places]
    /\ branch' \in [Threads -> {0} \cup Branches] /\ segments' \in [Threads -> SUBSET Branches]
    /\ traversal' \in [Threads -> Nat] /\ kept' \in [Threads -> Nat]
    /\ result' \in [Threads -> {"none", "ok"} \cup Errors]

LEMMA LocalIs ==
    ASSUME TypeOK, NEW w \in Threads, NEW to \in Places,
           NEW b \in {0} \cup Branches, NEW n \in Nat, NEW t \in Nat, NEW S \in SUBSET Branches,
           Local(w, to, b, n, t, S)
    PROVE  /\ pc'[w] = to /\ branch'[w] = b /\ kept'[w] = n /\ traversal'[w] = t /\ segments'[w] = S
           /\ result' = result /\ OwnTypes
<1>1. pc'[w] = to /\ pc' \in [Threads -> Places]
  BY Zenon DEF TypeOK, Local, Goto
<1>2. segments'[w] = S /\ segments' \in [Threads -> SUBSET Branches] /\ result' = result
  BY Zenon DEF TypeOK, Local
<1> QED BY <1>1, <1>2, Zenon DEF TypeOK, Local, OwnTypes

LEMMA GiveIs ==
    ASSUME TypeOK, NEW w \in Threads, NEW how \in Errors, Give(w, how)
    PROVE  /\ pc'[w] = "ended" /\ result'[w] = how /\ branch'[w] = 0 /\ traversal'[w] = 0 /\ kept'[w] = 0
           /\ segments' = segments
           /\ pc' \in [Threads -> Places]
           /\ branch' \in [Threads -> {0} \cup Branches]
           /\ traversal' \in [Threads -> Nat] /\ kept' \in [Threads -> Nat]
           /\ result' \in [Threads -> {"none", "ok"} \cup Errors]
<1>1. /\ pc'[w] = "ended" /\ pc' \in [Threads -> Places]
      /\ result'[w] = how /\ result' \in [Threads -> {"none", "ok"} \cup Errors]
  BY Zenon DEF TypeOK, Give, Goto, Places, NoBranch
<1> QED BY <1>1, Zenon DEF TypeOK, Give

LEMMA OwnIs ==
    ASSUME TypeOK, WorkInv, NEW w \in Threads
    PROVE  /\ branch[w] \in {0} \cup Branches /\ kept[w] \in Nat /\ traversal[w] \in Nat
           /\ segments[w] \in SUBSET Branches /\ segments \in [Threads -> SUBSET Branches]
           /\ result \in [Threads -> {"none", "ok"} \cup Errors]
           /\ pc[w] \in {"transfer", "open", "inner", "process", "shut"} => branch[w] \in Branches /\ branch[w] # 0
           /\ branch[w] = 0 \/ pc[w] = "transfer" => traversal[w] = 0
           /\ \A to \in {"loop", "inner", "process", "open", "shut", "transfer", "close"} : to \in Places
<1>1. /\ branch[w] \in {0} \cup Branches /\ kept[w] \in Nat /\ traversal[w] \in Nat
      /\ segments[w] \in SUBSET Branches /\ segments \in [Threads -> SUBSET Branches]
      /\ result \in [Threads -> {"none", "ok"} \cup Errors]
  BY Zenon DEF TypeOK
<1> QED BY <1>1, Zenon DEF WorkInv, Places, HasBranch, NoBranch

LEMMA GiveUpIs ==
    ASSUME TypeOK, WorkInv, NEW w \in Threads, GiveUp(w)
    PROVE  /\ pc'[w] = "ended" /\ result'[w] \in Errors /\ branch'[w] = 0 /\ traversal'[w] = 0
           /\ kept'[w] = 0 /\ segments' = segments /\ (result'[w] = "cancelled" => Stopped) /\ OwnTypes
<1>1. PICK how \in Errors : Give(w, how) /\ (how = "cancelled" => Stopped)
  BY SMTT(20) DEF GiveUp
<1> QED BY <1>1, OwnIs, GiveIs, Zenon DEF OwnTypes

LEMMA ReserveIs ==
    ASSUME TypeOK, WorkInv, NEW w \in Threads, Reserve(w)
    PROVE  /\ pc'[w] \in {"inner", "process"} /\ branch'[w] = branch[w] /\ branch[w] # 0
           /\ kept'[w] \in Nat /\ traversal'[w] \in Nat
           /\ Fits(w, kept'[w] + traversal'[w]) /\ ensure(w, kept'[w] + traversal'[w])
           /\ segments' = segments /\ result' = result /\ OwnTypes
<1>1. PICK to \in {"inner", "process"}, n \in Nat, t \in Nat :
          Local(w, to, branch[w], n, t, segments[w]) /\ Fits(w, n + t) /\ ensure(w, n + t)
  BY Zenon DEF Reserve
<1>2. branch[w] # 0 /\ to \in Places /\ segments' = segments
  BY <1>1, OwnIs, Unchanged, Zenon DEF Reserve, Local
<1>3. /\ pc'[w] = to /\ branch'[w] = branch[w] /\ kept'[w] = n /\ traversal'[w] = t
      /\ result' = result /\ OwnTypes
  <2>1. /\ branch[w] \in {0} \cup Branches /\ kept[w] \in Nat /\ traversal[w] \in Nat /\ 1 \in Nat
        /\ segments[w] \in SUBSET Branches /\ "open" \in Places /\ "transfer" \in Places
    BY OwnIs, Zenon
  <2> QED BY <1>1, <1>2, <2>1, LocalIs, ZenonT(40)
<1> QED BY <1>1, <1>2, <1>3, Zenon

LEMMA MoveIs ==
    ASSUME TypeOK, WorkInv, NEW w \in Threads, Move(w)
    PROVE  /\ pc'[w] \in {"loop", "open", "close", "shut"} /\ branch'[w] = branch[w]
           /\ pc'[w] \in {"open", "shut"} => branch[w] # 0
           /\ pc'[w] = "close" => branch[w] = 0 /\ queue = <<>>
           /\ kept'[w] = kept[w] /\ traversal'[w] = traversal[w] /\ pc[w] \in {"queued", "loop", "inner"}
           /\ segments' = segments /\ result' = result /\ OwnTypes
<1>1. PICK to \in {"loop", "open", "close", "shut"} :
          /\ Local(w, to, branch[w], kept[w], traversal[w], segments[w])
          /\ to = "loop" => pc[w] = "queued"
          /\ to = "open" => pc[w] = "loop" /\ branch[w] # 0
          /\ to = "close" => pc[w] = "loop" /\ branch[w] = 0 /\ queue = <<>>
          /\ to = "shut" => pc[w] = "inner"
  BY Zenon DEF Move
<1>2. to \in Places /\ segments' = segments
  BY <1>1, OwnIs, Unchanged, Zenon DEF Local
<1>3. /\ pc'[w] = to /\ branch'[w] = branch[w] /\ kept'[w] = kept[w] /\ traversal'[w] = traversal[w]
      /\ result' = result /\ OwnTypes
  <2>1. pc'[w] = to /\ pc' \in [Threads -> Places]
    BY <1>1, <1>2, Zenon DEF Local, Goto, TypeOK
  <2>2. branch' = branch /\ kept' = kept /\ traversal' = traversal /\ result' = result
    BY <1>1, Unchanged, Zenon DEF Local
  <2> QED BY <1>2, <2>1, <2>2, Zenon DEF TypeOK, OwnTypes
<1>4. to = "shut" => branch[w] # 0
  BY <1>1, OwnIs, Zenon
<1> QED BY <1>1, <1>2, <1>3, <1>4, Zenon

LEMMA PopIs ==
    ASSUME TypeOK, WorkInv, NEW w \in Threads, Pop(w)
    PROVE  /\ pc'[w] = "transfer" /\ branch'[w] = queue[Len(queue)] /\ branch'[w] \in Branches /\ branch'[w] # 0
           /\ kept'[w] = kept[w] /\ traversal[w] = 0 /\ traversal'[w] = 0
           /\ Len(queue) \in Nat \ {0} /\ queue' \in Seq(Branches) /\ Len(queue') = Len(queue) - 1
           /\ \A n \in 1..Len(queue') : queue'[n] = queue[n]
           /\ segments' = segments /\ result' = result /\ OwnTypes
<1>1. queue \in Seq(Branches) /\ queue # <<>>
  BY Zenon DEF TypeOK, Pop
<1>2. Len(queue) \in Nat \ {0} /\ queue[Len(queue)] \in Branches
  BY <1>1
<1>3. /\ queue' \in Seq(Branches) /\ Len(queue') = Len(queue) - 1
      /\ \A n \in 1..Len(queue') : queue'[n] = queue[n]
  <2>1. queue' = SubSeq(queue, 1, Len(queue) - 1) /\ Len(queue) - 1 \in 0..Len(queue)
    BY <1>2 DEF Pop
  <2>2. queue' \in Seq(Branches)
    BY <1>1, <1>2, <2>1
  <2>3. Len(queue') = Len(queue) - 1
    <3> DEFINE k == Len(queue) - 1
    <3>1. k \in Nat /\ k = Len(queue) - 1 /\ k <= Len(queue)
      BY <1>2
    <3> HIDE DEF k
    <3>2. queue' = SubSeq(queue, 1, k)
      BY <2>1, <3>1, Zenon
    <3>3. Len(SubSeq(queue, 1, k)) = k
      BY <1>1, <3>1
    <3> QED BY <3>1, <3>2, <3>3, Zenon
  <2>4. \A n \in 1..Len(queue) - 1 : queue'[n] = queue[n]
    BY <1>1, <1>2, <2>1
  <2> QED BY <2>2, <2>3, <2>4, Zenon
<1>4. 0 \notin Branches
  BY DEF Branches
<1>5. Local(w, "transfer", queue[Len(queue)], kept[w], traversal[w], segments[w]) /\ segments' = segments
  BY Unchanged, Zenon DEF Pop, Local
<1>6. /\ pc'[w] = "transfer" /\ branch'[w] = queue[Len(queue)] /\ kept'[w] = kept[w]
      /\ traversal'[w] = traversal[w] /\ result' = result /\ OwnTypes
  <2>1. /\ branch[w] \in {0} \cup Branches /\ kept[w] \in Nat /\ traversal[w] \in Nat /\ 1 \in Nat
        /\ segments[w] \in SUBSET Branches /\ "open" \in Places /\ "transfer" \in Places
    BY OwnIs, Zenon
  <2>2. /\ pc'[w] = "transfer" /\ pc' \in [Threads -> Places] /\ result' = result
    BY <1>5, <2>1, Zenon DEF TypeOK, Local, Goto
  <2>3. segments' \in [Threads -> SUBSET Branches]
    BY <1>5, Zenon DEF TypeOK
  <2>4. /\ branch'[w] = queue[Len(queue)] /\ branch' \in [Threads -> {0} \cup Branches]
    BY <1>2, <1>5, <2>1, Zenon DEF TypeOK, Local
  <2>5. /\ kept'[w] = kept[w] /\ kept' \in [Threads -> Nat]
        /\ traversal'[w] = traversal[w] /\ traversal' \in [Threads -> Nat]
    BY <1>5, <2>1, Zenon DEF TypeOK, Local
  <2>6. result' \in [Threads -> {"none", "ok"} \cup Errors]
    BY <2>2, Zenon DEF TypeOK
  <2> QED BY <2>2, <2>3, <2>4, <2>5, <2>6, Zenon DEF OwnTypes
<1>7. traversal[w] = 0
  BY OwnIs, Zenon DEF Pop
<1> QED BY <1>2, <1>3, <1>4, <1>5, <1>6, <1>7, Zenon

LEMMA CarryIs ==
    ASSUME TypeOK, WorkInv, NEW w \in Threads, Carry(w)
    PROVE  /\ pc'[w] = "open" /\ branch'[w] = branch[w] /\ branch[w] # 0
           /\ kept'[w] = kept[w] /\ traversal[w] = 0 /\ traversal'[w] = 1
           /\ segments' = segments /\ result' = result /\ OwnTypes
<1>1. Local(w, "open", branch[w], kept[w], 1, segments[w]) /\ segments' = segments /\ pc[w] = "transfer"
  BY Unchanged, Zenon DEF Carry, Local
<1>2. /\ pc'[w] = "open" /\ branch'[w] = branch[w] /\ kept'[w] = kept[w]
      /\ traversal'[w] = 1 /\ result' = result /\ OwnTypes
  <2>1. pc'[w] = "open" /\ pc' \in [Threads -> Places]
    BY <1>1, OwnIs, Zenon DEF Local, Goto, TypeOK
  <2>2. /\ branch' = branch /\ kept' = kept /\ result' = result
        /\ traversal'[w] = 1 /\ traversal' \in [Threads -> Nat]
    BY <1>1, Unchanged, Zenon DEF Local, TypeOK
  <2> QED BY <1>1, <2>1, <2>2, Zenon DEF TypeOK, OwnTypes
<1> QED BY <1>1, <1>2, OwnIs, Zenon

LEMMA ShutIs ==
    ASSUME TypeOK, WorkInv, NEW w \in Threads, Shut(w)
    PROVE  /\ pc'[w] = "loop" /\ branch[w] \in Branches /\ branch[w] # 0 /\ branch'[w] = 0
           /\ kept'[w] = kept[w] /\ traversal'[w] = 0 /\ segments'[w] = segments[w] \cup {branch[w]}
           /\ result' = result /\ OwnTypes
<1>1. /\ Local(w, "loop", 0, kept[w], 0, segments[w] \cup {branch[w]})
      /\ pc[w] = "shut" /\ branch[w] \in Branches
  BY OwnIs, Zenon DEF Shut
<1>2. segments[w] \cup {branch[w]} \in SUBSET Branches
  BY <1>1, OwnIs, Zenon
<1>3. /\ pc'[w] = "loop" /\ branch'[w] = 0 /\ kept'[w] = kept[w] /\ traversal'[w] = 0
      /\ segments'[w] = segments[w] \cup {branch[w]} /\ result' = result /\ OwnTypes
  <2>1. pc'[w] = "loop" /\ pc' \in [Threads -> Places]
    BY <1>1, OwnIs, Zenon DEF Local, Goto, TypeOK
  <2>2. segments'[w] = segments[w] \cup {branch[w]} /\ segments' \in [Threads -> SUBSET Branches]
    BY <1>1, <1>2, Zenon DEF Local, TypeOK
  <2>3. /\ kept' = kept /\ result' = result
        /\ branch'[w] = 0 /\ branch' \in [Threads -> {0} \cup Branches]
        /\ traversal'[w] = 0 /\ traversal' \in [Threads -> Nat]
    BY <1>1, Unchanged, Zenon DEF Local, TypeOK
  <2> QED BY <1>1, <2>1, <2>2, <2>3, Zenon DEF TypeOK, OwnTypes
<1> QED BY <1>1, <1>3, OwnIs, Zenon

LEMMA CloseIs ==
    ASSUME TypeOK, NEW w \in Threads, close(w)
    PROVE  /\ pc[w] = "close" /\ pc'[w] = "ended" /\ result'[w] = "ok" /\ branch' = branch /\ kept' = kept
           /\ traversal' = traversal /\ segments' = segments /\ queue' = queue /\ ensure(w, kept[w]) /\ OwnTypes
<1>1. /\ pc' \in [Threads -> Places]
      /\ result' \in [Threads -> {"none", "ok"} \cup Errors] /\ pc'[w] = "ended" /\ result'[w] = "ok"
  BY Zenon DEF close, Goto, TypeOK, Places, NoBranch
<1> QED BY <1>1, Zenon DEF close, local, TypeOK, OwnTypes

LEMMA SendIs ==
    ASSUME TypeOK, NEW w \in Threads, send(w)
    PROVE  /\ pc[w] = "ended" /\ pc'[w] = "sent" /\ result' = result /\ branch' = branch /\ kept' = kept
           /\ traversal' = traversal /\ segments' = segments /\ queue' = queue /\ UNCHANGED budget
           /\ user' = user /\ merged' = merged /\ outcome' = outcome /\ OwnTypes
           /\ received' \in {<<w>> \o received, Append(received, w)}
           /\ abort' = (abort \/ result[w] # "ok")
           /\ cancelled' = (cancelled \/ (Kind = "family" /\ result[w] # "ok"))
<1>1. pc' \in [Threads -> Places] /\ pc'[w] = "sent"
  BY Zenon DEF send, Goto, TypeOK, Places, NoBranch
<1> QED BY <1>1, Zenon DEF send, local, TypeOK, OwnTypes, Caught

--------------------------------------------------------------------------------
(* The steps of a worker keep the invariant. *)

\* The budget after a step, and what its worker then has of it.
LEMMA BudgetSteps ==
    ASSUME IInv, NEW w \in Threads, Worker(w)
    PROVE  /\ owners' \in [Owners -> Nat] /\ private_total' \in Nat
           /\ private_total' = SumFunction(owners') /\ private_total' <= Cap
           /\ kept'[w] + traversal'[w] <= owners'[w]
           /\ owners'[Queued] = IF Carry(w) THEN owners[Queued] - 1 ELSE owners[Queued]
<1>1. /\ TypeOK /\ WorkInv /\ BudgetInv
      /\ owners \in [Owners -> Nat] /\ private_total \in Nat /\ owners[w] \in Nat /\ Cap \in Nat
      /\ private_total = SumFunction(owners) /\ private_total <= Cap
      /\ kept[w] + traversal[w] <= owners[w] /\ kept[w] \in Nat /\ traversal[w] \in Nat
  BY SearchIs, ThreadsAre, Zenon DEF IInv, TypeOK, BudgetInv
<1>2. ASSUME NEW n \in Nat, ensure(w, n), private_total - owners[w] + n <= Cap,
             kept'[w] + traversal'[w] <= n
      PROVE  /\ owners' \in [Owners -> Nat] /\ private_total' \in Nat
             /\ private_total' = SumFunction(owners') /\ private_total' <= Cap
             /\ kept'[w] + traversal'[w] <= owners'[w] /\ owners'[Queued] = owners[Queued]
  BY <1>1, <1>2, EnsureKeeps, Zenon
<1>3. ASSUME UNCHANGED budget, kept'[w] + traversal'[w] \in Nat, kept'[w] + traversal'[w] <= kept[w] + traversal[w]
      PROVE  /\ owners' \in [Owners -> Nat] /\ private_total' \in Nat
             /\ private_total' = SumFunction(owners') /\ private_total' <= Cap
             /\ kept'[w] + traversal'[w] <= owners'[w] /\ owners'[Queued] = owners[Queued]
  BY <1>1, <1>3, SMTT(20) DEF budget
<1>4. CASE GiveUp(w)
  <2>1. ~Carry(w) /\ UNCHANGED budget
    BY <1>4, Zenon DEF GiveUp, Carry
  <2> QED BY <1>1, <1>3, <1>4, <2>1, GiveUpIs
<1>5. CASE Reserve(w)
  <2>1. ~Carry(w)
    BY <1>5, Zenon DEF Reserve, Carry
  <2>2. PICK n \in Nat : n = kept'[w] + traversal'[w] /\ Fits(w, n) /\ ensure(w, n)
    BY <1>1, <1>5, ReserveIs
  <2> QED BY <1>1, <1>2, <2>1, <2>2, SMTT(20) DEF Fits
<1>6. CASE Move(w)
  <2>1. ~Carry(w) /\ UNCHANGED budget
    BY <1>1, <1>6, MoveIs, SMTT(20) DEF Move, Carry
  <2> QED BY <1>1, <1>3, <1>6, <2>1, MoveIs, SMTT(20)
<1>7. CASE Pop(w)
  <2>1. ~Carry(w) /\ UNCHANGED budget
    BY <1>7, Zenon DEF Pop, Carry
  <2> QED BY <1>1, <1>3, <1>7, <2>1, PopIs
<1>8. CASE Carry(w)
  <2>1. transfer_retained_to(w) /\ pc[w] = "transfer"
    BY <1>8, SMTT(20) DEF Carry
  <2> QED BY <1>1, <1>8, <2>1, CarryIs, TransferKeeps
<1>9. CASE Shut(w)
  <2>1. ~Carry(w) /\ ensure(w, kept[w])
    BY <1>9, Zenon DEF Shut, Carry
  <2> QED BY <1>1, <1>2, <1>9, <2>1, ShutIs
<1>10. CASE close(w)
  <2>1. ~Carry(w) /\ ensure(w, kept[w]) /\ kept' = kept /\ traversal' = traversal
    BY <1>1, <1>10, CloseIs, SMTT(20) DEF Carry
  <2>2. traversal[w] = 0
    BY <1>10, <1>1, OwnIs, SMTT(20) DEF close, WorkInv, NoBranch
  <2> QED BY <1>1, <1>2, <2>1, <2>2, SMTT(20)
<1>11. CASE send(w)
  <2>1. ~Carry(w) /\ UNCHANGED budget /\ kept' = kept /\ traversal' = traversal
    BY <1>1, <1>11, SendIs, Zenon DEF Carry
  <2> QED BY <1>1, <1>3, <2>1
<1> QED BY <1>1, <1>4, <1>5, <1>6, <1>7, <1>8, <1>9, <1>10, <1>11, WorkerIs, Zenon

LEMMA WorkerTypes ==
    ASSUME IInv, NEW w \in Threads, Worker(w)
    PROVE  TypeOK'
<1>1. TypeOK /\ WorkInv /\ Next
  BY Zenon DEF IInv, Next
<1>2. OwnTypes
  BY <1>1, WorkerIs, GiveUpIs, ReserveIs, MoveIs, PopIs, CarryIs, ShutIs, CloseIs, SendIs, Zenon
<1>3. queue' \in Seq(Branches)
  <2>1. CASE Pop(w)
    BY <1>1, <2>1, PopIs, Zenon
  <2>2. CASE ~Pop(w)
    <3>1. queue' = queue
      BY <1>1, <2>2, WorkerIs, CloseIs, SendIs, Zenon DEF GiveUp, Reserve, Move, Carry, Shut
    <3> QED BY <1>1, <3>1, Zenon DEF TypeOK
  <2> QED BY <2>1, <2>2, SMTT(20)
<1>4. CASE send(w)
  <2>0. <<w>> \o received \in Seq(Threads) /\ Append(received, w) \in Seq(Threads)
    <3>1. received \in Seq(Threads)
      BY <1>1, Zenon DEF TypeOK
    <3> QED BY <3>1
  <2>1. received' \in Seq(Threads) /\ merged' = merged /\ outcome' = outcome /\ user' = user
    BY <1>1, <1>4, <2>0, SendIs, Zenon
  <2>2. abort' \in BOOLEAN
    BY <1>1, <1>4, SendIs, Zenon
  <2>3. cancelled' \in BOOLEAN
    BY <1>1, <1>4, SendIs, Zenon
  <2> QED BY <1>1, <1>2, <1>3, <2>1, <2>2, <2>3, BudgetSteps, SearchKept, Zenon DEF TypeOK, OwnTypes
<1>5. CASE Quiet
  BY <1>1, <1>2, <1>3, <1>5, BudgetSteps, SearchKept, Zenon DEF TypeOK, OwnTypes, Quiet, control
<1> QED BY <1>1, <1>4, <1>5, WorkerIs, Zenon

LEMMA WorkerBudget ==
    ASSUME IInv, NEW w \in Threads, Worker(w)
    PROVE  BudgetInv'
<1>1. TypeOK /\ WorkInv /\ Next
  BY Zenon DEF IInv, Next
<1>2. Cap' = Cap
  BY <1>1, SearchKept, Zenon
<1>3. \A v \in Threads : kept'[v] + traversal'[v] <= owners'[v]
  <2> SUFFICES ASSUME NEW v \in Threads, v # w PROVE kept'[v] + traversal'[v] <= owners'[v]
    BY BudgetSteps, Zenon
  <2> QED BY <1>1, OthersKeep, Zenon DEF IInv, BudgetInv
<1>4. IsFiniteSet(Moving) /\ Cardinality(Moving) \in Nat /\ Len(queue) \in Nat
  BY <1>1, ThreadsAre, FS_Subset, FS_CardinalityType DEF Moving, TypeOK
<1>5. owners[Queued] = Len(queue) + Cardinality(Moving)
  BY Zenon DEF IInv, BudgetInv
<1>6. \A v \in Threads : v # w => pc'[v] = pc[v]
  BY <1>1, OthersKeep, Zenon
<1>7. owners'[Queued] = Len(queue') + Cardinality(Moving')
  <2>1. CASE Pop(w)
    <3>1. Moving' = Moving \cup {w} /\ w \notin Moving
      BY <1>1, <1>6, <2>1, PopIs, Zenon DEF Moving, Pop
    <3>2. Cardinality(Moving') = Cardinality(Moving) + 1
      BY <1>4, <3>1, FS_AddElement, SMTT(20)
    <3>3. Len(queue') = Len(queue) - 1 /\ ~Carry(w)
      BY <1>1, <2>1, PopIs, SMTT(20) DEF Pop, Carry
    <3> QED BY <1>4, <1>5, <3>2, <3>3, BudgetSteps
  <2>2. CASE Carry(w)
    <3>1. Moving' = Moving \ {w} /\ w \in Moving
      BY <1>1, <1>6, <2>2, CarryIs, ZenonT(40) DEF Moving, Carry
    <3>2. Cardinality(Moving') = Cardinality(Moving) - 1
      BY <1>4, <3>1, FS_RemoveElement, Zenon
    <3>3. queue' = queue
      BY <2>2, SMTT(20) DEF Carry
    <3> QED BY <1>4, <1>5, <2>2, <3>2, <3>3, BudgetSteps, SMTT(20)
  <2>3. CASE ~Pop(w) /\ ~Carry(w)
    <3>1. queue' = queue
      BY <1>1, <2>3, WorkerIs, CloseIs, SendIs, Zenon DEF GiveUp, Reserve, Move, Shut
    <3>2. pc[w] # "transfer" /\ pc'[w] # "transfer"
      BY <1>1, <2>3, WorkerIs, GiveUpIs, ReserveIs, MoveIs, ShutIs, CloseIs, SendIs, Zenon DEF GiveUp, Reserve, Move, Shut
    <3>3. Moving' = Moving
      BY <1>6, <3>2, Zenon DEF Moving
    <3> QED BY <1>5, <2>3, <3>1, <3>3, BudgetSteps, Zenon
  <2> QED BY <2>1, <2>2, <2>3, SMTT(20)
<1> QED BY <1>2, <1>3, <1>7, BudgetSteps, Zenon DEF BudgetInv

LEMMA QueueSteps ==
    ASSUME TypeOK, WorkInv, NEW w \in Threads, Worker(w), ~Pop(w)
    PROVE  queue' = queue
BY WorkerIs, CloseIs, SendIs, Zenon DEF GiveUp, Reserve, Move, Carry, Shut

LEMMA WorkerWork ==
    ASSUME IInv, NEW w \in Threads, Worker(w)
    PROVE  WorkInv'
<1>1. TypeOK /\ WorkInv
  BY Zenon DEF IInv
<1>2. queue = <<>> => queue' = <<>>
  BY <1>1, QueueSteps, Zenon DEF Pop
<1> DEFINE Own(v) ==
        /\ pc'[v] \in HasBranch => branch'[v] # 0
        /\ pc'[v] \in NoBranch => branch'[v] = 0
        /\ branch'[v] = 0 \/ pc'[v] = "transfer" => traversal'[v] = 0
        /\ result'[v] # "none" <=> pc'[v] \in {"ended", "sent"}
        /\ result'[v] = "ok" \/ pc'[v] = "close" => queue' = <<>>
<1>3. ASSUME NEW v \in Threads, v # w PROVE Own(v)
  <2>1. pc'[v] = pc[v] /\ branch'[v] = branch[v] /\ traversal'[v] = traversal[v] /\ result'[v] = result[v]
    BY <1>1, <1>3, OthersKeep, Zenon
  <2> QED BY <1>1, <1>2, <2>1, Zenon DEF WorkInv
<1>4. Own(w)
  <2> USE DEF HasBranch, NoBranch
  <2>1. /\ pc[w] \in NoBranch => branch[w] = 0
        /\ branch[w] = 0 \/ pc[w] = "transfer" => traversal[w] = 0
        /\ result[w] # "none" <=> pc[w] \in {"ended", "sent"}
        /\ result[w] = "ok" \/ pc[w] = "close" => queue = <<>>
    BY <1>1, SMTT(20) DEF WorkInv
  <2>2. CASE GiveUp(w)
    BY <1>1, <2>2, GiveUpIs, SMTT(20) DEF Errors
  <2>3. CASE Reserve(w)
    BY <1>1, <2>1, <2>3, ReserveIs, SMTT(20) DEF Reserve
  <2>4. CASE Move(w)
    BY <1>1, <1>2, <2>1, <2>4, MoveIs, SMTT(20)
  <2>5. CASE Pop(w)
    BY <1>1, <2>1, <2>5, PopIs, SMTT(20) DEF Pop
  <2>6. CASE Carry(w)
    BY <1>1, <2>1, <2>6, CarryIs, SMTT(20) DEF Carry
  <2>7. CASE Shut(w)
    BY <1>1, <2>1, <2>7, ShutIs, Zenon DEF Shut
  <2>8. CASE close(w)
    BY <1>1, <1>2, <2>1, <2>8, CloseIs, Zenon
  <2>9. CASE send(w)
    BY <1>1, <1>2, <2>1, <2>9, SendIs, Zenon
  <2> QED BY <1>1, <2>2, <2>3, <2>4, <2>5, <2>6, <2>7, <2>8, <2>9, WorkerIs, Zenon
<1> QED BY <1>3, <1>4, Zenon DEF WorkInv

\* A worker that has ended does not end otherwise.
LEMMA ResultKept ==
    ASSUME IInv, NEW w \in Threads, Worker(w), NEW v \in Threads, result[v] # "none"
    PROVE  result'[v] = result[v]
<1>1. TypeOK /\ WorkInv
  BY Zenon DEF IInv
<1>2. CASE v # w
  BY <1>1, <1>2, OthersKeep, Zenon
<1>3. CASE v = w
  <2>1. pc[w] \in {"ended", "sent"}
    BY <1>1, <1>3, Zenon DEF WorkInv
  <2>2. ~GiveUp(w) /\ ~close(w)
    BY <2>1, Zenon DEF GiveUp, close
  <2> QED BY <1>1, <1>3, <2>2, WorkerIs, ReserveIs, MoveIs, PopIs, CarryIs, ShutIs, SendIs, Zenon
<1> QED BY <1>2, <1>3, Zenon

LEMMA WorkerBlame ==
    ASSUME IInv, NEW w \in Threads, Worker(w)
    PROVE  BlameInv'
<1>1. TypeOK /\ WorkInv /\ BlameInv
  BY SMTT(20) DEF IInv
<1>2. user' = user
  BY <1>1, WorkerIs, SendIs, Zenon DEF Quiet, control
<1>3. Blamed => Blamed'
  BY <1>2, ResultKept, Zenon DEF Blamed
<1>4. \A v \in Threads : result'[v] = "cancelled" => Blamed
  <2>1. CASE GiveUp(w)
    BY <1>1, <2>1, GiveUpIs, OthersKeep, Zenon DEF BlameInv, Stopped
  <2>2. CASE ~GiveUp(w)
    <3>1. result'[w] # "cancelled" \/ result'[w] = result[w]
      BY <1>1, <2>2, WorkerIs, ReserveIs, MoveIs, PopIs, CarryIs, ShutIs, CloseIs, SendIs, Zenon
    <3> QED BY <1>1, <3>1, OthersKeep, Zenon DEF BlameInv
  <2> QED BY <2>1, <2>2, Zenon
<1>5. cancelled' \/ abort' => Blamed
  <2>1. CASE Quiet
    BY <1>1, <2>1, Zenon DEF BlameInv, Quiet, control
  <2>2. CASE send(w)
    <3>1. result[w] # "ok" => Blamed
      <4>1. result[w] \in {"ok"} \cup Errors
        BY <1>1, <2>2, Zenon DEF TypeOK, WorkInv, send
      <4> QED BY <1>1, <4>1, Zenon DEF BlameInv, Blamed, Errors
    <3>2. cancelled' \/ abort' => cancelled \/ abort \/ result[w] # "ok"
      BY <1>1, <2>2, SendIs, Zenon
    <3> QED BY <1>1, <3>1, <3>2, Zenon DEF BlameInv
  <2> QED BY <1>1, <2>1, <2>2, WorkerIs, Zenon
<1> QED BY <1>3, <1>4, <1>5, Zenon DEF BlameInv

LEMMA WorkerPlace ==
    ASSUME IInv, NEW w \in Threads, Worker(w)
    PROVE  PlaceInv'
<1>1. TypeOK /\ WorkInv /\ PlaceInv /\ Branches' = Branches
  BY SearchKept, Zenon DEF IInv, Next
<1>2. /\ queue \in Seq(Branches) /\ \A v \in Threads : segments[v] \subseteq Branches
      /\ \A n \in DOMAIN queue : queue[n] \in Branches
      /\ 0 \notin Branches /\ DOMAIN queue = 1..Len(queue)
  BY <1>1 DEF TypeOK, Branches
<1>3. \A v \in Threads : result[v] \in Errors => result'[v] \in Errors
  BY ResultKept, Zenon DEF Errors
<1>4. \A v \in Threads : v # w => branch'[v] = branch[v] /\ segments'[v] = segments[v]
  BY <1>1, OthersKeep, SMTT(20)
<1>5. CASE GiveUp(w)
  <2>1. /\ branch'[w] = 0 /\ result'[w] \in Errors /\ segments' = segments /\ queue' = queue
    BY <1>1, <1>5, GiveUpIs, Zenon DEF GiveUp
  <2>2. \A v \in Threads : branch'[v] = 0 \/ (v # w /\ branch'[v] = branch[v])
    BY <1>4, <2>1, SMTT(20)
  <2> QED BY <1>1, <1>2, <2>1, <2>2, SMTT(20) DEF PlaceInv
<1>6. CASE Reserve(w) \/ Move(w) \/ Carry(w) \/ close(w) \/ send(w)
  <2>1. branch'[w] = branch[w] /\ segments' = segments /\ queue' = queue
    BY <1>1, <1>6, ReserveIs, MoveIs, CarryIs, CloseIs, SendIs, Zenon DEF Reserve, Move, Carry
  <2>2. \A v \in Threads : branch'[v] = branch[v]
    BY <1>4, <2>1, Zenon
  <2> QED BY <1>1, <1>3, <2>1, <2>2 DEF PlaceInv
<1>7. CASE Pop(w)
  <2> DEFINE l == Len(queue)
  <2>1. /\ branch[w] = 0 /\ branch'[w] = queue[l] /\ branch'[w] # 0 /\ segments' = segments
        /\ l \in Nat \ {0} /\ queue' \in Seq(Branches) /\ Len(queue') = l - 1
        /\ \A n \in 1..Len(queue') : queue'[n] = queue[n]
    BY <1>1, <1>7, PopIs, Zenon DEF Pop
  <2>2. DOMAIN queue = 1..l /\ DOMAIN queue' = 1..(l - 1)
    BY <1>2, <2>1
  <2> HIDE DEF l
  <2>3. \A n \in DOMAIN queue' : n \in DOMAIN queue /\ n # l /\ queue'[n] = queue[n]
    BY <2>1, <2>2
  <2>4. l \in DOMAIN queue /\ \A n \in DOMAIN queue : n # l => n \in DOMAIN queue'
    BY <2>1, <2>2, SMTT(20)
  <2>5. /\ \A m, n \in DOMAIN queue' : queue'[m] = queue'[n] => m = n
        /\ \A n \in DOMAIN queue', v \in Threads : queue'[n] # branch'[v] /\ queue'[n] \notin segments'[v]
    BY <1>1, <1>4, <2>1, <2>3, <2>4, SMTT(20) DEF PlaceInv
  <2>6. /\ \A u, v \in Threads : branch'[u] # 0 /\ branch'[u] = branch'[v] => u = v
        /\ \A u, v \in Threads : branch'[u] \notin segments'[v]
        /\ \A u, v \in Threads : u # v => segments'[u] \cap segments'[v] = {}
    BY <1>1, <1>4, <2>1, <2>4, SMTT(20) DEF PlaceInv
  <2>7. ASSUME \A v \in Threads : result'[v] \notin Errors, NEW b \in Branches
        PROVE  (\E n \in DOMAIN queue' : queue'[n] = b) \/ \E v \in Threads : branch'[v] = b \/ b \in segments'[v]
    <3>1. (\E n \in DOMAIN queue : queue[n] = b) \/ \E v \in Threads : branch[v] = b \/ b \in segments[v]
      BY <1>1, <1>3, <2>7, SMTT(20) DEF PlaceInv
    <3>2. CASE \E n \in DOMAIN queue : queue[n] = b
      BY <2>1, <2>3, <2>4, <3>2, Zenon
    <3>3. CASE \E v \in Threads : branch[v] = b \/ b \in segments[v]
      BY <1>2, <1>4, <2>1, <2>7, <3>3, Zenon
    <3> QED BY <3>1, <3>2, <3>3, Zenon
  <2> QED BY <1>1, <2>5, <2>6, <2>7, Zenon DEF PlaceInv
<1>8. CASE Shut(w)
  <2>1. /\ branch[w] # 0 /\ branch'[w] = 0 /\ segments'[w] = segments[w] \cup {branch[w]} /\ queue' = queue
    BY <1>1, <1>8, ShutIs, Zenon DEF Shut
  <2>2. \A n \in DOMAIN queue, v \in Threads : queue[n] # branch'[v] /\ queue[n] \notin segments'[v]
    BY <1>1, <1>2, <1>4, <2>1, SMTT(20) DEF PlaceInv
  <2>3. /\ \A u, v \in Threads : branch'[u] # 0 /\ branch'[u] = branch'[v] => u = v
    BY <1>1, <1>4, <2>1 DEF PlaceInv
  <2>4. ASSUME NEW u \in Threads, NEW v \in Threads PROVE branch'[u] \notin segments'[v]
    <3>1. 0 \notin segments[v] /\ branch[u] \notin segments[v]
      BY <1>1, <1>2, SMTT(20) DEF PlaceInv
    <3>2. u # w => branch[u] # branch[w]
      BY <1>1, <2>1, SMTT(20) DEF PlaceInv
    <3> QED BY <1>4, <2>1, <3>1, <3>2, SMTT(20)
  <2>5. ASSUME NEW u \in Threads, NEW v \in Threads, u # v PROVE segments'[u] \cap segments'[v] = {}
    <3>1. segments[u] \cap segments[v] = {} /\ branch[w] \notin segments[u] /\ branch[w] \notin segments[v]
      BY <1>1, <2>5, Zenon DEF PlaceInv
    <3> QED BY <1>4, <2>1, <2>5, <3>1, SMTT(20)
  <2>6. ASSUME \A v \in Threads : result'[v] \notin Errors, NEW b \in Branches
        PROVE  (\E n \in DOMAIN queue' : queue'[n] = b) \/ \E v \in Threads : branch'[v] = b \/ b \in segments'[v]
    <3>1. (\E n \in DOMAIN queue : queue[n] = b) \/ \E v \in Threads : branch[v] = b \/ b \in segments[v]
      BY <1>1, <1>3, <2>6, SMTT(20) DEF PlaceInv
    <3> QED BY <1>4, <2>1, <3>1, SMTT(20)
  <2>7. \A m, n \in DOMAIN queue' : queue'[m] = queue'[n] => m = n
    BY <1>1, <2>1, SMTT(20) DEF PlaceInv
  <2> QED BY <1>1, <2>1, <2>2, <2>3, <2>4, <2>5, <2>6, <2>7 DEF PlaceInv
<1> QED BY <1>1, <1>5, <1>6, <1>7, <1>8, WorkerIs, Zenon

LEMMA WorkerCollect ==
    ASSUME IInv, NEW w \in Threads, Worker(w)
    PROVE  CollectInv'
<1>1. TypeOK /\ WorkInv /\ CollectInv
  BY SMTT(20) DEF IInv
<1>2. pc[w] # "sent"
  BY Zenon DEF Worker, start, take, transfer, open, next_candidate, process, shut, close, send
<1>3. outcome = "none" /\ outcome' = outcome /\ merged' = merged
  BY <1>1, <1>2, WorkerIs, SendIs, Zenon DEF CollectInv, Sending, Quiet
<1>4. \A v \in Threads : v # w => pc'[v] = pc[v]
  BY <1>1, OthersKeep, Zenon
<1>5. Range(received') = Sending' /\ Len(received') = Cardinality(Sending')
  <2>1. CASE ~send(w)
    <3>1. received' = received /\ pc'[w] # "sent"
      BY <1>1, <2>1, WorkerIs, GiveUpIs, ReserveIs, MoveIs, PopIs, CarryIs, ShutIs, CloseIs, Zenon DEF Quiet
    <3>2. Sending' = Sending
      BY <1>2, <1>4, <3>1, Zenon DEF Sending
    <3> QED BY <1>1, <1>3, <3>1, <3>2, Zenon DEF CollectInv
  <2>2. CASE send(w)
    <3>1. pc'[w] = "sent" /\ received' \in {<<w>> \o received, Append(received, w)} /\ received \in Seq(Threads)
      BY <1>1, <2>2, SendIs, Zenon DEF TypeOK
    <3>2. Sending' = Sending \cup {w} /\ w \notin Sending
      BY <1>2, <1>4, <3>1 DEF Sending
    <3>3. IsFiniteSet(Sending)
      BY ThreadsAre, FS_Subset, Zenon DEF Sending
    <3>4. Cardinality(Sending') = Cardinality(Sending) + 1
      BY <3>2, <3>3, FS_AddElement, Zenon
    <3>5. Range(received) = Sending /\ Len(received) = Cardinality(Sending)
      BY <1>1, <1>3, SMTT(20) DEF CollectInv
    <3>6. /\ Len(<<w>> \o received) = Len(received) + 1
          /\ Len(Append(received, w)) = Len(received) + 1
      BY <3>1
    <3>7. Range(<<w>> \o received) = Range(received) \cup {w}
      <4> DEFINE r == <<w>> \o received
      <4>1. /\ DOMAIN r = 1..(Len(received) + 1) /\ r[1] = w /\ DOMAIN received = 1..Len(received)
            /\ \A n \in 1..Len(received) : r[n + 1] = received[n]
        BY <3>1
      <4>2. \A n \in DOMAIN r : n = 1 \/ (n - 1 \in DOMAIN received /\ r[n] = received[n - 1])
        BY <3>1
      <4>3. 1 \in DOMAIN r /\ \A n \in DOMAIN received : n + 1 \in DOMAIN r /\ r[n + 1] = received[n]
        BY <3>1, <4>1
      <4> HIDE DEF r
      <4>4. ASSUME NEW x \in Range(r) PROVE x \in Range(received) \cup {w}
        <5>1. PICK n \in DOMAIN r : x = r[n]
          BY Zenon DEF Range
        <5> QED BY <4>1, <4>2, <5>1, Zenon DEF Range
      <4>5. ASSUME NEW x \in Range(received) \cup {w} PROVE x \in Range(r)
        BY <4>1, <4>3, Zenon DEF Range
      <4> QED BY <4>4, <4>5, Zenon DEF r
    <3>8. Range(Append(received, w)) = Range(received) \cup {w}
      <4> DEFINE r == Append(received, w)
                 k == Len(received)
      <4>1. /\ DOMAIN r = 1..(k + 1) /\ r[k + 1] = w /\ DOMAIN received = 1..k /\ k \in Nat
            /\ \A n \in 1..k : r[n] = received[n]
        BY <3>1
      <4> HIDE DEF r, k
      <4>2. \A n \in DOMAIN r : n = k + 1 \/ (n \in DOMAIN received /\ r[n] = received[n])
        BY <4>1
      <4>3. k + 1 \in DOMAIN r /\ \A n \in DOMAIN received : n \in DOMAIN r
        BY <4>1
      <4> QED BY <4>1, <4>2, <4>3, Zenon DEF Range, r
    <3> QED BY <3>1, <3>2, <3>4, <3>5, <3>6, <3>7, <3>8, Zenon
  <2> QED BY <2>1, <2>2, SMTT(20)
<1> QED BY <1>1, <1>3, <1>5, Zenon DEF CollectInv

--------------------------------------------------------------------------------
(* The caller. *)

\* What the workers keep is within what they have reserved.
LEMMA KeptBelow ==
    ASSUME TypeOK, BudgetInv
    PROVE  SumFunction(kept) \in Nat /\ SumFunction(kept) <= private_total
<1>1. /\ DOMAIN kept = Threads /\ \A w \in Threads : kept[w] \in Nat
      /\ DOMAIN owners = Owners /\ \A o \in Owners : owners[o] \in Nat
  BY Zenon DEF TypeOK
<1>2. Owners \ {Queued} = Threads /\ Queued \in Owners
  BY ThreadsAre, Zenon DEF Owners
<1>3. private_total = owners[Queued] + SumFunctionOnSet(owners, Threads)
  <2>1. SumFunctionOnSet(owners, Owners) = owners[Queued] + SumFunctionOnSet(owners, Owners \ {Queued})
    BY <1>1, <1>2, SumRemove, ThreadsAre
  <2> QED BY <1>1, <1>2, <2>1, SMTT(20) DEF BudgetInv, SumFunction
<1>4. \A w \in Threads : kept[w] \in Int /\ owners[w] \in Int /\ kept[w] <= owners[w]
  BY <1>1, ThreadsAre, SMTT(20) DEF TypeOK, BudgetInv
<1>5. SumFunctionOnSet(kept, Threads) <= SumFunctionOnSet(owners, Threads)
  BY <1>4, SumMonotone, ThreadsAre, Zenon
<1>6. SumFunctionOnSet(kept, Threads) \in Nat /\ SumFunctionOnSet(owners, Threads) \in Nat
  BY <1>1, SumNat, ThreadsAre, Zenon
<1> QED BY <1>1, <1>2, <1>3, <1>5, <1>6 DEF SumFunction

\* What is left alone by the steps of the caller and of the user.
LEMMA OutsideKeeps ==
    ASSUME IInv, cancel \/ grow \/ Collect
    PROVE  /\ queue' = queue /\ pc' = pc /\ branch' = branch /\ segments' = segments
           /\ traversal' = traversal /\ result' = result /\ abort' = abort
           /\ ~cancel => cancelled' = cancelled /\ user' = user
           /\ ~merge => kept' = kept /\ owners' = owners /\ private_total' = private_total
                        /\ received' = received /\ merged' = merged
           /\ WorkInv' /\ PlaceInv'
<1>1. Next
  BY SMTT(20) DEF Next
<1>2. /\ queue' = queue /\ pc' = pc /\ branch' = branch /\ segments' = segments
      /\ traversal' = traversal /\ result' = result /\ abort' = abort
      /\ ~cancel => cancelled' = cancelled /\ user' = user
      /\ ~merge => kept' = kept /\ owners' = owners /\ private_total' = private_total
                   /\ received' = received /\ merged' = merged
  BY Zenon DEF cancel, grow, Collect, collect, merge, complete, local, budget, control
<1>3. WorkInv'
  BY <1>2, Zenon DEF IInv, WorkInv
<1>4. PlaceInv'
  BY <1>1, <1>2, SearchKept, Zenon DEF IInv, PlaceInv
<1> QED BY <1>2, <1>3, <1>4, Zenon

LEMMA FirstError ==
    ASSUME TypeOK, Range(received) = Threads
    PROVE  /\ first_error \in {"none"} \cup Errors
           /\ first_error = "none" => \A w \in Threads : result[w] \notin Errors
           /\ first_error = "cancelled" =>
                 /\ \A w \in Threads : result[w] \notin {"failed", "resource"}
                 /\ \E w \in Threads : result[w] = "cancelled"
<1> DEFINE errors == At({"failed", "resource"})
<1>1. \A w \in Threads : \E n \in DOMAIN received : received[n] = w
  BY Zenon DEF Range
<1>2. \A n \in DOMAIN received : received[n] \in Threads
  BY SMTT(20) DEF TypeOK
<1>0. Lost = {}
  BY ThreadsAre, Zenon DEF Lost
<1>3. CASE errors # {}
  <2>1. errors \in SUBSET Nat
    BY DEF At, TypeOK
  <2>2. Earliest(errors) \in errors
    <3>1. \E n \in errors : \A m \in errors : n <= m
      BY <1>3, <2>1, LeastNatural, Zenon
    <3> HIDE DEF errors
    <3> QED BY <3>1, Zenon DEF Earliest
  <2>3. first_error = result[received[Earliest(errors)]]
    BY <1>3, Zenon DEF first_error
  <2>4. result[received[Earliest(errors)]] \in {"failed", "resource"}
    BY <2>2, Zenon DEF At
  <2> QED BY <2>3, <2>4, Zenon DEF Errors
<1>4. CASE errors = {} /\ At({"cancelled"}) # {}
  <2>1. first_error = "cancelled"
    BY <1>0, <1>4, Zenon DEF first_error
  <2>2. \A w \in Threads : result[w] \notin {"failed", "resource"}
    BY <1>1, <1>4, Zenon DEF At
  <2>3. \E w \in Threads : result[w] = "cancelled"
    BY <1>2, <1>4, Zenon DEF At
  <2> QED BY <2>1, <2>2, <2>3, Zenon DEF Errors
<1>5. CASE errors = {} /\ At({"cancelled"}) = {}
  <2>1. first_error = "none"
    BY <1>0, <1>5, Zenon DEF first_error
  <2>2. \A w \in Threads : result[w] \notin Errors
    BY <1>1, <1>5, ZenonT(40) DEF At, Errors
  <2> QED BY <2>1, <2>2, Zenon
<1> QED BY <1>3, <1>4, <1>5, Zenon

\* When every worker has ended well, each branch has been gone through by one worker.
LEMMA AllDone ==
    ASSUME IInv, Sending = Threads, \A w \in Threads : result[w] = "ok"
    PROVE  /\ queue = <<>> /\ \A w \in Threads : branch[w] = 0 /\ traversal[w] = 0
           /\ \A b \in Branches : \E w \in Threads :
                 b \in segments[w] /\ \A v \in Threads \ {w} : b \notin segments[v]
<1>1. \A w \in Threads : pc[w] = "sent"
  BY SMTT(20) DEF Sending
<1>2. queue = <<>> /\ \A w \in Threads : branch[w] = 0 /\ traversal[w] = 0
  BY <1>1, ThreadsAre, SMTT(20) DEF IInv, WorkInv, NoBranch
<1>3. \A b \in Branches : \E w \in Threads : b \in segments[w]
  <2>1. 0 \notin Branches /\ \A w \in Threads : result[w] \notin Errors
    BY SMTT(20) DEF Branches, Errors
  <2>2. DOMAIN queue = {}
    BY <1>2
  <2> QED BY <1>2, <2>1, <2>2, Zenon DEF IInv, PlaceInv
<1>4. ASSUME NEW w \in Threads, NEW v \in Threads \ {w} PROVE segments[w] \cap segments[v] = {}
  BY Zenon DEF IInv, PlaceInv
<1> QED BY <1>2, <1>3, <1>4, Zenon

LEMMA ContractHolds ==
    ASSUME IInv, Sending = Threads, \A w \in Threads : result[w] = "ok"
    PROVE  Contract
<1>1. \A b \in Branches : \E w \in Threads :
          b \in segments[w] /\ \A v \in Threads \ {w} : b \notin segments[v]
  BY AllDone, SMTT(20)
<1>2. CASE Kind = "family"
  BY <1>1, <1>2, SMTT(20) DEF Contract, Branches
<1>3. CASE Kind # "family"
  <2>1. /\ IsFiniteSet(Branches) /\ \A b \in Branches : Count[b] \in Int
        /\ DOMAIN Count = Branches /\ IsFiniteSet(Threads)
    BY SearchIs, FS_Interval, ThreadsAre, SMTT(20) DEF IInv, Branches
  <2>2. /\ \A w \in Threads : segments[w] \subseteq Branches
        /\ \A w, v \in Threads : w # v => segments[w] \cap segments[v] = {}
    BY SMTT(20) DEF IInv, TypeOK, PlaceInv
  <2>3. \A w \in Threads : Processed[w] = SumFunctionOnSet(Count, segments[w])
    BY Zenon DEF Processed
  <2>4. \A b \in Branches : \E w \in Threads : b \in segments[w]
    BY <1>1, Zenon
  <2>5. SumFunctionOnSet(Processed, Threads) = SumFunctionOnSet(Count, Branches)
    BY <2>1, <2>2, <2>3, <2>4, SumCover
  <2>6. DOMAIN Processed = Threads
    BY SMTT(20) DEF Processed
  <2> QED BY <1>3, <2>1, <2>5, <2>6, Zenon DEF Contract, SumFunction
<1> QED BY <1>2, <1>3, Zenon

LEMMA CancelStep ==
    ASSUME IInv, cancel
    PROVE  IInv'
<1>1. Next /\ ~merge
  BY SMTT(20) DEF Next, cancel, merge
<1>2. /\ queue' = queue /\ pc' = pc /\ branch' = branch /\ segments' = segments
      /\ traversal' = traversal /\ result' = result /\ abort' = abort
      /\ kept' = kept /\ owners' = owners /\ private_total' = private_total
      /\ received' = received /\ merged' = merged /\ WorkInv' /\ PlaceInv'
  BY <1>1, OutsideKeeps, Zenon
<1>3. outcome' = outcome /\ outcome \in {"none", "merging"} /\ user' = TRUE /\ cancelled' = TRUE
  BY SMTT(20) DEF cancel
<1>4. TypeOK'
  <2>1. user' \in BOOLEAN /\ cancelled' \in BOOLEAN
    BY <1>3, Zenon
  <2> QED BY <1>1, <1>2, <1>3, <2>1, SearchKept, Zenon DEF IInv, TypeOK
<1>5. BudgetInv'
  BY <1>1, <1>2, SearchKept, Zenon DEF IInv, BudgetInv, Moving
<1>6. BlameInv'
  BY <1>3, SMTT(20) DEF BlameInv, Blamed
<1>7. CollectInv'
  BY <1>1, <1>2, <1>3, SearchKept, Zenon DEF IInv, CollectInv, Sending
<1> QED BY <1>2, <1>4, <1>5, <1>6, <1>7, Zenon DEF IInv

LEMMA GrowStep ==
    ASSUME IInv, grow
    PROVE  IInv'
<1>1. Next
  BY Zenon DEF Next
<1>2. /\ queue' = queue /\ pc' = pc /\ branch' = branch /\ segments' = segments
      /\ traversal' = traversal /\ result' = result /\ abort' = abort
      /\ kept' = kept /\ owners' = owners /\ private_total' = private_total
      /\ received' = received /\ merged' = merged /\ cancelled' = cancelled /\ user' = user
      /\ outcome' = outcome /\ WorkInv' /\ PlaceInv'
  BY OutsideKeeps, Zenon DEF grow, local, budget
<1>3. TypeOK' /\ BudgetInv' /\ BlameInv' /\ CollectInv'
  BY <1>1, <1>2, SearchKept, Zenon
     DEF IInv, TypeOK, BudgetInv, Moving, BlameInv, Blamed, CollectInv, Sending
<1> QED BY <1>2, <1>3, Zenon DEF IInv

\* A search ends as cancelled only if the user cancelled it and no worker failed.
LEMMA CancelledByUser ==
    ASSUME BlameInv, cancelled \/ abort \/ \E w \in Threads : result[w] = "cancelled",
           \A w \in Threads : result[w] \notin {"failed", "resource"}
    PROVE  user
BY Zenon DEF BlameInv, Blamed

LEMMA CollectStep ==
    ASSUME IInv, collect
    PROVE  IInv'
<1>1. /\ queue' = queue /\ pc' = pc /\ branch' = branch /\ segments' = segments
      /\ traversal' = traversal /\ result' = result /\ search' = search /\ abort' = abort
      /\ kept' = kept /\ owners' = owners /\ private_total' = private_total
      /\ received' = received /\ merged' = merged /\ cancelled' = cancelled /\ user' = user
  BY Zenon DEF collect, local, budget, control
<1>2. Next /\ WorkInv' /\ PlaceInv'
  BY OutsideKeeps, SMTT(20) DEF Next, Collect
<1>3. /\ TypeOK /\ BudgetInv /\ BlameInv /\ CollectInv /\ merged = 0
      /\ Range(received) = Sending /\ Len(received) = Cardinality(Sending)
  BY Zenon DEF IInv, CollectInv, collect
<1>4. Sending = Threads
  <2>1. CASE Len(received) = Width
    <3>1. Cardinality(Sending) = Cardinality(Threads) /\ Sending \subseteq Threads
      BY <1>3, <2>1, ThreadsAre, Zenon DEF Sending
    <3> QED BY <3>1, ThreadsAre, FS_Subset, Zenon
  <2>2. CASE Closed
    <3>1. \A w \in Threads : w = Caller \/ w \in Background
      BY ThreadsAre, SMTT(20) DEF Threads, Caller, Background
    <3>2. \A w \in Threads : pc[w] = "sent"
      BY <2>2, <3>1, Zenon DEF collect, Closed
    <3> QED BY <3>2, Zenon DEF Sending
  <2> QED BY <2>1, <2>2, Zenon DEF collect, Drained
<1>5. \A w \in Threads : result[w] \notin Errors => result[w] = "ok"
  BY <1>4, SMTT(20) DEF IInv, TypeOK, WorkInv, Sending
<1>6. /\ outcome' \in {"merging"} \cup Errors
      /\ outcome' = "merging" => \A w \in Threads : result[w] = "ok"
      /\ outcome' = "cancelled" => user /\ \A w \in Threads : result[w] \notin {"failed", "resource"}
  <2>0. CASE outcome' = "resource"
    BY <2>0, Zenon DEF Errors
  <2>1. CASE outcome' # "resource" /\ first_error # "none"
    <3>1. outcome' = first_error /\ outcome' \in Errors
      BY <1>3, <1>4, <2>1, FirstError, Zenon DEF collect
    <3>2. outcome' = "cancelled" =>
              /\ \A w \in Threads : result[w] \notin {"failed", "resource"}
              /\ \E w \in Threads : result[w] = "cancelled"
      BY <1>3, <1>4, <3>1, FirstError, Zenon
    <3> QED BY <1>3, <3>1, <3>2, CancelledByUser, Zenon DEF Errors
  <2>2. CASE outcome' # "resource" /\ first_error = "none"
    <3>1. \A w \in Threads : result[w] = "ok"
      BY <1>3, <1>4, <1>5, <2>2, FirstError, Zenon
    <3>2. Contract
      BY <1>4, <3>1, ContractHolds, Zenon
    <3>3. CASE cancelled
      <4>1. outcome' = "cancelled"
        BY <2>2, <3>3, Zenon DEF collect
      <4> QED BY <1>3, <3>1, <3>3, <4>1, CancelledByUser, Zenon DEF Errors
    <3>4. CASE ~cancelled
      BY <2>2, <3>1, <3>2, <3>4, SMTT(20) DEF collect, Errors
    <3> QED BY <3>3, <3>4, Zenon
  <2> QED BY <2>0, <2>1, <2>2, Zenon
<1>7. TypeOK'
  BY <1>1, <1>2, <1>6, SearchKept, Zenon DEF IInv, TypeOK
<1>8. BudgetInv' /\ BlameInv'
  BY <1>1, <1>2, SearchKept, Zenon DEF IInv, BudgetInv, Moving, BlameInv, Blamed
<1>9. CollectInv'
  <2>1. merged + SumFunction(kept) <= Cap
    BY <1>3, KeptBelow, SearchIs, SMTT(20) DEF BudgetInv, TypeOK
  <2>2. Sending' = Threads /\ outcome' # "none" /\ outcome' # "ok"
    BY <1>1, <1>4, <1>6, Zenon DEF Sending, Errors
  <2>3. Cap' = Cap
    BY <1>2, SearchKept, Zenon
  <2> QED BY <1>1, <1>3, <1>4, <1>6, <2>1, <2>2, <2>3, SMTT(20) DEF CollectInv
<1> QED BY <1>2, <1>7, <1>8, <1>9, Zenon DEF IInv

LEMMA CompleteStep ==
    ASSUME IInv, complete
    PROVE  IInv'
<1>1. /\ queue' = queue /\ pc' = pc /\ branch' = branch /\ segments' = segments
      /\ traversal' = traversal /\ result' = result /\ search' = search /\ abort' = abort
      /\ kept' = kept /\ owners' = owners /\ private_total' = private_total
      /\ received' = received /\ merged' = merged /\ cancelled' = cancelled /\ user' = user
  BY Zenon DEF complete, local, budget, control
<1>2. Next /\ WorkInv' /\ PlaceInv' /\ Cap' = Cap
  BY OutsideKeeps, SearchKept, Zenon DEF Next, Collect
<1>3. /\ outcome = "merging" /\ received = <<>> /\ outcome' \in {"ok", "resource", "cancelled"}
      /\ outcome' = "cancelled" => cancelled
  BY SMTT(20) DEF complete
<1>4. TypeOK'
  BY <1>1, <1>2, <1>3, SearchKept, SMTT(20) DEF IInv, TypeOK, Errors
<1>5. BudgetInv' /\ BlameInv'
  BY <1>1, <1>2, SearchKept, SMTT(20) DEF IInv, BudgetInv, Moving, BlameInv, Blamed
<1>6. CollectInv'
  <2>1. /\ Sending = Threads /\ merged + SumFunction(kept) <= Cap
        /\ \A w \in Threads : result[w] = "ok" /\ (w \in Range(received) \/ owners[w] = 0)
    BY <1>3, Zenon DEF IInv, CollectInv
  <2>2. outcome' = "cancelled" => user
    BY <1>3, <2>1, CancelledByUser, SMTT(20) DEF IInv
  <2>3. Sending' = Threads
    BY <1>1, <2>1, Zenon DEF Sending
  <2> QED BY <1>1, <1>2, <1>3, <2>1, <2>2, <2>3, SMTT(20) DEF CollectInv
<1> QED BY <1>2, <1>4, <1>5, <1>6, Zenon DEF IInv

LEMMA MergeStep ==
    ASSUME IInv, merge
    PROVE  IInv'
<1> DEFINE l == Len(received)
           w == received[l]
<1>1. /\ outcome = "merging" /\ received # <<>> /\ received \in Seq(Threads)
      /\ outcome' \in {"merging", "resource"}
  BY Zenon DEF IInv, TypeOK, merge
<1>2. l \in Nat \ {0} /\ w \in Threads
  BY <1>1
<1>3. /\ merged' = merged + kept[w] /\ kept' = [kept EXCEPT ![w] = 0] /\ ensure(w, 0)
      /\ received' = SubSeq(received, 1, l - 1)
  BY Zenon DEF merge, release_after_drop
<1>4. /\ queue' = queue /\ pc' = pc /\ branch' = branch /\ segments' = segments
      /\ traversal' = traversal /\ result' = result /\ search' = search /\ abort' = abort
      /\ cancelled' = cancelled /\ user' = user
  BY Zenon DEF merge, control
<1>5. Next /\ WorkInv' /\ PlaceInv' /\ Cap' = Cap
  BY OutsideKeeps, SearchKept, Zenon DEF Next, Collect
<1>6. received' \in Seq(Threads) /\ \A n \in 1..(l - 1) : n \in DOMAIN received' /\ received'[n] = received[n]
  <2> DEFINE k == l - 1
  <2>1. k \in Nat /\ k <= Len(received) /\ received' = SubSeq(received, 1, k)
    BY <1>2, <1>3
  <2> HIDE DEF k
  <2>2. received' \in Seq(Threads) /\ Len(received') = k
    BY <1>1, <2>1
  <2>3. \A n \in 1..k : n \in DOMAIN received' /\ received'[n] = received[n]
    BY <1>1, <2>1, <2>2, SMTT(20)
  <2> QED BY <2>2, <2>3, Zenon DEF k
<1>7. /\ Sending = Threads /\ merged + SumFunction(kept) <= Cap
      /\ \A v \in Threads : result[v] = "ok" /\ (v \in Range(received) \/ owners[v] = 0)
  BY <1>1, SMTT(20) DEF IInv, CollectInv
<1> HIDE DEF w
<1>8. /\ owners' \in [Owners -> Nat] /\ private_total' \in Nat
      /\ private_total' = SumFunction(owners') /\ private_total' = private_total - owners[w]
      /\ owners'[w] = 0 /\ owners'[Queued] = owners[Queued]
      /\ owners[w] \in Nat /\ private_total \in Nat /\ owners \in [Owners -> Nat]
  <2>1. TypeOK /\ BudgetInv /\ 0 \in Nat /\ owners[w] \in Nat /\ private_total \in Nat
    <3>1. /\ TypeOK /\ BudgetInv /\ w \in Owners
          /\ owners \in [Owners -> Nat] /\ private_total \in Nat
      BY <1>2, ThreadsAre, Zenon DEF IInv, TypeOK
    <3>2. owners[w] \in Nat
      BY <3>1, Zenon
    <3>3. 0 \in Nat
      BY SMT
    <3> QED BY <3>1, <3>2, <3>3, Zenon
  <2>2. /\ owners' \in [Owners -> Nat] /\ private_total' \in Nat
        /\ private_total' = SumFunction(owners') /\ private_total' = private_total - owners[w] + 0
        /\ owners'[w] = 0 /\ owners'[Queued] = owners[Queued]
    BY <1>2, <1>3, <2>1, EnsureKeeps, Zenon
  <2> QED BY <2>1, <2>2, SMTT(20) DEF TypeOK
<1>9. \A v \in Threads : v # w => owners'[v] = owners[v] /\ kept'[v] = kept[v]
  BY <1>2, <1>3, <1>8, ThreadsAre, Zenon DEF ensure, IInv, TypeOK
<1>10. kept \in [Threads -> Nat] /\ kept' \in [Threads -> Nat] /\ kept'[w] = 0 /\ merged' \in Nat /\ merged \in Nat
  BY <1>2, <1>3 DEF IInv, TypeOK
<1>11. merged' + SumFunction(kept') = merged + SumFunction(kept)
  <2>1. \A v \in Threads : v # w => kept[v] = kept'[v]
    BY <1>9, SMTT(20)
  <2>2. SumFunction(kept') = SumFunction(kept) + kept'[w] - kept[w]
    BY <1>2, <1>10, <2>1, UpdateSum, ThreadsAre
  <2>3. SumFunction(kept) \in Nat /\ kept[w] \in Nat
    BY <1>2, <1>10, KeptBelow, SMTT(20) DEF IInv
  <2> QED BY <1>3, <1>10, <2>2, <2>3, SMTT(20)
<1>12. TypeOK'
  BY <1>1, <1>4, <1>5, <1>6, <1>8, <1>10, SearchKept, Zenon DEF IInv, TypeOK, Errors
<1>13. BudgetInv'
  <2>1. traversal[w] = 0
    BY <1>2, <1>7, AllDone, SMTT(20)
  <2>2. \A v \in Threads : kept'[v] + traversal'[v] <= owners'[v]
    BY <1>4, <1>8, <1>9, <1>10, <2>1, SMTT(20) DEF IInv, BudgetInv
  <2>3. private_total' <= Cap'
    BY <1>5, <1>8, SearchIs, SMTT(20) DEF IInv, BudgetInv
  <2> QED BY <1>4, <1>8, <2>2, <2>3, SMTT(20) DEF IInv, BudgetInv, Moving
<1>14. BlameInv'
  BY <1>4, SMTT(20) DEF IInv, BlameInv, Blamed
<1>15. CollectInv'
  <2>1. ASSUME NEW v \in Threads PROVE v \in Range(received') \/ owners'[v] = 0
    <3>1. CASE v = w
      BY <1>8, <3>1, SMTT(20)
    <3>2. CASE v # w /\ owners[v] = 0
      BY <1>9, <3>2, SMTT(20)
    <3>3. CASE v # w /\ v \in Range(received)
      <4>1. PICK n \in DOMAIN received : received[n] = v
        BY <3>3, Zenon DEF Range
      <4>2. n # l
        BY <3>3, <4>1, Zenon DEF w
      <4>3. n \in 1..(l - 1)
        BY <1>1, <4>1, <4>2
      <4>4. n \in DOMAIN received' /\ received'[n] = v
        BY <1>6, <4>1, <4>3, Zenon
      <4> QED BY <4>4, SMTT(20) DEF Range
    <3> QED BY <1>7, <3>1, <3>2, <3>3, Zenon
  <2>2. Sending' = Threads
    BY <1>4, <1>7, Zenon DEF Sending
  <2> QED BY <1>1, <1>4, <1>5, <1>7, <1>11, <2>1, <2>2, ZenonT(40) DEF CollectInv
<1> QED BY <1>5, <1>12, <1>13, <1>14, <1>15, SMTT(20) DEF IInv

--------------------------------------------------------------------------------
(* The first state, and every step. *)

LEMMA OrderIs ==
    ASSUME NEW n \in Nat, NEW f \in [1..n -> 1..n]
    PROVE  f \in Seq(1..n) /\ Len(f) = n
BY SMTT(20)

\* What the workers are given is taken from the end of the order, one branch each.
LEMMA GivenIs ==
    ASSUME Init
    PROVE  /\ Len(Count) \in Nat /\ Given \in Nat /\ Given <= Width /\ Given <= Len(Count)
           /\ Len(Count) <= Cap /\ Cap \in Nat
           /\ Order \in [Branches -> Branches] /\ Len(Order) = Len(Count)
           /\ \A a, b \in Branches : Order[a] = Order[b] => a = b
           /\ \A b \in Branches : \E a \in Branches : Order[a] = b
           /\ queue \in Seq(Branches) /\ Len(queue) = Len(Count) - Given
           /\ \A n \in 1..(Len(Count) - Given) : queue[n] = Order[n]
           /\ \A w \in Threads : w <= Given => /\ Len(Count) + 1 - w \in Branches
                                               /\ First(w) = Order[Len(Count) + 1 - w]
           /\ \A w \in Threads : ~(w <= Given) => First(w) = 0
           /\ \A w \in Threads : First(w) \in {0} \cup Branches /\ (First(w) # 0 <=> w <= Given)
<1>1. /\ Kind \in {"family", "tiling"} /\ Count \in Seq(Nat \ {0})
      /\ Order \in Bijection(Branches, Branches)
      /\ Cap \in Nat /\ Len(Count) <= Cap
  BY FamilyAssumption, Zenon DEF Init, Kind, Count, Order, Cap, Branches
<1>2. /\ Order \in [Branches -> Branches]
      /\ \A a, b \in Branches : Order[a] = Order[b] => a = b
      /\ \A b \in Branches : \E a \in Branches : Order[a] = b
  BY <1>1, Zenon DEF Bijection, Injection, Surjection, IsInjective
<1>3. Len(Count) \in Nat
  BY <1>1
<1>4. Given \in Nat /\ Given <= Width /\ Given <= Len(Count)
  BY <1>1, <1>3, ThreadsAre DEF Given
<1>5. Order \in Seq(Branches) /\ Len(Order) = Len(Count)
  BY <1>2, <1>3, OrderIs, Zenon DEF Branches
<1>6. /\ queue \in Seq(Branches) /\ Len(queue) = Len(Count) - Given
      /\ \A n \in 1..(Len(Count) - Given) : queue[n] = Order[n]
  <2> DEFINE k == Len(Count) - Given
  <2>1. k \in Nat /\ k <= Len(Order) /\ queue = SubSeq(Order, 1, k)
    BY <1>3, <1>4, <1>5 DEF Init
  <2> HIDE DEF k
  <2>2. queue \in Seq(Branches) /\ Len(queue) = k /\ \A n \in 1..k : queue[n] = Order[n]
    BY <1>5, <2>1, SMTT(20)
  <2> QED BY <2>2, Zenon DEF k
<1>7. ASSUME NEW w \in Threads, w <= Given
      PROVE  /\ Len(Count) + 1 - w \in Branches /\ First(w) = Order[Len(Count) + 1 - w]
             /\ First(w) \in Branches /\ First(w) # 0
  <2>1. Len(Count) + 1 - w \in Branches
    BY <1>3, <1>4, <1>7 DEF Threads, Branches
  <2>2. First(w) = Order[Len(Count) + 1 - w]
    BY <1>5, <1>7, SMTT(20) DEF First
  <2>3. First(w) \in Branches
    BY <1>2, <2>1, <2>2
  <2> QED BY <2>1, <2>2, <2>3 DEF Branches
<1>8. \A w \in Threads : ~(w <= Given) => First(w) = 0
  BY SMTT(20) DEF First
<1> QED BY <1>1, <1>2, <1>3, <1>4, <1>5, <1>6, <1>7, <1>8, ZenonT(40)

LEMMA InitPlaces ==
    ASSUME Init
    PROVE  PlaceInv
<1>0. /\ Len(Count) \in Nat /\ Given \in Nat /\ Given <= Width /\ Given <= Len(Count)
      /\ Order \in [Branches -> Branches]
      /\ \A x, y \in Branches : Order[x] = Order[y] => x = y
      /\ \A b \in Branches : \E x \in Branches : Order[x] = b
      /\ queue \in Seq(Branches) /\ Len(queue) = Len(Count) - Given
      /\ \A n \in 1..(Len(Count) - Given) : queue[n] = Order[n]
  BY GivenIs, Zenon
<1>00. ASSUME NEW w \in Threads
       PROVE  /\ w <= Given => Len(Count) + 1 - w \in Branches /\ First(w) = Order[Len(Count) + 1 - w]
              /\ First(w) # 0 <=> w <= Given
  BY GivenIs, SMTT(20)
<1>1. /\ DOMAIN queue = 1..(Len(Count) - Given)
      /\ \A n \in DOMAIN queue : n \in Branches /\ queue[n] = Order[n] /\ queue[n] \in Branches
  <2>1. DOMAIN queue = 1..(Len(Count) - Given)
    BY <1>0
  <2>2. \A n \in 1..(Len(Count) - Given) : n \in Branches
    BY <1>0, SMTT(20) DEF Branches
  <2> QED BY <1>0, <2>1, <2>2, Zenon
<1>2. \A w \in Threads : branch[w] = First(w) /\ segments[w] = {} /\ result[w] = "none"
  BY Zenon DEF Init
<1>3. \A m, n \in DOMAIN queue : queue[m] = queue[n] => m = n
  BY <1>0, <1>1, Zenon
<1>4. \A n \in DOMAIN queue, w \in Threads : queue[n] # branch[w]
  <2> SUFFICES ASSUME NEW n \in DOMAIN queue, NEW w \in Threads, queue[n] = branch[w] PROVE FALSE
    BY Zenon
  <2>1. queue[n] # 0
    BY <1>1, SMTT(20) DEF Branches
  <2>2. w <= Given
    BY <1>00, <1>2, <2>1, SMTT(20)
  <2>3. Len(Count) + 1 - w \in Branches /\ Order[Len(Count) + 1 - w] = Order[n]
    BY <1>00, <1>1, <1>2, <2>2, Zenon
  <2>4. n = Len(Count) + 1 - w
    BY <1>0, <1>1, <2>3, Zenon
  <2> QED BY <1>0, <1>1, <2>2, <2>4 DEF Threads
<1>5. \A w, v \in Threads : branch[w] # 0 /\ branch[w] = branch[v] => w = v
  <2> SUFFICES ASSUME NEW w \in Threads, NEW v \in Threads, branch[w] # 0, branch[w] = branch[v] PROVE w = v
    BY SMTT(20)
  <2>1. w <= Given /\ v <= Given
    BY <1>00, <1>2, SMTT(20)
  <2>2. /\ Len(Count) + 1 - w \in Branches /\ Len(Count) + 1 - v \in Branches
        /\ Order[Len(Count) + 1 - w] = Order[Len(Count) + 1 - v]
    BY <1>00, <1>2, <2>1, SMTT(20)
  <2>3. Len(Count) + 1 - w = Len(Count) + 1 - v
    BY <1>0, <2>2, Zenon
  <2> QED BY <1>0, <2>3 DEF Threads
<1>6. ASSUME NEW b \in Branches
      PROVE (\E n \in DOMAIN queue : queue[n] = b) \/ \E w \in Threads : branch[w] = b
  <2>1. PICK a \in Branches : Order[a] = b
    BY <1>0, Zenon
  <2>2. CASE a <= Len(Count) - Given
    <3>1. a \in DOMAIN queue
      BY <1>0, <1>1, <2>2 DEF Branches
    <3> QED BY <1>1, <2>1, <3>1, SMTT(20)
  <2>3. CASE ~(a <= Len(Count) - Given)
    <3> DEFINE w == Len(Count) + 1 - a
    <3>1. w \in Threads /\ w <= Given /\ Len(Count) + 1 - w = a
      <4>1. a \in Nat /\ 1 <= a /\ a <= Len(Count)
        BY <1>0, SMTT(20) DEF Branches
      <4>2. Len(Count) \in Nat /\ Given \in Nat /\ Width \in Nat /\ Given <= Width
        BY <1>0, ThreadsAre, SMTT(20)
      <4> QED BY <2>3, <4>1, <4>2 DEF Threads
    <3> HIDE DEF w
    <3>2. branch[w] = b
      BY <1>00, <1>2, <2>1, <3>1, Zenon
    <3> QED BY <3>1, <3>2, Zenon
  <2> QED BY <2>2, <2>3, Zenon
<1> QED BY <1>2, <1>3, <1>4, <1>5, <1>6, SMTT(20) DEF PlaceInv

LEMMA InitBudget ==
    ASSUME Init
    PROVE  BudgetInv
<1>0. /\ Len(Count) \in Nat /\ Given \in Nat /\ Given <= Width /\ Len(Count) <= Cap /\ Cap \in Nat
      /\ Len(queue) = Len(Count) - Given /\ \A w \in Threads : First(w) # 0 <=> w <= Given
  BY GivenIs, SMTT(20)
<1>1. /\ DOMAIN owners = Owners /\ owners[Queued] = Len(queue)
      /\ \A w \in Threads : owners[w] = IF w <= Given THEN 1 ELSE 0
  BY <1>0, ThreadsAre, SMTT(20) DEF Init
<1>2. SumFunctionOnSet(owners, Threads) = Given
  BY <1>0, <1>1, SumOnes, ThreadsAre, SMTT(20) DEF Threads
<1>3. SumFunctionOnSet(owners, Owners) = owners[Queued] + SumFunctionOnSet(owners, Threads)
  <2>1. Owners \ {Queued} = Threads /\ Queued \in Owners
    BY ThreadsAre, SMTT(20) DEF Owners
  <2>2. \A o \in Owners : owners[o] \in Int
    BY <1>0, <1>1, ThreadsAre
  <2> QED BY <2>1, <2>2, SumRemove, ThreadsAre, Zenon
<1>4. private_total = SumFunction(owners) /\ private_total <= Cap
  <2>1. private_total = Len(Count)
    BY SMTT(20) DEF Init
  <2> QED BY <1>0, <1>1, <1>2, <1>3, <2>1, SMTT(20) DEF SumFunction
<1>5. \A w \in Threads : kept[w] + traversal[w] <= owners[w]
  <2>1. \A w \in Threads : kept[w] = 0 /\ traversal[w] = IF First(w) # 0 THEN 1 ELSE 0
    BY Zenon DEF Init
  <2> QED BY <1>0, <1>1, <2>1, SMTT(20)
<1>6. owners[Queued] = Len(queue) + Cardinality(Moving)
  <2>1. Moving = {}
    BY Zenon DEF Moving, Init
  <2> QED BY <1>0, <1>1, <2>1, FS_EmptySet, SMTT(20)
<1> QED BY <1>4, <1>5, <1>6, SMTT(20) DEF BudgetInv

LEMMA InitIInv == Init => IInv
<1> SUFFICES ASSUME Init PROVE IInv
  BY SMTT(20)
<1>1. TypeOK
  <2>1. abort \in BOOLEAN /\ cancelled \in BOOLEAN /\ user \in BOOLEAN
    BY Zenon DEF Init
  <2>2. owners \in [Owners -> Nat] /\ private_total \in Nat
    <3>1. Len(queue) \in Nat /\ Len(Count) \in Nat
      BY GivenIs
    <3> QED BY <3>1, Zenon DEF Init
  <2>3. /\ pc \in [Threads -> Places] /\ segments \in [Threads -> SUBSET Branches]
        /\ result \in [Threads -> {"none", "ok"} \cup Errors]
    BY Zenon DEF Init, Places
  <2>4. branch \in [Threads -> {0} \cup Branches]
    BY GivenIs, Zenon DEF Init
  <2>5. traversal \in [Threads -> Nat] /\ kept \in [Threads -> Nat]
    BY Zenon DEF Init
  <2>6. received \in Seq(Threads) /\ merged \in Nat /\ outcome \in {"none"} /\ search \in Searches
    BY SMTT(20) DEF Init
  <2> QED BY <2>1, <2>2, <2>3, <2>4, <2>5, <2>6, GivenIs, Zenon DEF TypeOK
<1>2. WorkInv
  <2>1. ASSUME NEW w \in Threads
        PROVE  /\ pc[w] \in {"queued", "loop"} /\ result[w] = "none"
               /\ branch[w] = 0 => traversal[w] = 0
    BY Zenon DEF Init
  <2> QED BY <2>1, Zenon DEF WorkInv, HasBranch, NoBranch
<1>3. BlameInv
  BY SMTT(20) DEF Init, BlameInv
<1>4. CollectInv
  <2>1. Sending = {}
    BY Zenon DEF Sending, Init
  <2>2. Range(received) = {} /\ Len(received) = 0
    BY DEF Init, Range
  <2> QED BY <2>1, <2>2, FS_EmptySet, Zenon DEF CollectInv, Init
<1> QED BY <1>1, <1>2, <1>3, <1>4, InitPlaces, InitBudget, Zenon DEF IInv

LEMMA NextIInv == IInv /\ [Next]_vars => IInv'
<1> SUFFICES ASSUME IInv, [Next]_vars PROVE IInv'
  BY SMTT(20)
<1>1. ASSUME NEW w \in Threads, Worker(w) PROVE IInv'
  BY <1>1, WorkerTypes, WorkerWork, WorkerBudget, WorkerPlace, WorkerBlame, WorkerCollect, ZenonT(40) DEF IInv
<1>2. CASE cancel
  BY <1>2, CancelStep, Zenon
<1>5. CASE grow
  BY <1>5, GrowStep, Zenon
<1>3. CASE Collect
  BY <1>3, CollectStep, MergeStep, CompleteStep, Zenon DEF Collect
<1>4. CASE UNCHANGED vars
  <2>1. TypeOK' /\ Branches' = Branches
    BY <1>4, Zenon DEF IInv, TypeOK, vars, control, budget, local, Branches, Count
  <2>2. WorkInv' /\ BudgetInv' /\ BlameInv'
    BY <1>4, Zenon DEF IInv, vars, control, budget, local, WorkInv, BudgetInv, Moving, Cap, BlameInv, Blamed
  <2>3. PlaceInv'
    BY <1>4, <2>1, Zenon DEF IInv, vars, local, PlaceInv
  <2>4. CollectInv'
    BY <1>4, Zenon DEF IInv, vars, control, budget, local, CollectInv, Sending, Cap
  <2> QED BY <2>1, <2>2, <2>3, <2>4, SMTT(20) DEF IInv
<1> QED BY <1>1, <1>2, <1>3, <1>4, <1>5, Zenon DEF Next

\* The inductive invariant holds in every state of a search shared by any number of
\* workers (extended_pc_family_parallel.rs, extended_pc_tiling_parallel.rs).
THEOREM Inductive == Spec => []IInv
<1>1. Init => IInv
  BY InitIInv, Zenon
<1>2. IInv /\ [Next]_vars => IInv'
  BY NextIInv, Zenon
<1> QED BY <1>1, <1>2, PTL DEF Spec

\* Whatever the workers do and in whatever order, the shared budget is the sum of what
\* its owners have reserved and at most the cap, each worker holds no more than it has
\* reserved, the queue's share goes with its branches, and a search that succeeds has
\* returned everything (SharedExecutionMemoryBudget).
THEOREM KeepsAccounts == Spec => []Accounted
<1>1. IInv => Accounted
  <2> SUFFICES ASSUME IInv PROVE Accounted
    BY SMTT(20)
  <2>1. /\ private_total = SumFunction(owners) /\ private_total <= Cap
        /\ \A w \in Threads : kept[w] + traversal[w] <= owners[w]
        /\ owners[Queued] = Len(queue) + Cardinality({w \in Threads : pc[w] = "transfer"})
    BY Zenon DEF IInv, BudgetInv, Moving
  <2>2. merged + SumFunction(kept) <= Cap
    <3>1. CASE outcome = "none"
      <4>1. merged = 0 /\ private_total \in Nat /\ Cap \in Nat
        BY <3>1, SearchIs, Zenon DEF IInv, CollectInv, TypeOK
      <4>2. SumFunction(kept) \in Nat /\ SumFunction(kept) <= private_total
        BY KeptBelow, SMTT(20) DEF IInv
      <4> QED BY <2>1, <4>1, <4>2, SMTT(20)
    <3>2. CASE outcome # "none"
      BY <3>2, SMTT(20) DEF IInv, CollectInv
    <3> QED BY <3>1, <3>2, Zenon
  <2>3. ASSUME outcome = "ok" PROVE private_total = 0
    <3>1. /\ Sending = Threads /\ received = <<>>
          /\ \A w \in Threads : result[w] = "ok" /\ (w \in Range(received) \/ owners[w] = 0)
      BY <2>3, Zenon DEF IInv, CollectInv
    <3>2. \A w \in Threads : owners[w] = 0
      BY <3>1, SMTT(20) DEF Range
    <3>3. Moving = {} /\ queue = <<>>
      BY <3>1, AllDone, SMTT(20) DEF Moving, Sending
    <3>4. owners[Queued] = 0
      BY <3>3, FS_EmptySet DEF IInv, BudgetInv
    <3>5. \A o \in Owners : owners[o] = 0
      BY <3>2, <3>4, ThreadsAre, SMTT(20)
    <3>6. SumFunctionOnSet(owners, Owners) = 0 /\ DOMAIN owners = Owners
      BY <3>5, SumZero, ThreadsAre, Zenon DEF IInv, TypeOK
    <3> QED BY <2>1, <3>6, SMTT(20) DEF SumFunction
  <2> QED BY <2>1, <2>2, <2>3, Zenon DEF Accounted
<1> QED BY <1>1, Inductive, PTL

\* What the search returns is true of it: it returns when every job has answered, its
\* own check of the branches never fails, a success went through every branch exactly
\* once, and a cancellation is the user's and hides no error (first_error).
THEOREM TellsTheTruth == Spec => []OutcomeIsTrue
<1>1. IInv => OutcomeIsTrue
  <2> SUFFICES ASSUME IInv PROVE OutcomeIsTrue
    BY SMTT(20)
  <2>1. outcome \notin {"none", "merging"} => \A w \in Background : pc[w] = "sent"
    BY ThreadsAre, Zenon DEF IInv, CollectInv, Sending
  <2>2. outcome # "contract"
    BY Zenon DEF IInv, TypeOK, Errors
  <2>3. outcome = "ok" => \A b \in 1..Len(Count) : \E w \in Threads :
            b \in segments[w] /\ \A v \in Threads \ {w} : b \notin segments[v]
    <3>1. outcome = "ok" => Sending = Threads /\ \A w \in Threads : result[w] = "ok"
      BY SMTT(20) DEF IInv, CollectInv
    <3> QED BY <3>1, AllDone, Zenon DEF Branches
  <2>4. outcome = "cancelled" => user /\ \A w \in Threads : result[w] \notin {"failed", "resource"}
    BY Zenon DEF IInv, CollectInv
  <2> QED BY <2>1, <2>2, <2>3, <2>4, Zenon DEF OutcomeIsTrue
<1> QED BY <1>1, Inductive, PTL

================================================================================
