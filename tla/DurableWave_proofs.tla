--------------------------- MODULE DurableWave_proofs ---------------------------
(* Proofs about DurableWave, for any number of workers, any batch capacity    *)
(* and any number of candidates.                                              *)
EXTENDS DurableWave, TLAPS

Driving == {"spawn", "reserve", "prepare", "fill", "journal", "send", "collect", "seal"}
Leaving == {"drop_senders", "drop_receiver", "join"}
Joined == {"merge", "apply", "complete", "fail_all", "done", "error"}

Waves == {"Initialize", "Consume", "Finish"}
Stages == {"Offer", "Publish", "Run"}
Active == {"Running", "Renewed"}
Applied == {"ResultApplied", "Completed"}

\* f is a function on S.
FunctionOn(f, S) == f = [x \in S |-> f[x]]

TypeOK ==
    /\ pc \in Driving \cup Leaving \cup Joined /\ wave \in Waves /\ stage \in Stages
    /\ i \in Nat \ {0} /\ live \in Nat /\ cap \in Nat /\ total \in Nat /\ left \in Nat
    /\ summary \in BOOLEAN
    /\ pending \in Seq([task : Int, worker : Worker])
    /\ expected \subseteq Task /\ received \in Seq(Task) /\ sealed \in Seq(Task)
    /\ phase \in [Task -> P!Phase \cup {"Absent"}] /\ runs \in [Task -> 0..1]
    /\ wpc \in [Worker -> {"recv", "compute", "send", "exited"}]
    /\ FunctionOn(request, Worker) /\ FunctionOn(out, Worker)
    /\ FunctionOn(offer, Worker) /\ FunctionOn(published, Worker) /\ FunctionOn(verifier, Worker)

\* How many of the delegations so far, and of those the candidates left call for, are
\* of waves for all workers.
Allowance ==
    CASE wave = "Initialize" /\ pc \in {"spawn", "reserve"} -> 0
      [] wave = "Initialize" /\ pc = "prepare" -> i - 1
      [] wave = "Initialize" /\ pc \notin {"spawn", "reserve", "prepare"} -> N
      [] wave = "Consume" -> N
      [] wave = "Finish" /\ pc = "reserve" -> N
      [] wave = "Finish" /\ pc = "prepare" -> N + i - 1
      [] wave = "Finish" /\ pc \notin {"reserve", "prepare"} -> N + N

CountInv ==
    /\ total <= MaxCandidates /\ left <= total
    /\ summary => left = 0
    /\ wave = "Finish" => summary
    /\ live + Batches(left) <= Batches(total) + Allowance
    /\ pc \in {"prepare", "fill"} => i <= N
    /\ pc = "spawn" => wave = "Initialize"
    /\ pc \in {"reserve", "prepare"} => wave # "Consume"
    /\ pc = "fill" => wave = "Consume"
    /\ pc \in {"journal", "send"} => i <= Len(pending)
    /\ pc = "collect" => i = 1
    /\ pc = "seal" => i <= Len(received)
    /\ pc \in Driving => why = "none" /\ senders = TRUE /\ receiver = TRUE
    /\ why = "task_bound" => cap # 0 /\ total > cap

\* The n-th delegation of a wave is for worker n.
TaskOf(n) == live - Len(pending) + n

Wave == {TaskOf(n) : n \in 1..Len(pending)}

PendingInv ==
    /\ Len(pending) <= N /\ Len(pending) <= live
    /\ \A n \in 1..Len(pending) : pending[n] = [task |-> TaskOf(n), worker |-> n]
    /\ pc \in {"spawn", "reserve"} => pending = <<>>
    /\ pc \in {"prepare", "fill"} => Len(pending) = i - 1
    /\ pc \in {"journal", "send", "collect", "seal"} =>
          Len(pending) >= 1 /\ (wave # "Consume" => Len(pending) = N)

\* The phase of a delegation before and after the request of a stage.
Before == CASE stage = "Offer" -> "Prepared" [] stage = "Publish" -> "Offered" [] stage = "Run" -> "Published"
After == CASE stage = "Offer" -> "Offered" [] stage = "Publish" -> "Published" [] stage = "Run" -> "Running"

PhaseInv ==
    /\ \A t \in Task : t > live => phase[t] = "Absent" /\ runs[t] = 0
    /\ pc \in Driving =>
          \A t \in 1..(live - Len(pending)) :
              phase[t] = "ResultSealed" /\ runs[t] = 1 /\ \E m \in 1..Len(sealed) : sealed[m] = t
    /\ pc \in {"prepare", "fill"} => \A n \in 1..Len(pending) : phase[TaskOf(n)] = "Prepared"
    /\ pc = "journal" =>
          \A n \in 1..Len(pending) :
              \/ phase[TaskOf(n)] = IF n < i THEN After ELSE Before
              \/ n = i /\ stage = "Publish" /\ phase[TaskOf(n)] = "Accepted"
    /\ pc = "send" => \A n \in 1..Len(pending) : phase[TaskOf(n)] = IF n <= i THEN After ELSE Before
    /\ pc = "collect" =>
          \A n \in 1..Len(pending) :
              phase[TaskOf(n)] = After \/ (stage = "Run" /\ phase[TaskOf(n)] = "Renewed")

\* Results are received once each, then sealed once each.
ReceivedInv ==
    /\ pc \in {"collect", "seal"} =>
          /\ \A m, n \in 1..Len(received) : received[m] = received[n] => m = n
          /\ \A m \in 1..Len(received) : received[m] \in Wave \ expected
          /\ \A t \in Wave : t \in expected \/ \E m \in 1..Len(received) : received[m] = t
          /\ expected \subseteq Wave
    /\ pc = "collect" => expected # {}
    /\ pc = "seal" =>
          /\ stage = "Run" /\ expected = {}
          /\ \A m \in 1..Len(received) :
                IF m < i THEN /\ phase[received[m]] = "ResultSealed"
                              /\ \E n \in 1..Len(sealed) : sealed[n] = received[m]
                         ELSE phase[received[m]] \in Active

--------------------------------------------------------------------------------
(* Worker and coordinator. *)

Initial == IF wave = "Initialize" THEN "none" ELSE "ready"

\* What worker w holds when it has answered what comes before stage s.
Holds(w, s) ==
    CASE s = "Offer" -> /\ offer[w] = 0 /\ published[w] = <<>> /\ verifier[w] = Initial
                        /\ w <= Len(pending) => runs[TaskOf(w)] = 0
      [] s = "Publish" -> /\ offer[w] = TaskOf(w) /\ published[w] = <<>> /\ verifier[w] = Initial
                          /\ runs[TaskOf(w)] = 0
      [] s = "Run" -> /\ offer[w] = TaskOf(w) /\ published[w] = <<TaskOf(w), wave>> /\ verifier[w] = Initial
                      /\ runs[TaskOf(w)] = 0
      [] s = "Done" -> /\ offer[w] = 0 /\ published[w] = <<>> /\ runs[TaskOf(w)] = 1
                       /\ verifier[w] = IF wave = "Finish" THEN "finished" ELSE "ready"

Following == CASE stage = "Offer" -> "Publish" [] stage = "Publish" -> "Run" [] stage = "Run" -> "Done"

\* It waits for a request.
Rests(w, s) == wpc[w] = "recv" /\ request[w] = <<>> /\ Holds(w, s)

\* Its request has not been taken.
Asked(w) ==
    /\ wpc[w] = "recv" /\ request[w] = <<[kind |-> stage, task |-> TaskOf(w), op |-> wave]>>
    /\ Holds(w, stage) /\ (stage = "Run" => phase[TaskOf(w)] \in Active)

Computes(w) ==
    /\ wpc[w] = "compute" /\ request[w] = <<>> /\ stage = "Run" /\ phase[TaskOf(w)] \in Active
    /\ offer[w] = 0 /\ published[w] = <<TaskOf(w), wave>> /\ verifier[w] = Initial /\ runs[TaskOf(w)] = 1

Answers(w) ==
    /\ wpc[w] = "send" /\ request[w] = <<>>
    /\ out[w].ok => out[w] = Completion(TaskOf(w), Answer[stage]) /\ Holds(w, Following)

Gone(w) == wpc[w] = "exited" /\ request[w] = <<>>

\* Its request has been sent and its answer not been received.
Busy(w) == w <= Len(pending) /\ (Asked(w) \/ Computes(w) \/ Answers(w) \/ Gone(w))

\* Its answer has been received.
Answered(w) ==
    /\ wpc[w] = (IF stage = "Run" /\ wave = "Finish" THEN "exited" ELSE "recv")
    /\ request[w] = <<>> /\ Holds(w, Following)

WorkerInv ==
    \A w \in Worker :
        /\ pc \in {"spawn", "reserve", "prepare", "fill"} => Rests(w, "Offer")
        /\ pc \in {"journal", "send"} =>
              IF w < i THEN Busy(w) ELSE Rests(w, IF w <= Len(pending) THEN stage ELSE "Offer")
        /\ pc \in {"collect", "seal"} =>
              IF w <= Len(pending) THEN IF TaskOf(w) \in expected THEN Busy(w) ELSE Answered(w)
                                   ELSE Rests(w, "Offer")
        /\ pc \in Leaving => Busy(w) \/ (wpc[w] \in {"recv", "exited"} /\ request[w] = <<>>)
        /\ pc \in Joined => Gone(w)

\* All that the drive was for has been done.
Succeeded ==
    /\ wave = "Finish" /\ pending = <<>> /\ live >= 1
    /\ \A w \in Worker : Gone(w) /\ verifier[w] = "finished"
    /\ \A t \in 1..live :
          /\ runs[t] = 1 /\ phase[t] \in P!Sealed \cup {"FailedClosed"}
          /\ \E m \in 1..Len(sealed) : sealed[m] = t

\* What holds once the drive has succeeded, and when it has not.
EndInv ==
    /\ why = "ok" => pc \in Leaving \cup Joined /\ Succeeded
    /\ why # "ok" \/ pc \in Leaving \cup {"merge"} => \A t \in Task : phase[t] \notin Applied
    /\ pc \in {"merge", "apply", "complete", "done"} => why = "ok" /\ Len(sealed) = live
    /\ pc = "merge" => i = 1
    /\ pc \in {"apply", "complete"} =>
          i <= Len(sealed) /\ \A m \in 1..(i - 1) : phase[sealed[m]] = "Completed"
    /\ pc = "complete" => phase[sealed[i]] = "ResultApplied"
    /\ pc = "done" => \A t \in 1..live : phase[t] = "Completed"

IInv == TypeOK /\ CountInv /\ PendingInv /\ PhaseInv /\ ReceivedInv /\ WorkerInv /\ EndInv

--------------------------------------------------------------------------------
(* Batches. *)

\* Division by a positive number has one result.
LEMMA DivisionIs ==
    ASSUME NEW c \in Nat \ {0}, NEW q \in Int, NEW r \in Int, NEW y \in Int,
           c * q <= y, y < c * q + c, c * r <= y, y < c * r + c
    PROVE  q = r
<1>1. c * (q - r) < c /\ c * (r - q) < c
  BY SMTT(30)
<1>2. ASSUME NEW d \in Int, c * d < c PROVE d < 1
  BY <1>2, SMTT(30)
<1>3. q - r \in Int /\ r - q \in Int
  BY SMTT(30)
<1>4. q - r < 1 /\ r - q < 1
  BY <1>1, <1>2, <1>3, Zenon
<1> QED
  BY <1>4, SMTT(30)

\* Batches is the number of batches that hold all candidates, the last one perhaps partly.
LEMMA BatchesIs ==
    ASSUME NEW x \in Nat
    PROVE  /\ Batches(x) \in Nat
           /\ BatchCapacity * Batches(x) <= x + BatchCapacity - 1
           /\ x + BatchCapacity - 1 < BatchCapacity * Batches(x) + BatchCapacity
BY WaveAssumption, SMTT(30) DEF Batches

\* No candidates make no batch.
LEMMA BatchesNone == Batches(0) = 0
BY BatchesIs, WaveAssumption, SMTT(30)

\* A batch, full or the last, is one of the batches of the candidates.
LEMMA BatchesStep ==
    ASSUME NEW x \in Nat, x # 0
    PROVE  /\ x < BatchCapacity => Batches(x) = 1
           /\ ~(x < BatchCapacity) => x - BatchCapacity \in Nat /\ Batches(x) = Batches(x - BatchCapacity) + 1
<1> DEFINE c == BatchCapacity
           q == Batches(x)
           y == x + c - 1
<1>0. c \in Nat \ {0} /\ q \in Int /\ y \in Int
  BY BatchesIs, WaveAssumption, SMTT(30)
<1>1. c * q <= y /\ y < c * q + c
  BY BatchesIs, SMTT(30)
<1>2. ASSUME x < BatchCapacity PROVE q = 1
  <2>1. c * 1 <= y /\ y < c * 1 + c
    BY <1>2, <1>0, SMTT(30)
  <2> HIDE DEF c, q, y
  <2> QED
    BY <1>0, <1>1, <2>1, DivisionIs, SMTT(30)
<1>3. ASSUME ~(x < BatchCapacity) PROVE x - c \in Nat /\ q = Batches(x - c) + 1
  <2>1. x - c \in Nat
    BY <1>3, <1>0, SMTT(30)
  <2> DEFINE r == Batches(x - c)
             z == x - c
  <2>2. z \in Nat /\ r \in Nat /\ c * r <= z + c - 1 /\ z + c - 1 < c * r + c
    BY <2>1, BatchesIs, Zenon
  <2>3. y = (z + c - 1) + c
    BY <1>0, SMTT(30)
  <2> HIDE DEF c, q, y, r, z
  <2>4. c * (r + 1) = c * r + c
    BY <1>0, <2>2, SMTT(30)
  <2>5. c * r \in Int
    BY <1>0, <2>2, SMTT(30)
  <2>6. c * (r + 1) <= y /\ y < c * (r + 1) + c
    BY <1>0, <2>2, <2>3, <2>4, <2>5, SMTT(30)
  <2>7. q = r + 1
    BY <1>0, <1>1, <2>2, <2>6, DivisionIs, SMTT(30)
  <2> QED
    BY <2>1, <2>7, Zenon DEF r
<1> QED
  BY <1>2, <1>3, Zenon

\* More candidates make no fewer batches.
LEMMA BatchesGrow ==
    ASSUME NEW x \in Nat, NEW y \in Nat, x <= y
    PROVE  Batches(x) <= Batches(y)
<1> DEFINE c == BatchCapacity
           q == Batches(x)
           r == Batches(y)
<1>1. /\ c \in Nat \ {0} /\ q \in Nat /\ r \in Nat
      /\ c * q <= x + c - 1 /\ y + c - 1 < c * r + c
  BY BatchesIs, WaveAssumption, Zenon
<1> HIDE DEF c, q, r
<1>2. c * (q - r) < c
  BY <1>1, SMTT(30)
<1>3. ASSUME NEW d \in Int, c * d < c PROVE d < 1
  BY <1>1, <1>3, SMTT(30)
<1>4. q - r \in Int
  BY <1>1, SMTT(30)
<1>5. q - r < 1
  BY <1>2, <1>3, <1>4, Zenon
<1> QED
  BY <1>1, <1>5, SMTT(30) DEF q, r

--------------------------------------------------------------------------------
(* The start. *)

LEMMA InitIInv == Init => IInv
<1> SUFFICES ASSUME Init PROVE IInv
  BY Zenon
<1> USE WaveAssumption
<1>1. TypeOK
  <2>1. cap \in Nat /\ total \in Nat /\ left \in Nat /\ i \in Nat \ {0} /\ live \in Nat
    BY SMTT(30) DEF Init
  <2>2. /\ pending \in Seq([task : Int, worker : Worker])
        /\ received \in Seq(Task) /\ sealed \in Seq(Task) /\ expected \subseteq Task
    BY SMTT(30) DEF Init
  <2>3. phase \in [Task -> P!Phase \cup {"Absent"}] /\ runs \in [Task -> 0..1]
    BY SMTT(30) DEF Init
  <2>4. wpc \in [Worker -> {"recv", "compute", "send", "exited"}]
    BY SMTT(30) DEF Init
  <2>5. /\ FunctionOn(request, Worker) /\ FunctionOn(out, Worker)
        /\ FunctionOn(offer, Worker) /\ FunctionOn(published, Worker) /\ FunctionOn(verifier, Worker)
    BY Zenon DEF Init, FunctionOn
  <2>6. pc \in Driving /\ wave \in Waves /\ stage \in Stages /\ summary \in BOOLEAN
    BY Zenon DEF Init, Driving, Waves, Stages
  <2> QED
    BY <2>1, <2>2, <2>3, <2>4, <2>5, <2>6, Zenon DEF TypeOK
<1>2. CountInv
  <2>1. left \in Nat /\ live = 0 /\ total <= MaxCandidates /\ left <= total /\ total \in Nat
    BY SMTT(30) DEF Init
  <2>2. Batches(left) \in Nat /\ Batches(total) \in Nat /\ Batches(left) <= Batches(total)
    BY <2>1, BatchesIs, BatchesGrow, Zenon
  <2>3. Allowance = 0
    BY Zenon DEF Init, Allowance
  <2>4. live + Batches(left) <= Batches(total) + Allowance
    BY <2>1, <2>2, <2>3, SMTT(30)
  <2> QED
    BY <2>1, <2>4, Zenon DEF Init, CountInv
<1>3. PendingInv
  BY SMTT(30) DEF Init, PendingInv, TaskOf
<1>4. PhaseInv
  BY SMTT(30) DEF Init, PhaseInv
<1>5. ReceivedInv
  BY SMTT(30) DEF Init, ReceivedInv
<1>6. WorkerInv
  <2>1. ASSUME NEW w \in Worker PROVE Rests(w, "Offer")
    <3>1. ~(w <= Len(pending))
      BY SMTT(30) DEF Init, Worker
    <3> QED
      BY <3>1, SMTT(30) DEF Init, Rests, Holds, Initial
  <2> QED
    BY <2>1, Zenon DEF Init, WorkerInv, Leaving, Joined
<1>7. EndInv
  BY SMTT(30) DEF Init, EndInv, Applied
<1> QED
  BY <1>1, <1>2, <1>3, <1>4, <1>5, <1>6, <1>7, Zenon DEF IInv

--------------------------------------------------------------------------------
(* What a step that leaves a worker alone keeps. *)

\* The number of delegations is within the bound on tasks.
LEMMA LiveIs ==
    ASSUME TypeOK, CountInv
    PROVE  /\ Allowance \in Nat /\ Allowance <= N + N /\ total \in Nat /\ total <= MaxCandidates
           /\ live <= Batches(MaxCandidates) + N + N /\ Batches(MaxCandidates) \in Nat
<1> USE WaveAssumption
<1>1. Allowance \in Nat /\ Allowance <= N + N
  <2>1. i \in Nat \ {0} /\ wave \in Waves /\ (pc = "prepare" => i <= N)
    BY Zenon DEF TypeOK, CountInv
  <2> QED
    BY <2>1, SMTT(30) DEF Allowance, Waves
<1>2. left \in Nat /\ live \in Nat /\ total \in Nat /\ total <= MaxCandidates
  BY SMTT(30) DEF TypeOK, CountInv
<1>3. /\ Batches(left) \in Nat /\ Batches(total) \in Nat /\ Batches(MaxCandidates) \in Nat
      /\ Batches(total) <= Batches(MaxCandidates)
  BY <1>2, BatchesIs, BatchesGrow, Zenon
<1>4. live + Batches(left) <= Batches(total) + Allowance
  BY Zenon DEF CountInv
<1> QED
  BY <1>1, <1>2, <1>3, <1>4, SMTT(30)

LEMMA LiveTasks ==
    ASSUME TypeOK, CountInv, NEW t \in 1..live
    PROVE  t \in Task
<1>1. live \in Nat
  BY Zenon DEF TypeOK
<1> QED
  BY <1>1, LiveIs, WaveAssumption, SMTT(30) DEF Task

\* The task of a place in the wave is a task.
LEMMA TaskOfIs ==
    ASSUME TypeOK, CountInv, PendingInv, NEW n \in 1..Len(pending)
    PROVE  TaskOf(n) \in Task /\ TaskOf(n) \in 1..live /\ n \in Worker
<1>1. Len(pending) \in Nat /\ live \in Nat /\ Len(pending) <= live /\ Len(pending) <= N
  BY SMTT(30) DEF TypeOK, PendingInv
<1>2. TaskOf(n) \in 1..live /\ n \in Worker
  BY <1>1, WaveAssumption, SMTT(30) DEF TaskOf, Worker
<1> QED
  BY <1>1, <1>2, LiveIs, WaveAssumption, SMTT(30) DEF Task

LEMMA HoldsKept ==
    ASSUME NEW w \in Worker, NEW s, Holds(w, s),
           wave' = wave, TaskOf(w)' = TaskOf(w), Len(pending') = Len(pending),
           offer'[w] = offer[w], published'[w] = published[w], verifier'[w] = verifier[w],
           w <= Len(pending) \/ s # "Offer" => runs'[TaskOf(w)] = runs[TaskOf(w)],
           s \in {"Offer", "Publish", "Run", "Done"}
    PROVE  Holds(w, s)'
<1>1. Initial' = Initial
  BY Zenon DEF Initial
<1>2. CASE s = "Offer"
  BY <1>1, <1>2, Zenon DEF Holds
<1>3. CASE s = "Publish"
  BY <1>1, <1>3, Zenon DEF Holds
<1>4. CASE s = "Run"
  BY <1>1, <1>4, Zenon DEF Holds
<1>5. CASE s = "Done"
  BY <1>1, <1>5, Zenon DEF Holds
<1> QED
  BY <1>2, <1>3, <1>4, <1>5, Zenon

LEMMA BusyKept ==
    ASSUME NEW w \in Worker, Busy(w), stage \in Stages,
           wave' = wave, stage' = stage, TaskOf(w)' = TaskOf(w), Len(pending') = Len(pending),
           offer'[w] = offer[w], published'[w] = published[w], verifier'[w] = verifier[w],
           runs'[TaskOf(w)] = runs[TaskOf(w)],
           wpc'[w] = wpc[w], request'[w] = request[w], out'[w] = out[w],
           phase[TaskOf(w)] \in Active => phase'[TaskOf(w)] \in Active
    PROVE  Busy(w)'
<1>1. /\ stage \in {"Offer", "Publish", "Run", "Done"}
      /\ Following \in {"Offer", "Publish", "Run", "Done"} /\ Following' = Following
      /\ Initial' = Initial /\ Answer' = Answer
  BY Zenon DEF Stages, Following, Initial, Answer
<1>2. Holds(w, stage) => Holds(w, stage)'
  BY <1>1, HoldsKept, Zenon
<1>3. Holds(w, Following) => Holds(w, Following)'
  BY <1>1, HoldsKept, Zenon
<1>4. Asked(w) => Asked(w)'
  BY <1>2, Zenon DEF Asked
<1>5. Computes(w) => Computes(w)'
  BY <1>1, Zenon DEF Computes
<1>6. Answers(w) => Answers(w)'
  BY <1>1, <1>3, Zenon DEF Answers, Completion
<1>7. Gone(w) => Gone(w)'
  BY Zenon DEF Gone
<1> QED
  BY <1>4, <1>5, <1>6, <1>7, Zenon DEF Busy

--------------------------------------------------------------------------------
(* Steps of a worker. *)

\* A worker that has been asked and has not gone neither rests nor has been heard.
LEMMA BusyIs ==
    ASSUME NEW w \in Worker, Busy(w), wpc[w] # "exited"
    PROVE  /\ \A s : ~Rests(w, s)
           /\ ~Answered(w)
           /\ w <= Len(pending)
<1>1. request[w] # <<>> \/ wpc[w] \in {"compute", "send"}
  BY SMTT(30) DEF Busy, Asked, Computes, Answers, Gone
<1> QED
  BY <1>1, Zenon DEF Busy, Rests, Answered

\* A worker takes a step only if it has been asked, or once the pool is taken down.
LEMMA ActsWhenBusy ==
    ASSUME IInv, NEW w \in Worker, wpc[w] # "exited",
           request[w] # <<>> \/ wpc[w] \in {"compute", "send"} \/ senders # TRUE \/ receiver # TRUE
    PROVE  /\ pc \in Driving => Busy(w)
           /\ pc \in Leaving => Busy(w) \/ (wpc[w] = "recv" /\ request[w] = <<>>)
           /\ pc \in Driving \cup Leaving
           /\ why # "ok"
<1>1. pc \in Driving \cup Leaving \cup Joined
  BY Zenon DEF IInv, TypeOK
<1>2. WorkerInv
  BY Zenon DEF IInv
<1>3. pc \notin Joined /\ why # "ok"
  BY <1>2, Zenon DEF WorkerInv, Gone, IInv, EndInv, Succeeded
<1>4. pc \in Leaving => Busy(w) \/ (wpc[w] = "recv" /\ request[w] = <<>>)
  BY <1>2, Zenon DEF WorkerInv
<1>5. ASSUME pc \in Driving PROVE Busy(w)
  <2>1. request[w] # <<>> \/ wpc[w] \in {"compute", "send"}
    BY <1>5, Zenon DEF IInv, CountInv
  <2>2. \A s : ~Rests(w, s)
    BY <2>1, Zenon DEF Rests
  <2>3. ~Answered(w)
    BY <2>1, Zenon DEF Answered
  <2> QED
    BY <1>2, <1>5, <2>2, <2>3, Zenon DEF WorkerInv, Driving
<1> QED
  BY <1>1, <1>3, <1>4, <1>5, Zenon

LEMMA WorkerStep ==
    ASSUME IInv, NEW w \in Worker, wpc[w] # "exited", pc \in Driving \cup Leaving, why # "ok",
           UNCHANGED <<pc, why, coordinator, producer, phase, senders, receiver>>,
           wpc' \in [Worker -> {"recv", "compute", "send", "exited"}],
           FunctionOn(request', Worker), FunctionOn(out', Worker),
           FunctionOn(offer', Worker), FunctionOn(published', Worker), FunctionOn(verifier', Worker),
           runs' \in [Task -> 0..1],
           \A v \in Worker : v # w =>
               /\ wpc'[v] = wpc[v] /\ request'[v] = request[v] /\ out'[v] = out[v]
               /\ offer'[v] = offer[v] /\ published'[v] = published[v] /\ verifier'[v] = verifier[v],
           \A t \in Task : runs'[t] = runs[t] \/ (w <= Len(pending) /\ t = TaskOf(w)),
           \/ Busy(w) /\ Busy(w)'
           \/ pc \in Leaving /\ wpc'[w] \in {"recv", "exited"} /\ request'[w] = <<>>
    PROVE  IInv'
<1> USE WaveAssumption
<1>0. /\ TypeOK /\ CountInv /\ PendingInv /\ PhaseInv /\ ReceivedInv /\ WorkerInv /\ EndInv
      /\ pc' = pc /\ why' = why /\ wave' = wave /\ stage' = stage /\ i' = i /\ pending' = pending
      /\ expected' = expected /\ received' = received /\ live' = live /\ sealed' = sealed
      /\ cap' = cap /\ total' = total /\ left' = left /\ summary' = summary /\ phase' = phase
      /\ senders' = senders /\ receiver' = receiver
  BY Zenon DEF IInv, coordinator, producer
<1>1. TypeOK'
  BY <1>0, Zenon DEF TypeOK
<1>2. CountInv'
  BY <1>0, Zenon DEF CountInv, Allowance
<1>3. PendingInv' /\ \A v : TaskOf(v)' = TaskOf(v)
  BY <1>0, Zenon DEF PendingInv, TaskOf
<1>4. Len(pending) \in Nat /\ live \in Nat /\ Len(pending) <= live
  BY <1>0, SMTT(30) DEF TypeOK, PendingInv
<1>5. PhaseInv'
  <2>1. ASSUME NEW t \in Task, t > live PROVE phase'[t] = "Absent" /\ runs'[t] = 0
    <3>1. w <= Len(pending) => t # TaskOf(w)
      BY <1>4, <2>1, SMTT(30) DEF TaskOf, Worker, Task
    <3> QED
      BY <1>0, <2>1, <3>1, SMTT(30) DEF PhaseInv
  <2>2. ASSUME pc \in Driving, NEW t \in 1..(live - Len(pending))
        PROVE  /\ phase'[t] = "ResultSealed" /\ runs'[t] = 1
               /\ \E m \in 1..Len(sealed) : sealed[m] = t
    <3>1. t # TaskOf(w) /\ t \in Task
      BY <1>0, <1>4, <2>2, LiveIs, SMTT(30) DEF TaskOf, Worker, Task
    <3> QED
      BY <1>0, <2>2, <3>1, SMTT(30) DEF PhaseInv
  <2>3. After' = After /\ Before' = Before
    BY <1>0, Zenon DEF After, Before
  <2> QED
    BY <1>0, <1>3, <2>1, <2>2, <2>3, SMTT(30) DEF PhaseInv
<1>6. ReceivedInv'
  <2>1. Wave' = Wave
    BY <1>0, <1>3, Zenon DEF Wave
  <2> QED
    BY <1>0, <2>1, SMTT(30) DEF ReceivedInv
<1>7. WorkerInv'
  <2> SUFFICES ASSUME NEW v \in Worker
               PROVE  /\ pc \in {"spawn", "reserve", "prepare", "fill"} => Rests(v, "Offer")'
                      /\ pc \in {"journal", "send"} =>
                            IF v < i THEN Busy(v)'
                                     ELSE Rests(v, IF v <= Len(pending) THEN stage ELSE "Offer")'
                      /\ pc \in {"collect", "seal"} =>
                            IF v <= Len(pending)
                            THEN IF TaskOf(v) \in expected THEN Busy(v)' ELSE Answered(v)'
                            ELSE Rests(v, "Offer")'
                      /\ pc \in Leaving => Busy(v)' \/ (wpc'[v] \in {"recv", "exited"} /\ request'[v] = <<>>)
    BY <1>0, <1>3, Zenon DEF WorkerInv, Joined, Driving, Leaving
  <2>1. CASE v = w
    <3>1. CASE Busy(w) /\ Busy(w)'
      <4>1. (\A s : ~Rests(w, s)) /\ ~Answered(w)
        BY <3>1, BusyIs, Zenon
      <4> QED
        BY <1>0, <2>1, <3>1, <4>1, Zenon DEF WorkerInv
    <3>2. CASE pc \in Leaving /\ wpc'[w] \in {"recv", "exited"} /\ request'[w] = <<>>
      BY <2>1, <3>2, Zenon DEF Leaving
    <3> QED
      BY <3>1, <3>2, Zenon
  <2>2. CASE v # w
    <3>1. /\ wpc'[v] = wpc[v] /\ request'[v] = request[v] /\ out'[v] = out[v]
          /\ offer'[v] = offer[v] /\ published'[v] = published[v] /\ verifier'[v] = verifier[v]
          /\ wave' = wave /\ stage' = stage /\ TaskOf(v)' = TaskOf(v) /\ Len(pending') = Len(pending)
          /\ stage \in Stages
      BY <2>2, <1>0, <1>3, Zenon DEF TypeOK
    <3>2. v <= Len(pending) => runs'[TaskOf(v)] = runs[TaskOf(v)]
      <4> SUFFICES ASSUME v <= Len(pending) PROVE runs'[TaskOf(v)] = runs[TaskOf(v)]
        BY Zenon
      <4>1. v \in 1..Len(pending)
        BY <1>4, SMTT(30) DEF Worker
      <4>2. TaskOf(v) \in Task
        BY <1>0, <4>1, TaskOfIs, Zenon
      <4>3. TaskOf(v) # TaskOf(w)
        BY <1>4, <2>2, SMTT(30) DEF TaskOf, Worker
      <4> QED
        BY <4>2, <4>3, Zenon
    <3>3. ASSUME NEW s \in {"Offer", "Publish", "Run", "Done"}, Holds(v, s), s # "Offer" => v <= Len(pending)
          PROVE  Holds(v, s)'
      BY <3>1, <3>2, <3>3, HoldsKept, Zenon
    <3>4. ASSUME NEW s \in {"Offer", "Publish", "Run", "Done"}, Rests(v, s), s # "Offer" => v <= Len(pending)
          PROVE  Rests(v, s)'
      BY <3>1, <3>3, <3>4, Zenon DEF Rests
    <3>5. Busy(v) => Busy(v)'
      <4>1. Busy(v) => v <= Len(pending)
        BY Zenon DEF Busy
      <4> QED
        BY <1>0, <3>1, <3>2, <4>1, BusyKept, Zenon
    <3>6. v <= Len(pending) /\ Answered(v) => Answered(v)'
      <4>1. Following \in {"Offer", "Publish", "Run", "Done"} /\ Following' = Following
        BY <3>1, Zenon DEF Following, Stages
      <4>2. v <= Len(pending) /\ Holds(v, Following) => Holds(v, Following)'
        BY <3>3, <4>1, Zenon
      <4> QED
        BY <3>1, <4>1, <4>2, Zenon DEF Answered
    <3>7. Rests(v, "Offer") => Rests(v, "Offer")'
      BY <3>4, Zenon
    <3>8. v <= Len(pending) /\ Rests(v, stage) => Rests(v, stage)'
      BY <3>1, <3>4, Zenon DEF Stages
    <3> QED
      BY <1>0, <3>1, <3>5, <3>6, <3>7, <3>8, Zenon DEF WorkerInv
  <2> QED
    BY <2>1, <2>2, Zenon
<1>8. EndInv'
  BY <1>0, Zenon DEF EndInv, Driving, Leaving
<1> QED
  BY <1>1, <1>2, <1>3, <1>5, <1>6, <1>7, <1>8, Zenon DEF IInv

\* A request that a worker takes is the one of the current stage.
LEMMA TakeIs ==
    ASSUME IInv, NEW w \in Worker, NEW kind, take(w, kind)
    PROVE  /\ Asked(w) /\ Busy(w) /\ w <= Len(pending) /\ stage = kind /\ wpc[w] = "recv"
           /\ Head(request[w]).task = TaskOf(w) /\ Head(request[w]).op = wave
           /\ request' = [request EXCEPT ![w] = <<>>]
           /\ UNCHANGED <<pc, why, coordinator, producer, phase, senders, receiver, panicked, verifier>>
           /\ pc \in Driving \cup Leaving /\ why # "ok" /\ TaskOf(w) \in Task
           /\ TaskOf(w)' = TaskOf(w) /\ pending' = pending /\ wave' = wave /\ stage' = stage
<1>1. wpc[w] = "recv" /\ request[w] # <<>> /\ Head(request[w]).kind = kind
  BY Zenon DEF take
<1>2. Busy(w) /\ pc \in Driving \cup Leaving /\ why # "ok"
  BY <1>1, ActsWhenBusy, Zenon
<1>3. Asked(w) /\ w <= Len(pending)
  BY <1>1, <1>2, Zenon DEF Busy, Computes, Answers, Gone
<1>4. request[w] = <<[kind |-> stage, task |-> TaskOf(w), op |-> wave]>>
  BY <1>3, Zenon DEF Asked
<1> DEFINE r == [kind |-> stage, task |-> TaskOf(w), op |-> wave]
<1>5. r.kind = stage /\ r.task = TaskOf(w) /\ r.op = wave
  BY Zenon
<1>6. Head(request[w]) = r /\ Tail(request[w]) = <<>>
  <2> HIDE DEF r
  <2>1. request[w] = <<r>>
    BY <1>4, Zenon DEF r
  <2> QED
    BY <2>1, SMTT(30)
<1>7. TaskOf(w) \in Task
  <2>1. Len(pending) \in Nat /\ TypeOK /\ CountInv /\ PendingInv
    BY SMTT(30) DEF IInv, TypeOK
  <2>2. w \in 1..Len(pending)
    BY <1>3, <2>1, WaveAssumption, SMTT(30) DEF Worker
  <2> QED
    BY <2>1, <2>2, TaskOfIs, Zenon
<1>8. request' = [request EXCEPT ![w] = <<>>]
  BY <1>6, Zenon DEF take
<1>9. /\ UNCHANGED <<pc, why, coordinator, producer, phase, senders, receiver, panicked, verifier>>
      /\ TaskOf(w)' = TaskOf(w) /\ pending' = pending /\ wave' = wave /\ stage' = stage
  BY Zenon DEF take, coordinator, TaskOf
<1> HIDE DEF r
<1> QED
  BY <1>1, <1>2, <1>3, <1>5, <1>6, <1>7, <1>8, <1>9, Zenon

LEMMA OfferStep ==
    ASSUME IInv, NEW w \in Worker, worker_offer(w)
    PROVE  IInv'
<1>1. take(w, "Offer")
  BY Zenon DEF worker_offer
<1> DEFINE n == TaskOf(w)
           r == Head(request[w])
<1>2. /\ Asked(w) /\ Busy(w) /\ w <= Len(pending) /\ stage = "Offer" /\ r.task = n /\ wpc[w] = "recv"
      /\ request' = [request EXCEPT ![w] = <<>>]
      /\ UNCHANGED <<pc, why, coordinator, producer, phase, senders, receiver, panicked, verifier>>
      /\ pc \in Driving \cup Leaving /\ why # "ok" /\ n \in Task
      /\ TaskOf(w)' = n /\ pending' = pending /\ wave' = wave /\ stage' = stage
  BY <1>1, TakeIs, SMTT(30)
<1>3. /\ offer[w] = 0 /\ published[w] = <<>> /\ verifier[w] = Initial /\ runs[n] = 0
      /\ verifier[w] # "finished"
  BY <1>2, Zenon DEF Asked, Holds, Initial
<1>4. /\ offer' = [offer EXCEPT ![w] = n] /\ out' = [out EXCEPT ![w] = Completion(n, "OfferAccepted")]
      /\ wpc' = [wpc EXCEPT ![w] = "send"] /\ published' = published /\ runs' = runs
      /\ verifier' = verifier
  BY <1>2, <1>3, Zenon DEF worker_offer
<1>5. /\ FunctionOn(request, Worker) /\ FunctionOn(out, Worker)
      /\ FunctionOn(offer, Worker) /\ FunctionOn(published, Worker) /\ FunctionOn(verifier, Worker)
      /\ wpc \in [Worker -> {"recv", "compute", "send", "exited"}] /\ runs \in [Task -> 0..1]
  BY Zenon DEF IInv, TypeOK
<1> HIDE DEF n, r
<1>6. /\ FunctionOn(request', Worker) /\ request'[w] = <<>>
      /\ \A v \in Worker : v # w => request'[v] = request[v]
  BY <1>2, <1>5, Zenon DEF FunctionOn
<1>7. /\ FunctionOn(offer', Worker) /\ offer'[w] = n
      /\ \A v \in Worker : v # w => offer'[v] = offer[v]
  BY <1>4, <1>5, Zenon DEF FunctionOn
<1>8. /\ FunctionOn(out', Worker) /\ out'[w] = Completion(n, "OfferAccepted")
      /\ \A v \in Worker : v # w => out'[v] = out[v]
  BY <1>4, <1>5, Zenon DEF FunctionOn
<1>9. /\ wpc' \in [Worker -> {"recv", "compute", "send", "exited"}] /\ wpc'[w] = "send"
      /\ \A v \in Worker : v # w => wpc'[v] = wpc[v]
  BY <1>4, <1>5, SMTT(30)
<1>10. Busy(w)'
  <2>1. Following' = "Publish" /\ Answer[stage]' = "OfferAccepted"
    BY <1>2, SMTT(30) DEF Following, Answer
  <2>2. Holds(w, "Publish")'
    BY <1>2, <1>3, <1>4, <1>7, Zenon DEF Holds, Initial, n
  <2>3. Answers(w)'
    BY <1>2, <1>6, <1>8, <1>9, <2>1, <2>2, Zenon DEF Answers, n, Completion
  <2> QED
    BY <1>2, <2>3, Zenon DEF Busy
<1>11. \A v \in Worker : v # w =>
           /\ wpc'[v] = wpc[v] /\ request'[v] = request[v] /\ out'[v] = out[v]
           /\ offer'[v] = offer[v] /\ published'[v] = published[v] /\ verifier'[v] = verifier[v]
  BY <1>4, <1>6, <1>7, <1>8, <1>9, Zenon
<1>12. \A t \in Task : runs'[t] = runs[t] \/ (w <= Len(pending) /\ t = TaskOf(w))
  BY <1>4, Zenon
<1>13. /\ wpc[w] # "exited" /\ FunctionOn(published', Worker) /\ FunctionOn(verifier', Worker)
       /\ runs' \in [Task -> 0..1]
  BY <1>2, <1>4, <1>5, Zenon
<1> QED
  BY <1>2, <1>6, <1>7, <1>8, <1>9, <1>10, <1>11, <1>12, <1>13, WorkerStep, Zenon

LEMMA PublishStep ==
    ASSUME IInv, NEW w \in Worker, worker_publish(w)
    PROVE  IInv'
<1>1. take(w, "Publish")
  BY Zenon DEF worker_publish
<1> DEFINE n == TaskOf(w)
           r == Head(request[w])
<1>2. /\ Asked(w) /\ Busy(w) /\ w <= Len(pending) /\ stage = "Publish" /\ r.task = n /\ r.op = wave
      /\ wpc[w] = "recv" /\ request' = [request EXCEPT ![w] = <<>>]
      /\ UNCHANGED <<pc, why, coordinator, producer, phase, senders, receiver, panicked, verifier>>
      /\ pc \in Driving \cup Leaving /\ why # "ok" /\ n \in Task
      /\ TaskOf(w)' = n /\ pending' = pending /\ wave' = wave /\ stage' = stage
  BY <1>1, TakeIs, SMTT(30)
<1>3. offer[w] = n /\ verifier[w] = Initial /\ runs[n] = 0
  BY <1>2, Zenon DEF Asked, Holds
<1>4. /\ wpc' = [wpc EXCEPT ![w] = "send"] /\ offer' = offer /\ runs' = runs /\ verifier' = verifier
      /\ \/ /\ published' = [published EXCEPT ![w] = <<n, wave>>]
            /\ out' = [out EXCEPT ![w] = Completion(n, "Started")]
         \/ published' = published /\ out' = [out EXCEPT ![w] = Failure(n)]
  BY <1>2, Zenon DEF worker_publish
<1>5. /\ FunctionOn(request, Worker) /\ FunctionOn(out, Worker)
      /\ FunctionOn(offer, Worker) /\ FunctionOn(published, Worker) /\ FunctionOn(verifier, Worker)
      /\ wpc \in [Worker -> {"recv", "compute", "send", "exited"}] /\ runs \in [Task -> 0..1]
  BY Zenon DEF IInv, TypeOK
<1> HIDE DEF n, r
<1>6. /\ FunctionOn(request', Worker) /\ request'[w] = <<>>
      /\ \A v \in Worker : v # w => request'[v] = request[v]
  BY <1>2, <1>5, Zenon DEF FunctionOn
<1>7. /\ FunctionOn(published', Worker) /\ FunctionOn(out', Worker)
      /\ \A v \in Worker : v # w => published'[v] = published[v] /\ out'[v] = out[v]
      /\ \/ published'[w] = <<n, wave>> /\ out'[w] = Completion(n, "Started")
         \/ out'[w] = Failure(n)
  <2>1. CASE /\ published' = [published EXCEPT ![w] = <<n, wave>>]
             /\ out' = [out EXCEPT ![w] = Completion(n, "Started")]
    BY <1>5, <2>1, Zenon DEF FunctionOn
  <2>2. CASE published' = published /\ out' = [out EXCEPT ![w] = Failure(n)]
    BY <1>5, <2>2, Zenon DEF FunctionOn
  <2> QED
    BY <1>4, <2>1, <2>2, Zenon
<1>9. /\ wpc' \in [Worker -> {"recv", "compute", "send", "exited"}] /\ wpc'[w] = "send"
      /\ \A v \in Worker : v # w => wpc'[v] = wpc[v]
  BY <1>4, <1>5, SMTT(30)
<1>10. Busy(w)'
  <2>1. Following' = "Run" /\ Answer[stage]' = "Started"
    BY <1>2, SMTT(30) DEF Following, Answer
  <2>2. published'[w] = <<n, wave>> => Holds(w, "Run")'
    BY <1>2, <1>3, <1>4, Zenon DEF Holds, Initial, n
  <2>3. Answers(w)'
    BY <1>2, <1>6, <1>7, <1>9, <2>1, <2>2, SMTT(30) DEF Answers, n, Completion, Failure
  <2> QED
    BY <1>2, <2>3, Zenon DEF Busy
<1>11. \A v \in Worker : v # w =>
           /\ wpc'[v] = wpc[v] /\ request'[v] = request[v] /\ out'[v] = out[v]
           /\ offer'[v] = offer[v] /\ published'[v] = published[v] /\ verifier'[v] = verifier[v]
  BY <1>4, <1>6, <1>7, <1>9, Zenon
<1>12. \A t \in Task : runs'[t] = runs[t] \/ (w <= Len(pending) /\ t = TaskOf(w))
  BY <1>4, Zenon
<1>13. /\ wpc[w] # "exited" /\ FunctionOn(offer', Worker) /\ FunctionOn(verifier', Worker)
       /\ runs' \in [Task -> 0..1]
  BY <1>2, <1>4, <1>5, Zenon
<1> QED
  BY <1>2, <1>6, <1>7, <1>9, <1>10, <1>11, <1>12, <1>13, WorkerStep, Zenon

LEMMA RunStep ==
    ASSUME IInv, NEW w \in Worker, worker_run(w)
    PROVE  IInv'
<1>1. take(w, "Run")
  BY Zenon DEF worker_run
<1> DEFINE n == TaskOf(w)
           r == Head(request[w])
<1>2. /\ Asked(w) /\ Busy(w) /\ w <= Len(pending) /\ stage = "Run" /\ r.task = n /\ wpc[w] = "recv"
      /\ request' = [request EXCEPT ![w] = <<>>]
      /\ UNCHANGED <<pc, why, coordinator, producer, phase, senders, receiver, panicked, verifier>>
      /\ pc \in Driving \cup Leaving /\ why # "ok" /\ n \in Task
      /\ TaskOf(w)' = n /\ pending' = pending /\ wave' = wave /\ stage' = stage
  BY <1>1, TakeIs, SMTT(30)
<1>3. published[w] = <<n, wave>> /\ verifier[w] = Initial /\ runs[n] = 0 /\ phase[n] \in Active
  BY <1>2, Zenon DEF Asked, Holds
<1>4. published[w] # <<>> /\ published[w][1] = r.task
  BY <1>2, <1>3, SMTT(30)
<1>5. /\ wpc' = [wpc EXCEPT ![w] = "compute"] /\ offer' = [offer EXCEPT ![w] = 0]
      /\ runs' = [runs EXCEPT ![n] = @ + 1] /\ published' = published /\ out' = out /\ verifier' = verifier
      /\ phase' = phase
  BY <1>2, <1>4, Zenon DEF worker_run
<1>6. /\ FunctionOn(request, Worker) /\ FunctionOn(out, Worker)
      /\ FunctionOn(offer, Worker) /\ FunctionOn(published, Worker) /\ FunctionOn(verifier, Worker)
      /\ wpc \in [Worker -> {"recv", "compute", "send", "exited"}] /\ runs \in [Task -> 0..1]
  BY Zenon DEF IInv, TypeOK
<1> HIDE DEF n, r
<1>7. /\ FunctionOn(request', Worker) /\ request'[w] = <<>>
      /\ FunctionOn(offer', Worker) /\ offer'[w] = 0
      /\ \A v \in Worker : v # w => request'[v] = request[v] /\ offer'[v] = offer[v]
  BY <1>2, <1>5, <1>6, Zenon DEF FunctionOn
<1>8. /\ wpc' \in [Worker -> {"recv", "compute", "send", "exited"}] /\ wpc'[w] = "compute"
      /\ \A v \in Worker : v # w => wpc'[v] = wpc[v]
  BY <1>5, <1>6, SMTT(30)
<1>9. runs' \in [Task -> 0..1] /\ runs'[n] = 1 /\ \A t \in Task : t # n => runs'[t] = runs[t]
  BY <1>2, <1>3, <1>5, <1>6, SMTT(30)
<1>10. Busy(w)'
  <2>1. Computes(w)'
    BY <1>2, <1>3, <1>5, <1>7, <1>8, <1>9, Zenon DEF Computes, Initial, n
  <2> QED
    BY <1>2, <2>1, Zenon DEF Busy
<1>11. \A v \in Worker : v # w =>
           /\ wpc'[v] = wpc[v] /\ request'[v] = request[v] /\ out'[v] = out[v]
           /\ offer'[v] = offer[v] /\ published'[v] = published[v] /\ verifier'[v] = verifier[v]
  BY <1>5, <1>7, <1>8, Zenon
<1>12. \A t \in Task : runs'[t] = runs[t] \/ (w <= Len(pending) /\ t = TaskOf(w))
  BY <1>2, <1>9, Zenon DEF n
<1>13. /\ wpc[w] # "exited" /\ FunctionOn(out', Worker) /\ FunctionOn(published', Worker)
       /\ FunctionOn(verifier', Worker)
  BY <1>2, <1>5, <1>6, Zenon
<1> QED
  BY <1>2, <1>7, <1>8, <1>9, <1>10, <1>11, <1>12, <1>13, WorkerStep, Zenon

LEMMA ComputeStep ==
    ASSUME IInv, NEW w \in Worker, compute(w)
    PROVE  IInv'
<1> DEFINE n == TaskOf(w)
           done == IF wave = "Finish" THEN "finished" ELSE "ready"
<1>1. wpc[w] = "compute"
  BY Zenon DEF compute
<1>2. Busy(w) /\ pc \in Driving \cup Leaving /\ why # "ok"
  BY <1>1, ActsWhenBusy, Zenon
<1>3. Computes(w) /\ w <= Len(pending)
  BY <1>1, <1>2, Zenon DEF Busy, Asked, Answers, Gone
<1>4. /\ published[w] = <<n, wave>> /\ offer[w] = 0 /\ request[w] = <<>> /\ stage = "Run" /\ runs[n] = 1
      /\ published[w][1] = n /\ published[w][2] = wave
  BY <1>3, SMTT(30) DEF Computes
<1>5. /\ published' = [published EXCEPT ![w] = <<>>] /\ verifier' = [verifier EXCEPT ![w] = done]
      /\ UNCHANGED <<pc, why, coordinator, producer, phase, channels, offer, runs>>
      /\ \/ out' = [out EXCEPT ![w] = Completion(n, wave)] /\ wpc' = [wpc EXCEPT ![w] = "send"]
         \/ out' = [out EXCEPT ![w] = Failure(n)] /\ wpc' = [wpc EXCEPT ![w] = "send"]
         \/ out' = out /\ wpc' = [wpc EXCEPT ![w] = "exited"]
  BY <1>4, Zenon DEF compute
<1>6. /\ FunctionOn(request, Worker) /\ FunctionOn(out, Worker)
      /\ FunctionOn(offer, Worker) /\ FunctionOn(published, Worker) /\ FunctionOn(verifier, Worker)
      /\ wpc \in [Worker -> {"recv", "compute", "send", "exited"}] /\ runs \in [Task -> 0..1]
  BY Zenon DEF IInv, TypeOK
<1>7. /\ request' = request /\ offer' = offer /\ runs' = runs /\ wave' = wave /\ stage' = stage
      /\ pending' = pending /\ TaskOf(w)' = n
      /\ UNCHANGED <<pc, why, coordinator, producer, phase, senders, receiver>>
  BY <1>5, Zenon DEF channels, coordinator, TaskOf
<1> HIDE DEF n, done
<1>8. /\ FunctionOn(published', Worker) /\ published'[w] = <<>>
      /\ FunctionOn(verifier', Worker) /\ verifier'[w] = done
      /\ \A v \in Worker : v # w => published'[v] = published[v] /\ verifier'[v] = verifier[v]
  BY <1>5, <1>6, Zenon DEF FunctionOn
<1>9. /\ FunctionOn(out', Worker) /\ wpc' \in [Worker -> {"recv", "compute", "send", "exited"}]
      /\ \A v \in Worker : v # w => out'[v] = out[v] /\ wpc'[v] = wpc[v]
      /\ \/ out'[w] = Completion(n, wave) /\ wpc'[w] = "send"
         \/ out'[w] = Failure(n) /\ wpc'[w] = "send"
         \/ wpc'[w] = "exited"
  <2>1. CASE out' = [out EXCEPT ![w] = Completion(n, wave)] /\ wpc' = [wpc EXCEPT ![w] = "send"]
    BY <1>6, <2>1, Zenon DEF FunctionOn
  <2>2. CASE out' = [out EXCEPT ![w] = Failure(n)] /\ wpc' = [wpc EXCEPT ![w] = "send"]
    BY <1>6, <2>2, Zenon DEF FunctionOn
  <2>3. CASE out' = out /\ wpc' = [wpc EXCEPT ![w] = "exited"]
    BY <1>6, <2>3, Zenon DEF FunctionOn
  <2> QED
    BY <1>5, <2>1, <2>2, <2>3, Zenon
<1>10. Busy(w)'
  <2>1. Following' = "Done" /\ Answer[stage]' = wave
    BY <1>4, <1>7, SMTT(30) DEF Following, Answer
  <2>2. Holds(w, "Done")'
    BY <1>4, <1>7, <1>8, Zenon DEF Holds, n, done
  <2>3. CASE out'[w] = Completion(n, wave) /\ wpc'[w] = "send"
    BY <1>3, <1>4, <1>7, <2>1, <2>2, <2>3, Zenon DEF Busy, Answers, n, Completion
  <2>4. CASE out'[w] = Failure(n) /\ wpc'[w] = "send"
    BY <1>3, <1>4, <1>7, <2>4, SMTT(30) DEF Busy, Answers, Failure
  <2>5. CASE wpc'[w] = "exited"
    BY <1>3, <1>4, <1>7, <2>5, Zenon DEF Busy, Gone
  <2> QED
    BY <1>9, <2>3, <2>4, <2>5, Zenon
<1>11. \A v \in Worker : v # w =>
           /\ wpc'[v] = wpc[v] /\ request'[v] = request[v] /\ out'[v] = out[v]
           /\ offer'[v] = offer[v] /\ published'[v] = published[v] /\ verifier'[v] = verifier[v]
  BY <1>7, <1>8, <1>9, Zenon
<1>12. \A t \in Task : runs'[t] = runs[t] \/ (w <= Len(pending) /\ t = TaskOf(w))
  BY <1>7, Zenon
<1>13. /\ wpc[w] # "exited" /\ FunctionOn(request', Worker) /\ FunctionOn(offer', Worker)
       /\ runs' \in [Task -> 0..1]
  BY <1>1, <1>6, <1>7, Zenon
<1> QED
  BY <1>2, <1>7, <1>8, <1>9, <1>10, <1>11, <1>12, <1>13, WorkerStep, Zenon

LEMMA ExitStep ==
    ASSUME IInv, NEW w \in Worker, worker_exit(w)
    PROVE  IInv'
<1>1. \/ wpc[w] = "recv" /\ request[w] = <<>> /\ senders # TRUE
      \/ wpc[w] = "send" /\ receiver # TRUE
  BY Zenon DEF worker_exit
<1>2. pc \in Leaving /\ why # "ok" /\ wpc[w] # "exited"
  BY <1>1, ActsWhenBusy, Zenon DEF IInv, CountInv
<1>3. request[w] = <<>>
  <2>1. Busy(w) \/ (wpc[w] = "recv" /\ request[w] = <<>>)
    BY <1>1, <1>2, ActsWhenBusy, Zenon
  <2> QED
    BY <1>1, <2>1, Zenon DEF Busy, Asked, Computes, Answers, Gone
<1>4. /\ FunctionOn(request, Worker) /\ FunctionOn(out, Worker)
      /\ FunctionOn(offer, Worker) /\ FunctionOn(published, Worker) /\ FunctionOn(verifier, Worker)
      /\ wpc \in [Worker -> {"recv", "compute", "send", "exited"}] /\ runs \in [Task -> 0..1]
  BY Zenon DEF IInv, TypeOK
<1>5. /\ wpc' = [wpc EXCEPT ![w] = "exited"] /\ request' = request /\ offer' = offer /\ runs' = runs
      /\ published' = published /\ verifier' = verifier /\ out' = out
      /\ UNCHANGED <<pc, why, coordinator, producer, phase, senders, receiver>>
  BY Zenon DEF worker_exit, channels
<1>6. /\ wpc' \in [Worker -> {"recv", "compute", "send", "exited"}] /\ wpc'[w] = "exited"
      /\ \A v \in Worker : v # w => wpc'[v] = wpc[v]
  BY <1>4, <1>5, SMTT(30)
<1>7. \A v \in Worker : v # w =>
           /\ wpc'[v] = wpc[v] /\ request'[v] = request[v] /\ out'[v] = out[v]
           /\ offer'[v] = offer[v] /\ published'[v] = published[v] /\ verifier'[v] = verifier[v]
  BY <1>5, <1>6, Zenon
<1>8. \A t \in Task : runs'[t] = runs[t] \/ (w <= Len(pending) /\ t = TaskOf(w))
  BY <1>5, Zenon
<1>9. /\ FunctionOn(request', Worker) /\ FunctionOn(out', Worker)
      /\ FunctionOn(offer', Worker) /\ FunctionOn(published', Worker) /\ FunctionOn(verifier', Worker)
      /\ runs' \in [Task -> 0..1]
  BY <1>4, <1>5, Zenon
<1>10. pc \in Leaving /\ wpc'[w] \in {"recv", "exited"} /\ request'[w] = <<>>
  BY <1>2, <1>3, <1>5, <1>6, Zenon
<1> QED
  BY <1>2, <1>5, <1>6, <1>7, <1>8, <1>9, <1>10, WorkerStep, Zenon

--------------------------------------------------------------------------------
(* The drive ends without a result. *)

LEMMA LeaveStep ==
    ASSUME IInv, pc \in Driving, pc' = "drop_senders", why' # "ok",
           why' = "task_bound" => cap # 0 /\ total > cap,
           wave' = wave, stage' = stage, i' \in {i, 1}, pending' = pending, expected' = expected,
           received' = received, live' = live, sealed' = sealed, UNCHANGED producer,
           phase' \in [Task -> P!Phase \cup {"Absent"}],
           \A t \in Task : /\ t > live => phase'[t] = "Absent"
                           /\ phase'[t] \notin Applied
                           /\ phase[t] \in Active => phase'[t] \in Active,
           wpc' \in [Worker -> {"recv", "compute", "send", "exited"}],
           FunctionOn(request', Worker), FunctionOn(out', Worker),
           UNCHANGED <<offer, published, verifier, runs>>,
           \A v \in Worker : \/ wpc'[v] = wpc[v] /\ request'[v] = request[v] /\ out'[v] = out[v]
                             \/ wpc'[v] \in {"recv", "exited"} /\ request'[v] = <<>>
    PROVE  IInv'
<1> USE WaveAssumption
<1>0. /\ TypeOK /\ CountInv /\ PendingInv /\ PhaseInv /\ WorkerInv /\ EndInv
      /\ cap' = cap /\ total' = total /\ left' = left /\ summary' = summary
      /\ offer' = offer /\ published' = published /\ verifier' = verifier /\ runs' = runs
      /\ pc' \in Leaving /\ pc' \notin Driving /\ pc' \notin Joined
      /\ pc' \notin {"spawn", "reserve", "prepare", "fill", "journal", "send", "collect", "seal"}
      /\ pc' \notin {"merge", "apply", "complete", "done"}
  BY Zenon DEF IInv, producer, Leaving, Driving, Joined
<1>1. TypeOK'
  <2>1. i' \in Nat \ {0}
    BY <1>0, SMTT(30) DEF TypeOK
  <2> QED
    BY <1>0, <2>1, Zenon DEF TypeOK
<1>2. CountInv'
  <2>1. /\ total' = total /\ Batches(left)' = Batches(left) /\ Batches(total)' = Batches(total)
        /\ live \in Nat /\ left \in Nat /\ i \in Nat \ {0} /\ wave \in Waves
    BY <1>0, Zenon DEF Batches, TypeOK
  <2>2. Allowance <= Allowance' /\ Allowance \in Nat /\ Allowance' \in Nat /\ total \in Nat
    <3>1. Allowance \in Nat /\ total \in Nat
      BY <1>0, LiveIs, Zenon
    <3>2. pc = "prepare" => i <= N
      BY <1>0, Zenon DEF CountInv
    <3>3. Allowance <= Allowance' /\ Allowance' \in Nat
      BY <2>1, <3>2, SMTT(30) DEF Allowance, Waves
    <3> QED
      BY <3>1, <3>3, Zenon
  <2>3. Batches(left) \in Nat /\ Batches(total) \in Nat
    BY <2>1, <2>2, BatchesIs, Zenon
  <2>4. live + Batches(left) <= Batches(total) + Allowance
    BY <1>0, Zenon DEF CountInv
  <2>5. (live + Batches(left) <= Batches(total) + Allowance)'
    BY <2>1, <2>2, <2>3, <2>4, SMTT(30)
  <2> QED
    BY <1>0, <2>1, <2>5, Zenon DEF CountInv
<1>3. PendingInv' /\ \A v : TaskOf(v)' = TaskOf(v)
  BY <1>0, Zenon DEF PendingInv, TaskOf
<1>4. PhaseInv'
  <2>1. \A t \in Task : t > live' => phase'[t] = "Absent" /\ runs'[t] = 0
    BY <1>0, SMTT(30) DEF PhaseInv
  <2> QED
    BY <1>0, <2>1, Zenon DEF PhaseInv
<1>5. ReceivedInv'
  BY <1>0, Zenon DEF ReceivedInv
<1>6. WorkerInv'
  <2> SUFFICES ASSUME NEW v \in Worker
               PROVE  Busy(v)' \/ (wpc'[v] \in {"recv", "exited"} /\ request'[v] = <<>>)
    BY <1>0, Zenon DEF WorkerInv
  <2>1. CASE wpc'[v] \in {"recv", "exited"} /\ request'[v] = <<>>
    BY <2>1, Zenon
  <2>2. CASE wpc'[v] = wpc[v] /\ request'[v] = request[v] /\ out'[v] = out[v]
    <3>1. Busy(v) \/ (\E s : Rests(v, s)) \/ Answered(v)
      BY <1>0, Zenon DEF WorkerInv, Driving
    <3>2. CASE Busy(v)
      <4>1. v \in 1..Len(pending)
        BY <1>0, <3>2, SMTT(30) DEF Busy, Worker, TypeOK
      <4>2. TaskOf(v) \in Task
        BY <1>0, <4>1, TaskOfIs, Zenon
      <4>3. phase[TaskOf(v)] \in Active => phase'[TaskOf(v)] \in Active
        BY <4>2, Zenon
      <4>4. stage \in Stages /\ TaskOf(v)' = TaskOf(v) /\ Len(pending') = Len(pending)
        BY <1>0, <1>3, Zenon DEF TypeOK
      <4> QED
        BY <1>0, <2>2, <3>2, <4>3, <4>4, BusyKept, Zenon
    <3>3. CASE \E s : Rests(v, s)
      BY <2>2, <3>3, Zenon DEF Rests
    <3>4. CASE Answered(v)
      BY <2>2, <3>4, Zenon DEF Answered
    <3> QED
      BY <3>1, <3>2, <3>3, <3>4, Zenon
  <2> QED
    BY <2>1, <2>2, Zenon
<1>7. EndInv'
  BY <1>0, Zenon DEF EndInv
<1> QED
  BY <1>1, <1>2, <1>3, <1>4, <1>5, <1>6, <1>7, Zenon DEF IInv

--------------------------------------------------------------------------------
(* After the drive. *)

LEMMA DownStep ==
    ASSUME IInv, pc \in Leaving \cup Joined, pc' \in Leaving \cup Joined,
           why' = why, wave' = wave, stage' = stage, i' \in Nat \ {0}, pending' = pending,
           expected' = expected, received' = received, live' = live, sealed' = sealed,
           UNCHANGED producer, request' = request, UNCHANGED workers,
           phase' \in [Task -> P!Phase \cup {"Absent"}],
           \A t \in Task : t > live => phase'[t] = "Absent",
           pc' \in Leaving => pc \in Leaving /\ phase' = phase,
           pc \in Leaving /\ pc' \in Joined => \A w \in Worker : wpc[w] = "exited",
           EndInv'
    PROVE  IInv'
<1>0. /\ TypeOK /\ CountInv /\ PendingInv /\ PhaseInv /\ WorkerInv
      /\ cap' = cap /\ total' = total /\ left' = left /\ summary' = summary
      /\ offer' = offer /\ published' = published /\ verifier' = verifier /\ runs' = runs
      /\ wpc' = wpc /\ out' = out
      /\ pc' \notin Driving /\ pc \notin Driving
      /\ pc' \notin {"spawn", "reserve", "prepare", "fill", "journal", "send", "collect", "seal"}
      /\ pc \notin {"spawn", "reserve", "prepare", "fill", "journal", "send", "collect", "seal"}
      /\ Leaving \cap Joined = {}
  BY Zenon DEF IInv, producer, workers, Leaving, Driving, Joined
<1>1. TypeOK'
  BY <1>0, Zenon DEF TypeOK
<1>2. CountInv'
  <2>1. total' = total /\ Batches(left)' = Batches(left) /\ Batches(total)' = Batches(total)
    BY <1>0, Zenon DEF Batches
  <2>2. Allowance' = Allowance
    <3>1. wave \in Waves
      BY <1>0, Zenon DEF TypeOK
    <3> QED
      BY <1>0, <3>1, Zenon DEF Allowance, Waves
  <2>3. (live + Batches(left) <= Batches(total) + Allowance)'
    BY <1>0, <2>1, <2>2, Zenon DEF CountInv
  <2> QED
    BY <1>0, <2>1, <2>3, Zenon DEF CountInv
<1>3. PendingInv' /\ \A v : TaskOf(v)' = TaskOf(v)
  BY <1>0, Zenon DEF PendingInv, TaskOf
<1>4. PhaseInv'
  <2>1. \A t \in Task : t > live' => phase'[t] = "Absent" /\ runs'[t] = 0
    BY <1>0, Zenon DEF PhaseInv
  <2> QED
    BY <1>0, <2>1, Zenon DEF PhaseInv
<1>5. ReceivedInv'
  BY <1>0, Zenon DEF ReceivedInv
<1>6. WorkerInv'
  <2> SUFFICES ASSUME NEW v \in Worker
               PROVE  /\ pc' \in Leaving => Busy(v)' \/ (wpc[v] \in {"recv", "exited"} /\ request[v] = <<>>)
                      /\ pc' \in Joined => wpc[v] = "exited" /\ request[v] = <<>>
    BY <1>0, Zenon DEF WorkerInv, Gone
  <2>1. ASSUME pc' \in Leaving
        PROVE  Busy(v)' \/ (wpc[v] \in {"recv", "exited"} /\ request[v] = <<>>)
    <3>1. CASE Busy(v)
      <4>1. stage \in Stages /\ TaskOf(v)' = TaskOf(v) /\ Len(pending') = Len(pending) /\ phase' = phase
        BY <1>0, <1>3, <2>1, Zenon DEF TypeOK
      <4> QED
        BY <1>0, <3>1, <4>1, BusyKept, Zenon
    <3> QED
      BY <1>0, <2>1, <3>1, Zenon DEF WorkerInv
  <2>2. ASSUME pc' \in Joined PROVE wpc[v] = "exited" /\ request[v] = <<>>
    <3>1. CASE pc \in Joined
      BY <1>0, <3>1, Zenon DEF WorkerInv, Gone
    <3>2. CASE pc \in Leaving
      <4>1. wpc[v] = "exited"
        BY <2>2, <3>2, Zenon
      <4>2. Busy(v) \/ request[v] = <<>>
        BY <1>0, <3>2, Zenon DEF WorkerInv
      <4> QED
        BY <4>1, <4>2, Zenon DEF Busy, Asked, Computes, Answers, Gone
    <3> QED
      BY <3>1, <3>2, Zenon
  <2> QED
    BY <2>1, <2>2, Zenon
<1> QED
  BY <1>1, <1>2, <1>3, <1>4, <1>5, <1>6, Zenon DEF IInv

LEMMA DropStep ==
    ASSUME IInv, drop_senders \/ drop_receiver
    PROVE  IInv'
<1>1. /\ pc \in Leaving /\ pc' \in Leaving /\ why' = why /\ wave' = wave /\ stage' = stage /\ i' = i
      /\ pending' = pending /\ expected' = expected /\ received' = received /\ live' = live
      /\ sealed' = sealed /\ UNCHANGED producer /\ request' = request /\ UNCHANGED workers /\ phase' = phase
  BY Zenon DEF drop_senders, drop_receiver, coordinator, Leaving
<1>2. /\ i \in Nat \ {0} /\ phase \in [Task -> P!Phase \cup {"Absent"}]
      /\ \A t \in Task : t > live => phase[t] = "Absent"
  BY Zenon DEF IInv, TypeOK, PhaseInv
<1>3. pc' \notin Joined
  BY <1>1, Zenon DEF Leaving, Joined
<1>4. EndInv'
  <2>1. EndInv /\ verifier' = verifier /\ runs' = runs /\ wpc' = wpc
    BY <1>1, Zenon DEF IInv, workers
  <2>2. /\ pc' \notin {"merge", "apply", "complete", "done"}
    BY <1>1, Zenon DEF Leaving
  <2>3. why = "ok" => Succeeded'
    BY <1>1, <2>1, SMTT(30) DEF EndInv, Succeeded, Gone
  <2>4. \A t \in Task : phase[t] \notin Applied
    BY <1>1, <2>1, Zenon DEF EndInv
  <2> QED
    BY <1>1, <2>2, <2>3, <2>4, Zenon DEF EndInv
<1> QED
  BY <1>1, <1>2, <1>3, <1>4, DownStep, Zenon

LEMMA JoinStep ==
    ASSUME IInv, join
    PROVE  IInv'
<1>1. /\ pc \in Leaving /\ pc' \in Joined /\ why' = why /\ wave' = wave /\ stage' = stage /\ i' = 1
      /\ pending' = pending /\ expected' = expected /\ received' = received /\ live' = live
      /\ sealed' = sealed /\ UNCHANGED producer /\ request' = request /\ UNCHANGED workers /\ phase' = phase
      /\ \A w \in Worker : wpc[w] = "exited"
      /\ pc' = "fail_all" \/ (pc' = "merge" /\ why = "ok" /\ Len(sealed) = live)
  BY Zenon DEF join, channels, Leaving, Joined
<1>2. /\ i' \in Nat \ {0} /\ phase' \in [Task -> P!Phase \cup {"Absent"}]
      /\ \A t \in Task : t > live => phase'[t] = "Absent"
  BY <1>1, SMTT(30) DEF IInv, TypeOK, PhaseInv
<1>3. pc' \notin Leaving
  BY <1>1, Zenon DEF Leaving, Joined
<1>4. EndInv'
  <2>1. EndInv /\ verifier' = verifier /\ runs' = runs /\ wpc' = wpc
    BY <1>1, Zenon DEF IInv, workers
  <2>2. \A t \in Task : phase'[t] \notin Applied
    BY <1>1, <2>1, Zenon DEF EndInv
  <2>3. why = "ok" => Succeeded'
    BY <1>1, <2>1, SMTT(30) DEF EndInv, Succeeded, Gone
  <2>4. pc' \notin {"apply", "complete", "done"}
    BY <1>1, Zenon
  <2> QED
    BY <1>1, <2>2, <2>3, <2>4, Zenon DEF EndInv
<1> QED
  BY <1>1, <1>2, <1>3, <1>4, DownStep, Zenon

LEMMA MergeStep ==
    ASSUME IInv, merge
    PROVE  IInv'
<1>1. /\ pc = "merge" /\ pc' \in {"apply", "fail_all"} /\ why' = why /\ wave' = wave /\ stage' = stage
      /\ i' = i /\ pending' = pending /\ expected' = expected /\ received' = received /\ live' = live
      /\ sealed' = sealed /\ UNCHANGED producer /\ request' = request /\ UNCHANGED workers /\ phase' = phase
  BY Zenon DEF merge, coordinator, channels
<1>2. /\ i \in Nat \ {0} /\ phase \in [Task -> P!Phase \cup {"Absent"}]
      /\ \A t \in Task : t > live => phase[t] = "Absent"
  BY Zenon DEF IInv, TypeOK, PhaseInv
<1>3. pc \in Joined /\ pc' \in Joined /\ pc \notin Leaving /\ pc' \notin Leaving
  BY <1>1, Zenon DEF Leaving, Joined
<1>4. EndInv'
  <2>1. EndInv /\ verifier' = verifier /\ runs' = runs /\ wpc' = wpc
    BY <1>1, Zenon DEF IInv, workers
  <2>2. why = "ok" /\ Succeeded /\ i = 1 /\ Len(sealed) = live
    BY <1>1, <2>1, Zenon DEF EndInv
  <2>3. Succeeded'
    BY <1>1, <2>1, <2>2, ZenonT(40) DEF Succeeded, Gone
  <2>4. i' <= Len(sealed) /\ \A m \in 1..(i' - 1) : phase'[sealed'[m]] = "Completed"
    BY <1>1, <2>2, SMTT(30) DEF Succeeded
  <2>5. pc' \notin Leaving \cup {"merge"} /\ pc' \notin {"merge", "complete", "done"}
    BY <1>1, <1>3, Zenon
  <2> QED
    BY <1>1, <1>3, <2>2, <2>3, <2>4, <2>5, Zenon DEF EndInv
<1> QED
  BY <1>1, <1>2, <1>3, <1>4, DownStep, Zenon

LEMMA ApplyStep ==
    ASSUME IInv, apply
    PROVE  IInv'
<1> DEFINE t == sealed[i]
<1>1. /\ pc = "apply" /\ why' = why /\ wave' = wave /\ stage' = stage
      /\ pending' = pending /\ expected' = expected /\ received' = received /\ live' = live
      /\ sealed' = sealed /\ UNCHANGED producer /\ request' = request /\ UNCHANGED workers
      /\ \/ /\ phase[t] = "ResultSealed" /\ phase' = [phase EXCEPT ![t] = "ResultApplied"]
            /\ pc' = "complete" /\ i' = i
         \/ pc' = "fail_all" /\ i' = 1 /\ phase' = phase
         \/ pc' = "error" /\ i' = i /\ phase' = phase
  BY Zenon DEF apply, channels
<1>2. /\ i \in Nat \ {0} /\ phase \in [Task -> P!Phase \cup {"Absent"}] /\ sealed \in Seq(Task)
      /\ \A u \in Task : u > live => phase[u] = "Absent"
      /\ EndInv /\ verifier' = verifier /\ runs' = runs /\ wpc' = wpc
  BY <1>1, Zenon DEF IInv, TypeOK, PhaseInv, workers
<1>3. /\ why = "ok" /\ Succeeded /\ Len(sealed) = live /\ i \in 1..Len(sealed)
      /\ \A m \in 1..(i - 1) : phase[sealed[m]] = "Completed"
  <2>1. i <= Len(sealed) /\ Len(sealed) \in Nat
    BY <1>1, <1>2, SMTT(30) DEF EndInv
  <2> QED
    BY <1>1, <1>2, <2>1, SMTT(30) DEF EndInv
<1>4. t \in Task
  BY <1>2, <1>3, SMTT(30)
<1> HIDE DEF t
<1>5. pc \in Joined /\ pc' \in Joined /\ pc \notin Leaving /\ pc' \notin Leaving
  BY <1>1, Zenon DEF Leaving, Joined
<1>6. CASE phase[t] = "ResultSealed" /\ phase' = [phase EXCEPT ![t] = "ResultApplied"]
           /\ pc' = "complete" /\ i' = i
  <2>1. phase' \in [Task -> P!Phase \cup {"Absent"}]
    BY <1>2, <1>6, Zenon DEF P!Phase
  <2>2. phase'[t] = "ResultApplied" /\ \A u \in Task : u # t => phase'[u] = phase[u]
    BY <1>2, <1>4, <1>6, Zenon
  <2>3. \A u \in Task : u > live => phase'[u] = "Absent"
    BY <1>2, <1>4, <1>6, <2>2, Zenon
  <2>4. Succeeded'
    <3>1. /\ wave' = "Finish" /\ pending' = <<>> /\ live' >= 1
          /\ \A w \in Worker : Gone(w)' /\ verifier'[w] = "finished"
      BY <1>1, <1>2, <1>3, Zenon DEF Succeeded, Gone
    <3>2. ASSUME NEW u \in 1..live
          PROVE  /\ runs'[u] = 1 /\ phase'[u] \in P!Sealed \cup {"FailedClosed"}
                 /\ \E m \in 1..Len(sealed) : sealed[m] = u
      <4>1. /\ runs[u] = 1 /\ phase[u] \in P!Sealed \cup {"FailedClosed"}
            /\ \E m \in 1..Len(sealed) : sealed[m] = u
        BY <1>3, Zenon DEF Succeeded
      <4>2. u \in Task
        BY <1>2, <4>1, SMTT(30)
      <4> QED
        BY <1>2, <2>2, <4>1, <4>2, Zenon DEF P!Sealed
    <3> QED
      BY <1>1, <3>1, <3>2, Zenon DEF Succeeded
  <2>5. \A m \in 1..(i' - 1) : phase'[sealed'[m]] = "Completed"
    <3> SUFFICES ASSUME NEW m \in 1..(i - 1) PROVE phase'[sealed[m]] = "Completed"
      BY <1>1, <1>6, Zenon
    <3>1. m \in 1..Len(sealed) /\ phase[sealed[m]] = "Completed"
      BY <1>2, <1>3, SMTT(30)
    <3>2. sealed[m] \in Task
      BY <1>2, <3>1, SMTT(30)
    <3> QED
      BY <1>6, <2>2, <3>1, <3>2, Zenon
  <2>6. phase'[sealed'[i']] = "ResultApplied" /\ i' <= Len(sealed')
    BY <1>1, <1>3, <1>6, <2>2, SMTT(30) DEF t
  <2>7. pc' \notin Leaving \cup {"merge"} /\ pc' # "done"
    BY <1>5, <1>6, Zenon
  <2>8. EndInv'
    BY <1>1, <1>3, <1>5, <2>4, <2>5, <2>6, <2>7, Zenon DEF EndInv
  <2> QED
    BY <1>1, <1>2, <1>5, <1>6, <2>1, <2>3, <2>8, DownStep, Zenon
<1>7. CASE pc' \in {"fail_all", "error"} /\ i' \in Nat \ {0} /\ phase' = phase
  <2>1. Succeeded'
    BY <1>1, <1>2, <1>3, <1>7, SMTT(30) DEF Succeeded, Gone
  <2>2. pc' \notin Leaving \cup {"merge"} /\ pc' \notin {"merge", "apply", "complete", "done"}
    BY <1>5, <1>7, Zenon
  <2>3. EndInv'
    BY <1>1, <1>3, <1>5, <2>1, <2>2, Zenon DEF EndInv
  <2> QED
    BY <1>1, <1>2, <1>5, <1>7, <2>3, DownStep, Zenon
<1> QED
  BY <1>1, <1>2, <1>6, <1>7, SMTT(30)

LEMMA CompleteStep ==
    ASSUME IInv, complete
    PROVE  IInv'
<1> DEFINE t == sealed[i]
<1>1. /\ pc = "complete" /\ why' = why /\ wave' = wave /\ stage' = stage
      /\ pending' = pending /\ expected' = expected /\ received' = received /\ live' = live
      /\ sealed' = sealed /\ UNCHANGED producer /\ request' = request /\ UNCHANGED workers
      /\ \/ /\ phase' = [phase EXCEPT ![t] = "Completed"] /\ i' = i + 1
            /\ pc' = IF i = Len(sealed) THEN "done" ELSE "apply"
         \/ pc' = "fail_all" /\ i' = 1 /\ phase' = phase
  BY Zenon DEF complete, channels
<1>2. /\ i \in Nat \ {0} /\ phase \in [Task -> P!Phase \cup {"Absent"}] /\ sealed \in Seq(Task)
      /\ \A u \in Task : u > live => phase[u] = "Absent"
      /\ EndInv /\ verifier' = verifier /\ runs' = runs /\ wpc' = wpc
  BY <1>1, Zenon DEF IInv, TypeOK, PhaseInv, workers
<1>3. /\ why = "ok" /\ Succeeded /\ Len(sealed) = live /\ i \in 1..Len(sealed)
      /\ \A m \in 1..(i - 1) : phase[sealed[m]] = "Completed"
      /\ phase[t] = "ResultApplied"
  <2>1. i <= Len(sealed) /\ Len(sealed) \in Nat
    BY <1>1, <1>2, SMTT(30) DEF EndInv
  <2> QED
    BY <1>1, <1>2, <2>1, SMTT(30) DEF EndInv
<1>4. t \in Task
  BY <1>2, <1>3, SMTT(30)
<1> HIDE DEF t
<1>5. pc \in Joined /\ pc' \in Joined /\ pc \notin Leaving /\ pc' \notin Leaving
  BY <1>1, Zenon DEF Leaving, Joined
<1>6. CASE /\ phase' = [phase EXCEPT ![t] = "Completed"] /\ i' = i + 1
           /\ pc' = IF i = Len(sealed) THEN "done" ELSE "apply"
  <2>1. phase' \in [Task -> P!Phase \cup {"Absent"}]
    BY <1>2, <1>6, Zenon DEF P!Phase, P!Terminal
  <2>2. phase'[t] = "Completed" /\ \A u \in Task : u # t => phase'[u] = phase[u]
    BY <1>2, <1>4, <1>6, Zenon
  <2>3. \A u \in Task : u > live => phase'[u] = "Absent"
    BY <1>2, <1>3, <1>4, <2>2, Zenon
  <2>4. Succeeded'
    <3>1. /\ wave' = "Finish" /\ pending' = <<>> /\ live' >= 1
          /\ \A w \in Worker : Gone(w)' /\ verifier'[w] = "finished"
      BY <1>1, <1>2, <1>3, Zenon DEF Succeeded, Gone
    <3>2. ASSUME NEW u \in 1..live
          PROVE  /\ runs'[u] = 1 /\ phase'[u] \in P!Sealed \cup {"FailedClosed"}
                 /\ \E m \in 1..Len(sealed) : sealed[m] = u
      <4>1. /\ runs[u] = 1 /\ phase[u] \in P!Sealed \cup {"FailedClosed"}
            /\ \E m \in 1..Len(sealed) : sealed[m] = u
        BY <1>3, Zenon DEF Succeeded
      <4>2. u \in Task
        BY <1>2, <4>1, SMTT(30)
      <4> QED
        BY <1>2, <2>2, <4>1, <4>2, Zenon DEF P!Sealed
    <3> QED
      BY <1>1, <3>1, <3>2, Zenon DEF Succeeded
  <2>5. \A m \in 1..(i' - 1) : phase'[sealed'[m]] = "Completed"
    <3> SUFFICES ASSUME NEW m \in 1..i PROVE phase'[sealed[m]] = "Completed"
      BY <1>1, <1>2, <1>6, SMTT(30)
    <3>1. m \in 1..Len(sealed) /\ (m = i \/ phase[sealed[m]] = "Completed")
      BY <1>2, <1>3, SMTT(30)
    <3>2. sealed[m] \in Task
      BY <1>2, <3>1, SMTT(30)
    <3> QED
      BY <2>2, <3>1, <3>2, Zenon DEF t
  <2>6. pc' = "apply" => i' <= Len(sealed')
    BY <1>1, <1>2, <1>3, <1>6, SMTT(30)
  <2>7. pc' = "done" => \A u \in 1..live : phase'[u] = "Completed"
    <3> SUFFICES ASSUME pc' = "done", NEW u \in 1..live PROVE phase'[u] = "Completed"
      BY Zenon
    <3>1. PICK m \in 1..Len(sealed) : sealed[m] = u
      BY <1>3, Zenon DEF Succeeded
    <3>2. m \in 1..(i' - 1)
      BY <1>2, <1>6, SMTT(30)
    <3> QED
      BY <1>1, <2>5, <3>1, <3>2, Zenon
  <2>8. pc' \notin Leaving \cup {"merge"} /\ pc' # "complete"
    BY <1>5, <1>6, Zenon
  <2>9. EndInv'
    BY <1>1, <1>3, <1>5, <2>4, <2>5, <2>6, <2>7, <2>8, Zenon DEF EndInv
  <2>10. i' \in Nat \ {0}
    BY <1>2, <1>6, SMTT(30)
  <2> QED
    BY <1>1, <1>5, <2>1, <2>3, <2>9, <2>10, DownStep, Zenon
<1>7. CASE pc' = "fail_all" /\ i' = 1 /\ phase' = phase
  <2>1. Succeeded'
    BY <1>1, <1>2, <1>3, <1>7, SMTT(30) DEF Succeeded, Gone
  <2>2. pc' \notin Leaving \cup {"merge"} /\ pc' \notin {"merge", "apply", "complete", "done"}
    BY <1>5, <1>7, Zenon
  <2>3. EndInv'
    BY <1>1, <1>3, <1>5, <2>1, <2>2, Zenon DEF EndInv
  <2>4. i' \in Nat \ {0}
    BY <1>7, SMTT(30)
  <2> QED
    BY <1>1, <1>2, <1>5, <1>7, <2>3, <2>4, DownStep, Zenon
<1> QED
  BY <1>1, <1>6, <1>7, Zenon

LEMMA FailStep ==
    ASSUME IInv, fail_all
    PROVE  IInv'
<1>1. /\ pc = "fail_all" /\ why' = why /\ wave' = wave /\ stage' = stage
      /\ pending' = pending /\ expected' = expected /\ received' = received /\ live' = live
      /\ sealed' = sealed /\ UNCHANGED producer /\ request' = request /\ UNCHANGED workers
      /\ pc' \in {"fail_all", "error"} /\ i' \in {i, i + 1}
      /\ phase' = phase \/ (i <= live /\ phase' = [phase EXCEPT ![i] = "FailedClosed"])
  BY Zenon DEF fail_all, channels
<1>2. /\ i \in Nat \ {0} /\ phase \in [Task -> P!Phase \cup {"Absent"}] /\ sealed \in Seq(Task)
      /\ live \in Nat /\ \A u \in Task : u > live => phase[u] = "Absent"
      /\ EndInv /\ verifier' = verifier /\ runs' = runs /\ wpc' = wpc
  BY <1>1, Zenon DEF IInv, TypeOK, PhaseInv, workers
<1>3. \A u \in 1..live : u \in Task
  BY <1>2, LiveIs, WaveAssumption, SMTT(30) DEF IInv, Task
<1>4. pc \in Joined /\ pc' \in Joined /\ pc \notin Leaving /\ pc' \notin Leaving
  BY <1>1, Zenon DEF Leaving, Joined
<1>5. /\ phase' \in [Task -> P!Phase \cup {"Absent"}]
      /\ \A u \in Task : phase'[u] = phase[u] \/ (u <= live /\ phase'[u] = "FailedClosed")
  BY <1>1, <1>2, Zenon DEF P!Phase, P!Terminal
<1>6. \A u \in Task : u > live => phase'[u] = "Absent"
  BY <1>2, <1>5, SMTT(30) DEF Task
<1>7. why = "ok" => Succeeded'
  <2> SUFFICES ASSUME Succeeded PROVE Succeeded'
    BY <1>2, Zenon DEF EndInv
  <2>1. /\ wave' = "Finish" /\ pending' = <<>> /\ live' >= 1
        /\ \A w \in Worker : Gone(w)' /\ verifier'[w] = "finished"
    BY <1>1, <1>2, Zenon DEF Succeeded, Gone
  <2>2. \A u \in 1..live :
            /\ runs'[u] = 1 /\ phase'[u] \in P!Sealed \cup {"FailedClosed"}
            /\ \E m \in 1..Len(sealed) : sealed[m] = u
    BY <1>2, <1>3, <1>5, Zenon DEF Succeeded
  <2> QED
    BY <1>1, <2>1, <2>2, SMTT(30) DEF Succeeded
<1>8. why # "ok" => \A u \in Task : phase'[u] \notin Applied
  BY <1>2, <1>5, Zenon DEF EndInv, Applied
<1>9. pc' \notin Leaving \cup {"merge"} /\ pc' \notin {"merge", "apply", "complete", "done"}
  BY <1>1, <1>4, Zenon
<1>10. EndInv'
  BY <1>1, <1>4, <1>7, <1>8, <1>9, Zenon DEF EndInv
<1>11. i' \in Nat \ {0}
  BY <1>1, <1>2, SMTT(30)
<1> QED
  BY <1>1, <1>4, <1>5, <1>6, <1>10, <1>11, DownStep, Zenon

--------------------------------------------------------------------------------
(* Between waves. *)

\* No worker has been asked for anything of the wave that is being prepared.
Ready ==
    /\ \A t \in Task : /\ t > live => phase[t] = "Absent" /\ runs[t] = 0
                       /\ phase[t] \notin Applied
    /\ \A t \in 1..(live - Len(pending)) :
          phase[t] = "ResultSealed" /\ runs[t] = 1 /\ \E m \in 1..Len(sealed) : sealed[m] = t
    /\ \A n \in 1..Len(pending) : phase[TaskOf(n)] = "Prepared"
    /\ \A w \in Worker : Rests(w, "Offer")

LEMMA ReadyIs ==
    ASSUME IInv, pc \in {"spawn", "reserve", "prepare", "fill"}
    PROVE  Ready
<1>1. /\ PhaseInv /\ WorkerInv /\ EndInv /\ PendingInv /\ why = "none" /\ pc \in Driving
  BY Zenon DEF IInv, CountInv, Driving
<1>2. \A t \in Task : phase[t] \notin Applied
  BY <1>1, Zenon DEF EndInv
<1>3. \A n \in 1..Len(pending) : phase[TaskOf(n)] = "Prepared"
  <2>1. CASE pc \in {"spawn", "reserve"}
    BY <1>1, <2>1, SMTT(30) DEF PendingInv
  <2>2. CASE pc \in {"prepare", "fill"}
    BY <1>1, <2>2, Zenon DEF PhaseInv
  <2> QED
    BY <2>1, <2>2, Zenon
<1>4. \A w \in Worker : Rests(w, "Offer")
  BY <1>1, Zenon DEF WorkerInv
<1> QED
  BY <1>1, <1>2, <1>3, <1>4, Zenon DEF Ready, PhaseInv

LEMMA ReadyStep ==
    ASSUME Ready', TypeOK', CountInv', PendingInv',
           \/ pc' \in {"reserve", "prepare", "fill"}
           \/ pc' = "journal" /\ i' = 1 /\ stage' = "Offer"
    PROVE  IInv'
<1>1. pc' \in Driving /\ pc' \notin {"send", "collect", "seal"} /\ pc' \notin Leaving /\ pc' \notin Joined
  BY Zenon DEF Driving, Leaving, Joined
<1>2. PhaseInv'
  <2>1. pc' = "journal" =>
          \A n \in 1..Len(pending') : phase'[TaskOf(n)'] = IF n < i' THEN After' ELSE Before'
    <3> SUFFICES ASSUME pc' = "journal", NEW n \in 1..Len(pending')
                 PROVE  phase'[TaskOf(n)'] = IF n < i' THEN After' ELSE Before'
      BY Zenon
    <3>1. Before' = "Prepared" /\ i' = 1
      BY Zenon DEF Before
    <3>2. ~(n < i')
      BY <3>1, SMTT(30)
    <3>3. phase'[TaskOf(n)'] = "Prepared"
      BY Zenon DEF Ready
    <3> QED
      BY <3>1, <3>2, <3>3, Zenon
  <2> QED
    BY <1>1, <2>1, Zenon DEF PhaseInv, Ready
<1>3. ReceivedInv'
  BY <1>1, Zenon DEF ReceivedInv
<1>4. WorkerInv'
  <2> SUFFICES ASSUME NEW w \in Worker, pc' = "journal"
               PROVE  IF w < i' THEN Busy(w)'
                                ELSE Rests(w, IF w <= Len(pending) THEN stage ELSE "Offer")'
    BY <1>1, Zenon DEF WorkerInv, Ready
  <2>1. ~(w < i') /\ stage' = "Offer"
    BY WaveAssumption, SMTT(30) DEF Worker
  <2>2. Rests(w, "Offer")'
    BY Zenon DEF Ready
  <2> QED
    BY <2>1, <2>2, Zenon
<1>5. EndInv'
  <2>1. why' = "none" /\ \A t \in Task : phase'[t] \notin Applied
    BY <1>1, Zenon DEF CountInv, Ready
  <2>2. pc' \notin {"merge", "apply", "complete", "done"}
    BY <1>1, Zenon DEF Joined
  <2> QED
    BY <2>1, <2>2, Zenon DEF EndInv
<1> QED
  BY <1>2, <1>3, <1>4, <1>5, Zenon DEF IInv

\* The pool is started, or the drive is over.
LEMMA SpawnStep ==
    ASSUME IInv, spawn
    PROVE  IInv'
<1>1. /\ pc = "spawn" /\ UNCHANGED <<coordinator, producer, phase, channels, workers>>
      /\ (pc' = "reserve" /\ why' = why) \/ (pc' = "drop_senders" /\ why' = "unavailable")
  BY Zenon DEF spawn, Return
<1>2. /\ wave' = wave /\ stage' = stage /\ i' = i /\ pending' = pending /\ expected' = expected
      /\ received' = received /\ live' = live /\ sealed' = sealed
      /\ cap' = cap /\ total' = total /\ left' = left
      /\ summary' = summary /\ request' = request /\ senders' = senders /\ receiver' = receiver
      /\ wpc' = wpc /\ offer' = offer /\ published' = published /\ verifier' = verifier
      /\ out' = out /\ runs' = runs /\ phase' = phase
  BY <1>1, Zenon DEF coordinator, producer, channels, workers
<1>3. TypeOK /\ CountInv /\ PendingInv /\ Ready
  BY <1>1, ReadyIs, Zenon DEF IInv
<1>4. CASE pc' = "reserve" /\ why' = why
  <2>1. Ready'
    BY <1>2, <1>3, SMTT(30) DEF Ready, Rests, Holds, Initial, TaskOf
  <2>2. TypeOK'
    BY <1>2, <1>3, <1>4, Zenon DEF TypeOK, Driving
  <2>3. CountInv'
    <3>1. total' = total /\ wave = "Initialize" /\ pc \in Driving
      BY <1>1, <1>2, <1>3, Zenon DEF CountInv, Driving
    <3>2. Allowance' = Allowance
      BY <1>1, <1>2, <1>4, <3>1, Zenon DEF Allowance
    <3>3. pc' \notin {"spawn", "prepare", "fill", "journal", "send", "collect", "seal"}
      BY <1>4, Zenon
    <3>4. (live + Batches(left) <= Batches(total) + Allowance)'
      BY <1>2, <1>3, <3>1, <3>2, Zenon DEF CountInv, Batches
    <3>5. wave # "Consume"
      BY <3>1, Zenon
    <3> QED
      BY <1>2, <1>3, <1>4, <3>1, <3>3, <3>4, <3>5, Zenon DEF CountInv
  <2>4. PendingInv'
    BY <1>1, <1>2, <1>3, <1>4, Zenon DEF PendingInv, TaskOf
  <2> QED
    BY <1>4, <2>1, <2>2, <2>3, <2>4, ReadyStep, Zenon
<1>5. CASE pc' = "drop_senders" /\ why' = "unavailable"
  <2>1. \A t \in Task : t > live => phase'[t] = "Absent"
    BY <1>2, <1>3, Zenon DEF Ready
  <2>2. \A t \in Task : phase'[t] \notin Applied
    BY <1>2, <1>3, Zenon DEF Ready
  <2> QED
    BY <1>1, <1>2, <1>3, <1>5, <2>1, <2>2, LeaveStep, Zenon DEF TypeOK, Driving
<1> QED
  BY <1>1, <1>4, <1>5, Zenon

\* The drive ends and nothing else has changed.
LEMMA GiveUp ==
    ASSUME IInv, pc \in Driving, pc' = "drop_senders", why' # "ok",
           why' = "task_bound" => cap # 0 /\ total > cap,
           UNCHANGED <<coordinator, producer, phase, request, workers>>
    PROVE  IInv'
<1>1. /\ wave' = wave /\ stage' = stage /\ i' = i /\ pending' = pending /\ expected' = expected
      /\ received' = received /\ live' = live /\ sealed' = sealed /\ request' = request
      /\ wpc' = wpc /\ offer' = offer /\ published' = published /\ verifier' = verifier
      /\ out' = out /\ runs' = runs /\ phase' = phase
  BY Zenon DEF coordinator, workers
<1>2. TypeOK /\ PhaseInv /\ why = "none" /\ EndInv
  BY Zenon DEF IInv, CountInv
<1>3. \A t \in Task : t > live => phase'[t] = "Absent"
  BY <1>1, <1>2, SMTT(30) DEF PhaseInv
<1>4. \A t \in Task : phase'[t] \notin Applied
  BY <1>1, <1>2, Zenon DEF EndInv
<1> QED
  BY <1>1, <1>2, <1>3, <1>4, LeaveStep, Zenon DEF TypeOK

\* The bound on tasks holds what a wave for all workers, or the next batch, adds to a
\* job whose candidates are within the cap.
LEMMA ExceedsOverCap ==
    ASSUME TypeOK, NEW k \in Nat, live + k <= Batches(total) + N + N, Exceeds(live + k)
    PROVE  cap # 0 /\ total > cap
<1>1. cap # 0
  BY Zenon DEF Exceeds, maximum_task_count
<1>2. cap \in Nat /\ live \in Nat /\ total \in Nat
  BY Zenon DEF TypeOK
<1>3. Batches(cap) \in Nat /\ Batches(total) \in Nat
  BY <1>2, BatchesIs, Zenon
<1>4. total <= cap => Batches(total) <= Batches(cap)
  BY <1>2, BatchesGrow, Zenon
<1>5. live + k > Batches(cap) + 2 * N
  BY <1>1, Zenon DEF Exceeds, maximum_task_count
<1> QED
  BY <1>1, <1>2, <1>3, <1>4, <1>5, WaveAssumption, SMTT(30)

LEMMA ReserveStep ==
    ASSUME IInv, reserve
    PROVE  IInv'
<1> USE WaveAssumption
<1>1. /\ pc = "reserve" /\ i' = 1 /\ pending' = <<>>
      /\ IF Exceeds(live + N) THEN Return("task_bound") ELSE pc' = "prepare" /\ why' = why
      /\ UNCHANGED <<wave, stage, expected, received, live, sealed, producer, phase, channels, workers>>
  BY Zenon DEF reserve
<1>2. /\ wave' = wave /\ stage' = stage /\ expected' = expected
      /\ received' = received /\ live' = live /\ sealed' = sealed
      /\ cap' = cap /\ total' = total /\ left' = left
      /\ summary' = summary /\ request' = request /\ senders' = senders /\ receiver' = receiver
      /\ wpc' = wpc /\ offer' = offer /\ published' = published /\ verifier' = verifier
      /\ out' = out /\ runs' = runs /\ phase' = phase
  BY <1>1, Zenon DEF producer, channels, workers
<1>3. TypeOK /\ CountInv /\ PendingInv /\ Ready
  BY <1>1, ReadyIs, Zenon DEF IInv
<1>4. pending' = pending
  BY <1>1, <1>3, Zenon DEF PendingInv
<1>5. /\ live \in Nat /\ left \in Nat /\ total \in Nat /\ Batches(left) \in Nat /\ Batches(total) \in Nat
      /\ live + Batches(left) <= Batches(total) + Allowance
      /\ Allowance = IF wave = "Initialize" THEN 0 ELSE N
  <2>1. live \in Nat /\ left \in Nat /\ total \in Nat
    BY <1>3, LiveIs, Zenon DEF TypeOK
  <2>2. wave \in Waves /\ wave # "Consume"
    BY <1>1, <1>3, Zenon DEF TypeOK, CountInv
  <2>3. Allowance = IF wave = "Initialize" THEN 0 ELSE N
    BY <1>1, <2>2, Zenon DEF Allowance, Waves
  <2> QED
    BY <1>3, <2>1, <2>3, BatchesIs, Zenon DEF CountInv
<1>6. live + N <= Batches(total) + N + N
  BY <1>5, SMTT(30)
<1>7. CASE Exceeds(live + N)
  <2>1. pc' = "drop_senders" /\ why' = "task_bound" /\ pc \in Driving
    BY <1>1, <1>7, Zenon DEF Return, Driving
  <2>2. cap # 0 /\ total > cap
    BY <1>3, <1>6, <1>7, ExceedsOverCap, Zenon
  <2>3. \A t \in Task : t > live => phase'[t] = "Absent"
    BY <1>2, <1>3, Zenon DEF Ready
  <2>4. \A t \in Task : phase'[t] \notin Applied
    BY <1>2, <1>3, Zenon DEF Ready
  <2> QED
    BY <1>1, <1>2, <1>3, <1>4, <2>1, <2>2, <2>3, <2>4, LeaveStep, Zenon DEF TypeOK
<1>8. CASE ~Exceeds(live + N)
  <2>1. pc' = "prepare" /\ why' = why
    BY <1>1, <1>8, Zenon
  <2>2. Ready'
    BY <1>2, <1>3, <1>4, SMTT(30) DEF Ready, Rests, Holds, Initial, TaskOf
  <2>3. TypeOK'
    <3>1. i' \in Nat \ {0}
      BY <1>1, SMTT(30)
    <3> QED
      BY <1>2, <1>3, <1>4, <2>1, <3>1, Zenon DEF TypeOK, Driving
  <2>4. CountInv'
    <3>1. total' = total /\ wave \in Waves /\ wave # "Consume" /\ pc \in Driving
      BY <1>1, <1>2, <1>3, Zenon DEF CountInv, Driving, TypeOK
    <3>2. Allowance' = Allowance
      BY <1>1, <1>2, <1>5, <2>1, <3>1, SMTT(30) DEF Allowance, Waves
    <3>3. pc' \notin {"spawn", "fill", "journal", "send", "collect", "seal"} /\ i' <= N
      BY <1>1, <2>1, SMTT(30)
    <3>4. (live + Batches(left) <= Batches(total) + Allowance)'
      BY <1>2, <1>5, <3>1, <3>2, Zenon DEF Batches
    <3> QED
      BY <1>2, <1>3, <2>1, <3>1, <3>3, <3>4, Zenon DEF CountInv
  <2>5. PendingInv'
    BY <1>1, <1>2, <1>3, <2>1, SMTT(30) DEF PendingInv, TypeOK
  <2> QED
    BY <2>1, <2>2, <2>3, <2>4, <2>5, ReadyStep, Zenon
<1> QED
  BY <1>7, <1>8, Zenon

LEMMA PreparedIs ==
    ASSUME TypeOK, CountInv, PendingInv, Ready, Len(pending) = i - 1, i <= N, Prepared(i),
           wave' = wave, sealed' = sealed, UNCHANGED workers, request' = request
    PROVE  /\ Ready' /\ live' = live + 1 /\ live' \in Nat /\ Len(pending') = i
           /\ pending' \in Seq([task : Int, worker : Worker])
           /\ phase' \in [Task -> P!Phase \cup {"Absent"}]
           /\ \A n \in 1..Len(pending') : pending'[n] = [task |-> TaskOf(n)', worker |-> n]
           /\ Len(pending') <= live'
<1> USE WaveAssumption
<1> DEFINE r == [task |-> live + 1, worker |-> i]
<1>1. /\ phase' = [phase EXCEPT ![live + 1] = "Prepared"] /\ live' = live + 1
      /\ pending' = Append(pending, r)
      /\ wpc' = wpc /\ offer' = offer /\ published' = published /\ verifier' = verifier /\ out' = out
      /\ runs' = runs
  BY Zenon DEF Prepared, workers
<1>2. /\ live \in Nat /\ i \in Nat \ {0} /\ pending \in Seq([task : Int, worker : Worker])
      /\ phase \in [Task -> P!Phase \cup {"Absent"}] /\ i \in Worker /\ Len(pending) <= live
  BY SMTT(30) DEF TypeOK, PendingInv, Worker
<1>3. live + 1 \in Task
  BY <1>2, LiveIs, SMTT(30) DEF Task
<1>4. r \in [task : Int, worker : Worker]
  BY <1>2, SMTT(30)
<1>5. r = [task |-> live + 1, worker |-> i]
  BY Zenon
<1> HIDE DEF r
<1>6. /\ pending' \in Seq([task : Int, worker : Worker]) /\ Len(pending') = i
      /\ pending'[i] = r /\ \A n \in 1..(i - 1) : pending'[n] = pending[n]
  BY <1>1, <1>2, <1>4, SMTT(30)
<1>7. /\ live' - Len(pending') = live - Len(pending) /\ live' - Len(pending') \in Nat
      /\ \A n \in Nat : TaskOf(n)' = TaskOf(n)
  BY <1>1, <1>2, <1>6, SMTT(30) DEF TaskOf
<1>8. \A n \in Nat : n = i => TaskOf(n)' = live + 1
  BY <1>1, <1>2, <1>6, SMTT(30) DEF TaskOf
<1>9. \A n \in 1..Len(pending') : pending'[n] = [task |-> TaskOf(n)', worker |-> n]
  <2> SUFFICES ASSUME NEW n \in 1..i PROVE pending'[n] = [task |-> TaskOf(n)', worker |-> n]
    BY <1>6, Zenon
  <2>1. CASE n = i
    <3>1. n \in Nat
      BY <1>2, <2>1, Zenon
    <3> QED
      BY <1>5, <1>6, <1>8, <2>1, <3>1, Zenon
  <2>2. CASE n # i
    <3>1. n \in 1..(i - 1) /\ n \in Nat
      BY <1>2, <2>2, SMTT(30)
    <3>2. pending[n] = [task |-> TaskOf(n), worker |-> n]
      BY <3>1, Zenon DEF PendingInv
    <3> QED
      BY <1>6, <1>7, <3>1, <3>2, Zenon
  <2> QED
    BY <2>1, <2>2, Zenon
<1>10. phase' \in [Task -> P!Phase \cup {"Absent"}]
  BY <1>1, <1>2, Zenon DEF P!Phase
<1>11. phase'[live + 1] = "Prepared" /\ \A t \in Task : t # live + 1 => phase'[t] = phase[t]
  BY <1>1, <1>2, <1>3, Zenon
<1>12. Ready'
  <2>1. ASSUME NEW t \in Task
        PROVE  /\ t > live' => phase'[t] = "Absent" /\ runs'[t] = 0
               /\ phase'[t] \notin Applied
    <3>1. t > live' => t > live /\ t # live + 1
      BY <1>1, <1>2, SMTT(30) DEF Task
    <3>2. "Prepared" \notin Applied
      BY Zenon DEF Applied
    <3> QED
      BY <1>1, <1>11, <3>1, <3>2, SMTT(30) DEF Ready
  <2>2. ASSUME NEW t \in 1..(live' - Len(pending'))
        PROVE  phase'[t] = "ResultSealed" /\ runs'[t] = 1 /\ \E m \in 1..Len(sealed') : sealed'[m] = t
    <3>1. t \in 1..(live - Len(pending))
      BY <1>7, Zenon
    <3>2. Len(pending) \in Nat
      BY <1>2, SMTT(30)
    <3>3. t \in 1..live
      <4> DEFINE k == Len(pending)
      <4>1. k \in Nat /\ live \in Nat /\ t \in 1..(live - k)
        BY <1>2, <3>1, <3>2, Zenon
      <4> HIDE DEF k
      <4> QED
        BY <4>1, SMTT(30)
    <3>4. t # live + 1 /\ t \in Task
      <4>1. t # live + 1
        BY <1>2, <3>3, SMTT(30)
      <4> QED
        BY <3>3, <4>1, LiveTasks, Zenon
    <3> QED
      BY <1>1, <1>11, <3>1, <3>4, SMTT(30) DEF Ready
  <2>3. ASSUME NEW n \in 1..Len(pending') PROVE phase'[TaskOf(n)'] = "Prepared"
    <3>1. CASE n = i
      <4>1. n \in Nat
        BY <1>2, <3>1, Zenon
      <4> QED
        BY <1>8, <1>11, <3>1, <4>1, Zenon
    <3>2. CASE n # i
      <4>1. n \in 1..Len(pending) /\ n \in Nat
        BY <1>2, <1>6, <3>2, SMTT(30)
      <4>2. phase[TaskOf(n)] = "Prepared" /\ TaskOf(n) \in Task
        BY <4>1, TaskOfIs, Zenon DEF Ready
      <4> QED
        BY <1>7, <1>11, <4>1, <4>2, Zenon
    <3> QED
      BY <3>1, <3>2, Zenon
  <2>4. ASSUME NEW w \in Worker PROVE Rests(w, "Offer")'
    <3>1. Rests(w, "Offer") /\ w \in Nat
      BY SMTT(30) DEF Ready, Worker
    <3>2. w <= Len(pending') => runs'[TaskOf(w)'] = 0
      <4>1. CASE w = i
        <5>1. TaskOf(w)' = live + 1 /\ live + 1 > live
          BY <1>2, <1>8, <3>1, <4>1, SMTT(30)
        <5> QED
          BY <1>1, <1>3, <5>1, ZenonT(40) DEF Ready
      <4>2. CASE w # i /\ w <= Len(pending')
        <5>1. w <= Len(pending)
          BY <1>2, <1>6, <3>1, <4>2, SMTT(30)
        <5> QED
          BY <1>1, <1>7, <3>1, <5>1, Zenon DEF Rests, Holds
      <4> QED
        BY <4>1, <4>2, Zenon
    <3> QED
      BY <1>1, <3>1, <3>2, Zenon DEF Rests, Holds, Initial
  <2> QED
    BY <2>1, <2>2, <2>3, <2>4, ZenonT(40) DEF Ready
<1>13. live' \in Nat /\ Len(pending') <= live'
  BY <1>1, <1>2, <1>6, SMTT(30)
<1> QED
  BY <1>1, <1>6, <1>9, <1>10, <1>12, <1>13, Zenon

LEMMA PrepareStep ==
    ASSUME IInv, prepare
    PROVE  IInv'
<1> USE WaveAssumption
<1>1. /\ pc = "prepare" /\ UNCHANGED <<wave, expected, received, sealed, producer, channels, workers>>
      /\ \/ /\ Prepared(i) /\ i' = IF i = N THEN 1 ELSE i + 1
            /\ pc' = IF i = N THEN "journal" ELSE "prepare"
            /\ stage' = "Offer" /\ why' = why
         \/ /\ Return(IF Exceeds(live + 1) THEN "task_bound" ELSE "prepare")
            /\ UNCHANGED <<i, stage, live, pending, phase>>
  BY Zenon DEF prepare
<1>2. /\ wave' = wave /\ expected' = expected /\ received' = received /\ sealed' = sealed
      /\ cap' = cap /\ total' = total /\ left' = left /\ summary' = summary
      /\ request' = request /\ senders' = senders /\ receiver' = receiver /\ UNCHANGED workers
      /\ wpc' = wpc /\ offer' = offer /\ published' = published /\ verifier' = verifier
      /\ out' = out /\ runs' = runs
  BY <1>1, Zenon DEF producer, channels, workers
<1>3. TypeOK /\ CountInv /\ PendingInv /\ Ready /\ Len(pending) = i - 1 /\ i <= N /\ wave # "Consume"
  BY <1>1, ReadyIs, Zenon DEF IInv, PendingInv, CountInv
<1>4. /\ live \in Nat /\ left \in Nat /\ total \in Nat /\ Batches(left) \in Nat /\ Batches(total) \in Nat
      /\ i \in Nat \ {0} /\ live + Batches(left) <= Batches(total) + Allowance
      /\ wave \in Waves /\ Allowance = IF wave = "Initialize" THEN i - 1 ELSE N + i - 1
  <2>1. live \in Nat /\ left \in Nat /\ total \in Nat /\ i \in Nat \ {0} /\ wave \in Waves
    BY <1>3, LiveIs, Zenon DEF TypeOK
  <2>2. Allowance = IF wave = "Initialize" THEN i - 1 ELSE N + i - 1
    BY <1>1, <1>3, <2>1, Zenon DEF Allowance, Waves
  <2> QED
    BY <1>3, <2>1, <2>2, BatchesIs, Zenon DEF CountInv
<1>5. live + 1 <= Batches(total) + N + N
  BY <1>3, <1>4, SMTT(30)
<1>6. Exceeds(live + 1) => cap # 0 /\ total > cap
  BY <1>3, <1>5, ExceedsOverCap, SMTT(30)
<1>7. CASE /\ Prepared(i) /\ i' = IF i = N THEN 1 ELSE i + 1
           /\ pc' = IF i = N THEN "journal" ELSE "prepare"
           /\ stage' = "Offer" /\ why' = why
  <2>1. /\ Ready' /\ live' = live + 1 /\ live' \in Nat /\ Len(pending') = i
        /\ pending' \in Seq([task : Int, worker : Worker])
        /\ phase' \in [Task -> P!Phase \cup {"Absent"}]
        /\ \A n \in 1..Len(pending') : pending'[n] = [task |-> TaskOf(n)', worker |-> n]
        /\ Len(pending') <= live'
    BY <1>2, <1>3, <1>7, PreparedIs, Zenon
  <2>2. i' \in Nat \ {0} /\ (pc' = "prepare" => i' = i + 1 /\ i' <= N) /\ (pc' = "journal" => i = N /\ i' = 1)
    BY <1>3, <1>4, <1>7, SMTT(30)
  <2>3. TypeOK'
    <3>1. pc' \in Driving /\ stage' \in Stages
      BY <1>7, Zenon DEF Driving, Stages
    <3> QED
      BY <1>2, <1>3, <2>1, <2>2, <3>1, Zenon DEF TypeOK
  <2>4. CountInv'
    <3>1. total' = total /\ Batches(left)' = Batches(left) /\ Batches(total)' = Batches(total) /\ pc \in Driving
      BY <1>1, <1>2, Zenon DEF Batches, Driving
    <3>2. Allowance' = IF wave = "Initialize" THEN i ELSE N + i
      <4>1. CASE i = N
        BY <1>2, <1>3, <1>4, <1>7, <4>1, Zenon DEF Allowance, Waves
      <4>2. CASE i # N
        <5>1. i' - 1 = i /\ N + i' - 1 = N + i /\ pc' = "prepare"
          BY <1>4, <1>7, <4>2, SMTT(30)
        <5> QED
          BY <1>2, <1>3, <1>4, <5>1, Zenon DEF Allowance, Waves
      <4> QED
        BY <4>1, <4>2, Zenon
    <3>3. Allowance' = Allowance + 1 /\ Allowance \in Nat /\ live' = live + 1
      BY <1>4, <2>1, <3>2, SMTT(30)
    <3>4. live' + Batches(left) <= Batches(total) + Allowance'
      <4> DEFINE a == Allowance
                 b == Allowance'
      <4>1. live' = live + 1 /\ b = a + 1 /\ a \in Nat /\ live + Batches(left) <= Batches(total) + a
        BY <1>4, <3>3, Zenon
      <4>2. live \in Nat /\ Batches(left) \in Nat /\ Batches(total) \in Nat
        BY <1>4, Zenon
      <4> HIDE DEF a, b
      <4>3. live' + Batches(left) <= Batches(total) + b
        BY <4>1, <4>2, SMTT(30)
      <4> QED
        BY <4>3, Zenon DEF b
    <3>6. (live + Batches(left) <= Batches(total) + Allowance)'
      BY <3>1, <3>4, ZenonT(40)
    <3>5. /\ pc' \notin {"spawn", "reserve", "fill", "send", "collect", "seal"}
          /\ pc' = "journal" => i' <= Len(pending')
      BY <1>4, <1>7, <2>1, <2>2, SMTT(30)
    <3> QED
      BY <1>2, <1>3, <1>7, <2>2, <3>1, <3>5, <3>6, Zenon DEF CountInv
  <2>5. PendingInv'
    <3>1. Len(pending') <= N /\ (pc' = "prepare" => Len(pending') = i' - 1)
      <4> DEFINE k == Len(pending')
      <4>1. k = i /\ i \in Nat /\ i <= N
        BY <1>3, <1>4, <2>1, Zenon
      <4> HIDE DEF k
      <4>2. k <= N
        BY <4>1, SMTT(30)
      <4>3. ASSUME pc' = "prepare" PROVE k = i' - 1
        <5>1. i' = i + 1
          BY <2>2, <4>3, Zenon
        <5> QED
          BY <4>1, <5>1, SMTT(30)
      <4> QED
        BY <4>2, <4>3, Zenon DEF k
    <3>2. pc' = "journal" => Len(pending') >= 1 /\ Len(pending') = N
      BY <1>4, <2>1, <2>2, SMTT(30)
    <3>3. pc' \in {"prepare", "journal"}
      BY <1>7, Zenon
    <3> QED
      BY <2>1, <3>1, <3>2, <3>3, Zenon DEF PendingInv
  <2> QED
    BY <1>7, <2>1, <2>2, <2>3, <2>4, <2>5, ReadyStep, Zenon
<1>8. CASE /\ Return(IF Exceeds(live + 1) THEN "task_bound" ELSE "prepare")
           /\ UNCHANGED <<i, stage, live, pending, phase>>
  <2>1. UNCHANGED <<coordinator, producer, phase, request, workers>>
    BY <1>2, <1>8, Zenon DEF coordinator, producer
  <2>2. /\ pc' = "drop_senders" /\ why' # "ok" /\ pc \in Driving
        /\ why' = "task_bound" => cap # 0 /\ total > cap
    BY <1>1, <1>6, <1>8, Zenon DEF Return, Driving
  <2> QED
    BY <2>1, <2>2, GiveUp, Zenon
<1> QED
  BY <1>1, <1>7, <1>8, Zenon

LEMMA FillStep ==
    ASSUME IInv, fill
    PROVE  IInv'
<1> USE WaveAssumption
<1> DEFINE batch == IF left < BatchCapacity THEN left ELSE BatchCapacity
           done == batch < BatchCapacity
           Moves ==
              /\ left' = left - batch /\ summary' = done
              /\ IF batch > 0 THEN Prepared(i) ELSE UNCHANGED <<phase, live, pending>>
              /\ IF ~done /\ i < N
                 THEN i' = i + 1 /\ UNCHANGED <<pc, stage, wave>>
                 ELSE /\ i' = 1
                      /\ IF pending' = <<>>
                         THEN pc' = "reserve" /\ wave' = "Finish" /\ UNCHANGED stage
                         ELSE pc' = "journal" /\ stage' = "Offer" /\ UNCHANGED wave
              /\ UNCHANGED why
           Stops ==
              /\ Return(IF batch > 0 /\ Exceeds(live + 1) THEN "task_bound" ELSE "cancelled")
              /\ UNCHANGED <<wave, stage, i, pending, live, left, summary, phase>>
<1>1. pc = "fill" /\ (Moves \/ Stops) /\ UNCHANGED <<expected, received, sealed, cap, total, channels, workers>>
  BY Zenon DEF fill
<1>2. /\ expected' = expected /\ received' = received /\ sealed' = sealed /\ cap' = cap /\ total' = total
      /\ request' = request /\ senders' = senders /\ receiver' = receiver /\ UNCHANGED workers
      /\ wpc' = wpc /\ offer' = offer /\ published' = published /\ verifier' = verifier
      /\ out' = out /\ runs' = runs
  BY <1>1, Zenon DEF channels, workers
<1>3. /\ TypeOK /\ CountInv /\ PendingInv /\ Ready /\ Len(pending) = i - 1 /\ i <= N /\ wave = "Consume"
      /\ pc \in Driving /\ why = "none" /\ senders = TRUE /\ receiver = TRUE
  BY <1>1, ReadyIs, Zenon DEF IInv, PendingInv, CountInv, Driving
<1>4. /\ live \in Nat /\ left \in Nat /\ total \in Nat /\ Batches(left) \in Nat /\ Batches(total) \in Nat
      /\ i \in Nat \ {0} /\ left <= total /\ live + Batches(left) <= Batches(total) + N
  <2>1. live \in Nat /\ left \in Nat /\ total \in Nat /\ i \in Nat \ {0}
    BY <1>3, LiveIs, Zenon DEF TypeOK
  <2>2. Allowance = N
    BY <1>3, Zenon DEF Allowance
  <2> QED
    BY <1>3, <2>1, <2>2, BatchesIs, Zenon DEF CountInv
<1>5. /\ left - batch \in Nat /\ left - batch <= total /\ batch \in Nat
      /\ done => left - batch = 0
      /\ batch = 0 => done /\ left = 0
  BY <1>4, SMTT(30)
<1>6. batch > 0 => Batches(left) = Batches(left - batch) + 1 /\ Batches(left - batch) \in Nat
  <2> SUFFICES ASSUME batch > 0
               PROVE  Batches(left) = Batches(left - batch) + 1 /\ Batches(left - batch) \in Nat
    BY Zenon
  <2>1. left # 0
    BY <1>4, SMTT(30)
  <2>2. CASE left < BatchCapacity
    <3>1. left - batch = 0 /\ Batches(left) = 1
      BY <1>4, <2>1, <2>2, BatchesStep, SMTT(30)
    <3> QED
      BY <3>1, BatchesNone, SMTT(30)
  <2>3. CASE ~(left < BatchCapacity)
    BY <1>4, <1>5, <2>1, <2>3, BatchesStep, BatchesIs, Zenon
  <2> QED
    BY <2>2, <2>3, Zenon
<1> HIDE DEF batch
<1>7. batch > 0 /\ Exceeds(live + 1) => cap # 0 /\ total > cap
  <2> SUFFICES ASSUME batch > 0, Exceeds(live + 1) PROVE cap # 0 /\ total > cap
    BY Zenon
  <2>1. live + 1 <= Batches(total) + N + N
    BY <1>4, <1>6, SMTT(30)
  <2> QED
    BY <1>3, <2>1, ExceedsOverCap, SMTT(30)
<1>8. CASE Stops
  <2>1. UNCHANGED <<coordinator, producer, phase, request, workers>>
    BY <1>2, <1>8, Zenon DEF coordinator, producer
  <2>2. /\ pc' = "drop_senders" /\ why' # "ok"
        /\ why' = "task_bound" => cap # 0 /\ total > cap
    BY <1>7, <1>8, Zenon DEF Return
  <2> QED
    BY <1>3, <2>1, <2>2, GiveUp, Zenon
<1>9. CASE Moves /\ batch > 0
  <2>1. pending' # <<>>
    <3> DEFINE r == [task |-> live + 1, worker |-> i]
    <3>1. pending' = Append(pending, r) /\ pending \in Seq([task : Int, worker : Worker])
      BY <1>3, <1>9, Zenon DEF Prepared, TypeOK
    <3>2. r \in [task : Int, worker : Worker]
      BY <1>3, <1>4, SMTT(30) DEF Worker
    <3> HIDE DEF r
    <3> QED
      BY <3>1, <3>2, SMTT(30)
  <2>2. /\ Prepared(i) /\ left' = left - batch /\ summary' = done /\ why' = why /\ wave' = wave
        /\ \/ ~done /\ i < N /\ i' = i + 1 /\ pc' = "fill" /\ stage' = stage
           \/ i' = 1 /\ pc' = "journal" /\ stage' = "Offer"
    BY <1>1, <1>9, <2>1, Zenon
  <2>3. /\ Ready' /\ live' = live + 1 /\ live' \in Nat /\ Len(pending') = i
        /\ pending' \in Seq([task : Int, worker : Worker])
        /\ phase' \in [Task -> P!Phase \cup {"Absent"}]
        /\ \A n \in 1..Len(pending') : pending'[n] = [task |-> TaskOf(n)', worker |-> n]
        /\ Len(pending') <= live'
    BY <1>2, <1>3, <2>2, PreparedIs, Zenon
  <2>4. TypeOK'
    <3>1. pc' \in Driving /\ stage' \in Stages /\ i' \in Nat \ {0} /\ left' \in Nat
      BY <1>3, <1>4, <1>5, <2>2, SMTT(30) DEF Driving, Stages, TypeOK
    <3>2. summary' \in BOOLEAN
      BY <2>2, <1>5, SMTT(30)
    <3> QED
      BY <1>2, <1>3, <2>2, <2>3, <3>1, <3>2, ZenonT(40) DEF TypeOK
  <2>5. CountInv'
    <3>1. total' = total /\ Allowance' = N /\ wave' = "Consume"
      BY <1>2, <1>3, <2>2, Zenon DEF Allowance
    <3>2. live' + Batches(left') <= Batches(total) + N
      <4> DEFINE b == Batches(left - batch)
      <4>1. live' = live + 1 /\ Batches(left') = b /\ Batches(left) = b + 1 /\ b \in Nat
        BY <1>6, <1>9, <2>2, <2>3, Zenon
      <4> HIDE DEF b
      <4>2. live' + b <= Batches(total) + N
        BY <1>4, <4>1, SMTT(30)
      <4> QED
        BY <4>1, <4>2, Zenon
    <3>3. (live + Batches(left) <= Batches(total) + Allowance)'
      BY <3>1, <3>2, ZenonT(40)
    <3>4. /\ pc' = "fill" => i' <= N
          /\ pc' = "journal" => i' <= Len(pending')
          /\ pc' \notin {"spawn", "reserve", "prepare", "send", "collect", "seal"}
      BY <1>3, <1>4, <2>2, <2>3, SMTT(30)
    <3>5. left' <= total /\ (summary' => left' = 0)
      BY <1>5, <2>2, Zenon
    <3>6. wave' # "Finish" /\ why' = "none" /\ total' <= MaxCandidates
      BY <1>2, <1>3, <2>2, Zenon DEF CountInv
    <3> QED
      BY <1>2, <1>3, <3>1, <3>3, <3>4, <3>5, <3>6, Zenon DEF CountInv
  <2>6. PendingInv'
    <3>1. Len(pending') <= N /\ Len(pending') >= 1
      BY <1>3, <1>4, <2>3, SMTT(30)
    <3>2. pc' = "fill" => Len(pending') = i' - 1
      <4>1. ASSUME pc' = "fill" PROVE i = i' - 1
        BY <1>4, <2>2, <4>1, SMTT(30)
      <4> QED
        BY <2>3, <4>1, Zenon
    <3>3. pc' \in {"fill", "journal"} /\ wave' = "Consume"
      BY <1>3, <2>2, Zenon
    <3> QED
      BY <2>3, <3>1, <3>2, <3>3, ZenonT(40) DEF PendingInv
  <2> QED
    BY <2>2, <2>3, <2>4, <2>5, <2>6, ReadyStep, ZenonT(40)
<1>10. CASE Moves /\ ~(batch > 0)
  <2>1. batch = 0 /\ done /\ left = 0
    BY <1>5, <1>10, SMTT(30)
  <2>2. /\ left' = 0 /\ summary' = TRUE /\ phase' = phase /\ live' = live /\ pending' = pending
        /\ i' = 1 /\ why' = why
        /\ \/ pending = <<>> /\ pc' = "reserve" /\ wave' = "Finish" /\ stage' = stage
           \/ pending # <<>> /\ pc' = "journal" /\ stage' = "Offer" /\ wave' = wave
    BY <1>5, <1>10, <2>1, ZenonT(40)
  <2>3. Ready'
    <3>1. Initial' = Initial
      BY <1>3, <2>2, Zenon DEF Initial
    <3>2. \A w \in Worker : Rests(w, "Offer")'
      BY <1>2, <1>3, <2>2, <3>1, SMTT(30) DEF Ready, Rests, Holds, TaskOf
    <3> QED
      BY <1>2, <1>3, <2>2, <3>2, SMTT(30) DEF Ready, TaskOf
  <2>4. TypeOK'
    <3>1. pc' \in Driving /\ stage' \in Stages /\ i' \in Nat \ {0} /\ left' \in Nat /\ wave' \in Waves
          /\ summary' \in BOOLEAN
      BY <1>3, <2>2, SMTT(30) DEF Driving, Stages, TypeOK, Waves
    <3> QED
      BY <1>2, <1>3, <2>2, <3>1, Zenon DEF TypeOK
  <2>5. CountInv'
    <3>1. total' = total /\ Allowance' = N /\ left' = left
      BY <1>2, <1>3, <2>1, <2>2, Zenon DEF Allowance
    <3>2. (live + Batches(left) <= Batches(total) + Allowance)'
      BY <1>4, <2>2, <3>1, Zenon
    <3>3. pc' = "journal" => i' <= Len(pending')
      <4>1. pending \in Seq([task : Int, worker : Worker])
        BY <1>3, Zenon DEF TypeOK
      <4> QED
        BY <2>2, <4>1, SMTT(30)
    <3>4. /\ pc' \notin {"spawn", "prepare", "fill", "send", "collect", "seal"}
          /\ pc' = "reserve" => wave' # "Consume"
      BY <2>2, Zenon
    <3>5. left' <= total /\ why' = "none" /\ total' <= MaxCandidates
      BY <1>2, <1>3, <1>4, <2>2, <3>1, Zenon DEF CountInv
    <3> QED
      BY <1>2, <1>3, <2>2, <3>1, <3>2, <3>3, <3>4, <3>5, Zenon DEF CountInv
  <2>6. PendingInv'
    <3>1. pending # <<>> => Len(pending) >= 1
      BY <1>3, SMTT(30) DEF TypeOK
    <3>2. \A n : TaskOf(n)' = TaskOf(n)
      BY <2>2, Zenon DEF TaskOf
    <3> QED
      BY <1>3, <2>2, <3>1, <3>2, Zenon DEF PendingInv
  <2> QED
    BY <2>2, <2>3, <2>4, <2>5, <2>6, ReadyStep, Zenon
<1> QED
  BY <1>1, <1>8, <1>9, <1>10, Zenon

--------------------------------------------------------------------------------
(* Within a wave. *)

\* The wave, its delegations and what the workers hold do not change.
SameWave ==
    /\ wave' = wave /\ pending' = pending /\ live' = live
    /\ cap' = cap /\ total' = total /\ left' = left /\ summary' = summary
    /\ offer' = offer /\ published' = published /\ verifier' = verifier /\ runs' = runs

LEMMA SameWorker ==
    ASSUME TypeOK, SameWave, NEW v \in Worker, stage' = stage,
           wpc'[v] = wpc[v], request'[v] = request[v], out'[v] = out[v],
           phase[TaskOf(v)] \in Active => phase'[TaskOf(v)] \in Active
    PROVE  /\ Busy(v) => Busy(v)'
           /\ \A s : Rests(v, s) => Rests(v, s)'
           /\ Answered(v) => Answered(v)'
<1>1. /\ TaskOf(v)' = TaskOf(v) /\ Len(pending') = Len(pending) /\ stage \in Stages
      /\ Following' = Following /\ Initial' = Initial
  BY Zenon DEF SameWave, TaskOf, TypeOK, Following, Initial
<1>2. Busy(v) => Busy(v)'
  BY <1>1, BusyKept, Zenon DEF SameWave
<1>3. ASSUME NEW s PROVE Holds(v, s)' <=> Holds(v, s)
  BY <1>1, Zenon DEF SameWave, Holds
<1>4. Holds(v, Following)' <=> Holds(v, Following)
  BY <1>1, Zenon DEF SameWave, Holds
<1>5. \A s : Rests(v, s) => Rests(v, s)'
  BY <1>3, Zenon DEF Rests
<1>6. Answered(v) => Answered(v)'
  BY <1>1, <1>4, Zenon DEF Answered, SameWave
<1> QED
  BY <1>2, <1>5, <1>6, Zenon

LEMMA WaveStep ==
    ASSUME IInv, SameWave, pc \in {"journal", "send", "collect", "seal"},
           pc' \in {"journal", "send", "collect", "seal"},
           why' = why, senders' = senders, receiver' = receiver,
           TypeOK', PhaseInv', ReceivedInv', WorkerInv',
           pc' \in {"journal", "send"} => i' <= Len(pending),
           pc' = "collect" => i' = 1,
           pc' = "seal" => i' <= Len(received'),
           \A t \in Task : phase'[t] \notin Applied
    PROVE  IInv'
<1>1. /\ TypeOK /\ CountInv /\ PendingInv /\ pc \in Driving /\ pc' \in Driving /\ why = "none"
      /\ pc' \notin {"spawn", "reserve", "prepare", "fill"} /\ pc \notin {"spawn", "reserve", "prepare", "fill"}
  BY Zenon DEF IInv, Driving, CountInv
<1>2. CountInv'
  <2>1. total' = total /\ Batches(left)' = Batches(left) /\ Batches(total)' = Batches(total)
    BY Zenon DEF SameWave, Batches
  <2>2. Allowance' = Allowance
    <3>1. wave \in Waves
      BY <1>1, Zenon DEF TypeOK
    <3> QED
      BY <1>1, <3>1, Zenon DEF SameWave, Allowance, Waves
  <2>3. (live + Batches(left) <= Batches(total) + Allowance)'
    BY <1>1, <2>1, <2>2, Zenon DEF CountInv, SameWave
  <2> QED
    BY <1>1, <2>1, <2>3, Zenon DEF CountInv, SameWave
<1>3. PendingInv'
  <2>1. \A n : TaskOf(n)' = TaskOf(n)
    BY Zenon DEF SameWave, TaskOf
  <2> QED
    BY <1>1, <2>1, Zenon DEF PendingInv, SameWave
<1>4. EndInv'
  <2>1. pc' \notin {"merge", "apply", "complete", "done"} /\ why' = "none"
    BY <1>1, Zenon
  <2> QED
    BY <2>1, Zenon DEF EndInv
<1> QED
  BY <1>2, <1>3, <1>4, Zenon DEF IInv

\* What is known when the coordinator is at place i of the wave.
LEMMA ItemIs ==
    ASSUME IInv, pc \in {"journal", "send"}
    PROVE  /\ i \in 1..Len(pending) /\ i \in Worker /\ Len(pending) \in Nat /\ live \in Nat
           /\ Item.worker = i /\ Item.task = live - Len(pending) + i /\ Item.task \in Task
           /\ Item.task <= live /\ Item.task > live - Len(pending)
           /\ \A n \in Nat : TaskOf(n) = Item.task <=> n = i
<1>1. /\ TypeOK /\ CountInv /\ PendingInv /\ i \in Nat \ {0} /\ i <= Len(pending) /\ Len(pending) \in Nat
      /\ live \in Nat /\ Len(pending) <= live
  BY SMTT(30) DEF IInv, TypeOK, CountInv, PendingInv
<1>2. i \in 1..Len(pending)
  BY <1>1, SMTT(30)
<1>3. \A n \in 1..Len(pending) : pending[n].worker = n /\ pending[n].task = TaskOf(n)
                                 /\ TaskOf(n) \in Task /\ TaskOf(n) \in 1..live /\ n \in Worker
  <2> SUFFICES ASSUME NEW n \in 1..Len(pending)
               PROVE  /\ pending[n].worker = n /\ pending[n].task = TaskOf(n)
                      /\ TaskOf(n) \in Task /\ TaskOf(n) \in 1..live /\ n \in Worker
    BY Zenon
  <2>1. pending[n] = [task |-> TaskOf(n), worker |-> n]
    BY <1>1, Zenon DEF PendingInv
  <2>2. TaskOf(n) \in Task /\ TaskOf(n) \in 1..live /\ n \in Worker
    BY <1>1, TaskOfIs, Zenon
  <2> QED
    BY <2>1, <2>2, SMTT(30)
<1>4. TaskOf(i) = live - Len(pending) + i
  BY Zenon DEF TaskOf
<1>5. /\ Item.worker = i /\ Item.task = live - Len(pending) + i /\ Item.task \in Task
      /\ Item.task \in 1..live /\ i \in Worker
  BY <1>2, <1>3, <1>4, Zenon DEF Item
<1> DEFINE k == Len(pending)
           t == Item.task
<1>6. k \in Nat /\ live \in Nat /\ i \in Nat /\ i >= 1 /\ t = live - k + i /\ t \in 1..live
  BY <1>1, <1>5, SMTT(30)
<1>7. \A n : TaskOf(n) = live - k + n
  BY Zenon DEF TaskOf
<1> HIDE DEF k, t
<1>8. t <= live /\ t > live - k /\ \A n \in Nat : TaskOf(n) = t <=> n = i
  BY <1>6, <1>7, SMTT(30)
<1> QED
  BY <1>1, <1>2, <1>5, <1>8, ZenonT(40) DEF k, t

LEMMA JournalStep ==
    ASSUME IInv, journal
    PROVE  IInv'
<1> DEFINE t == Item.task
           to == Target(phase[t])
<1>1. /\ pc = "journal" /\ UNCHANGED <<coordinator, producer, channels, workers>>
      /\ \/ /\ phase' = [phase EXCEPT ![t] = to]
            /\ pc' = IF to = "Accepted" THEN "journal" ELSE "send"
            /\ why' = why
         \/ /\ pc' = "drop_senders" /\ why' = "journal"
            /\ phase' = phase \/ (to = "Published" /\ phase' = [phase EXCEPT ![t] = to])
  <2>1. [phase EXCEPT ![t] = phase[t]] = phase
    BY ItemIs, Zenon DEF journal, IInv, TypeOK
  <2> QED
    BY <2>1, Zenon DEF journal, Return
<1>2. /\ wave' = wave /\ stage' = stage /\ i' = i /\ pending' = pending /\ expected' = expected
      /\ received' = received /\ live' = live /\ sealed' = sealed
      /\ cap' = cap /\ total' = total /\ left' = left
      /\ summary' = summary /\ request' = request /\ senders' = senders /\ receiver' = receiver
      /\ wpc' = wpc /\ offer' = offer /\ published' = published /\ verifier' = verifier
      /\ out' = out /\ runs' = runs
  BY <1>1, Zenon DEF coordinator, producer, channels, workers
<1>3. /\ i \in 1..Len(pending) /\ i \in Worker /\ Len(pending) \in Nat /\ live \in Nat
      /\ t \in Task /\ t <= live /\ t > live - Len(pending)
      /\ \A n \in Nat : TaskOf(n) = t <=> n = i
  BY <1>1, ItemIs, Zenon
<1>4. /\ TypeOK /\ CountInv /\ PendingInv /\ PhaseInv /\ WorkerInv /\ EndInv /\ why = "none" /\ pc \in Driving
      /\ stage \in Stages /\ phase \in [Task -> P!Phase \cup {"Absent"}]
  BY <1>1, Zenon DEF IInv, CountInv, Driving, TypeOK
<1> HIDE DEF t, to
<1>5. /\ \A n \in 1..Len(pending) : n # i => phase[TaskOf(n)] = IF n < i THEN After ELSE Before
      /\ phase[t] = Before \/ (stage = "Publish" /\ phase[t] = "Accepted")
  <2>1. \A n \in 1..Len(pending) :
              \/ phase[TaskOf(n)] = IF n < i THEN After ELSE Before
              \/ n = i /\ stage = "Publish" /\ phase[TaskOf(n)] = "Accepted"
    BY <1>1, <1>4, Zenon DEF PhaseInv
  <2>2. PICK n \in 1..Len(pending) : n = i
    BY <1>3, Zenon
  <2>3. TaskOf(n) = t /\ ~(n < i)
    BY <1>3, <2>2, SMTT(30)
  <2> QED
    BY <2>1, <2>2, <2>3, Zenon
<1>6. /\ phase[t] \in {"Prepared", "Offered", "Accepted", "Published"} /\ to \in P!Phase
      /\ to \notin Applied /\ phase[t] \notin Active
      /\ \/ to = After /\ to # "Accepted"
         \/ to = "Accepted" /\ stage = "Publish"
  <2>1. CASE stage = "Offer"
    BY <1>5, <2>1, Zenon DEF Before, After, to, Target, P!Phase, Applied, Active
  <2>2. CASE stage = "Publish"
    BY <1>5, <2>2, Zenon DEF Before, After, to, Target, P!Phase, Applied, Active
  <2>3. CASE stage = "Run"
    BY <1>5, <2>3, Zenon DEF Before, After, to, Target, P!Phase, Applied, Active
  <2> QED
    BY <1>4, <2>1, <2>2, <2>3, Zenon DEF Stages
<1>7. \A u \in Task : (u > live => phase[u] = "Absent" /\ runs[u] = 0) /\ phase[u] \notin Applied
  BY <1>4, Zenon DEF PhaseInv, EndInv
<1>8. ASSUME phase' = [phase EXCEPT ![t] = to]
      PROVE  /\ phase' \in [Task -> P!Phase \cup {"Absent"}]
             /\ phase'[t] = to /\ \A u \in Task : u # t => phase'[u] = phase[u]
             /\ \A u \in Task : (u > live => phase'[u] = "Absent") /\ phase'[u] \notin Applied
                                /\ (phase[u] \in Active => phase'[u] \in Active)
  <2>1. /\ phase' \in [Task -> P!Phase \cup {"Absent"}]
        /\ phase'[t] = to /\ \A u \in Task : u # t => phase'[u] = phase[u]
    BY <1>3, <1>4, <1>6, <1>8, ZenonT(40)
  <2>2. \A u \in Task : u > live => u # t
    BY <1>3, SMTT(30) DEF Task
  <2> QED
    BY <1>6, <1>7, <2>1, <2>2, Zenon
<1>9. CASE /\ phase' = [phase EXCEPT ![t] = to]
           /\ pc' = IF to = "Accepted" THEN "journal" ELSE "send"
           /\ why' = why
  <2>1. /\ phase' \in [Task -> P!Phase \cup {"Absent"}]
        /\ phase'[t] = to /\ \A u \in Task : u # t => phase'[u] = phase[u]
        /\ \A u \in Task : (u > live => phase'[u] = "Absent") /\ phase'[u] \notin Applied
                           /\ (phase[u] \in Active => phase'[u] \in Active)
    BY <1>8, <1>9, Zenon
  <2>2. SameWave /\ pc' \in {"journal", "send"} /\ pc' \in Driving /\ (\A n : TaskOf(n)' = TaskOf(n))
        /\ Before' = Before /\ After' = After
    BY <1>2, <1>9, Zenon DEF SameWave, Driving, TaskOf, Before, After
  <2>3. TypeOK'
    BY <1>2, <1>4, <2>1, <2>2, Zenon DEF TypeOK
  <2>4. \A n \in 1..Len(pending) :
            phase'[TaskOf(n)] = IF n = i THEN to ELSE IF n < i THEN After ELSE Before
    <3> SUFFICES ASSUME NEW n \in 1..Len(pending)
                 PROVE  phase'[TaskOf(n)] = IF n = i THEN to ELSE IF n < i THEN After ELSE Before
      BY Zenon
    <3>1. TaskOf(n) \in Task /\ n \in Nat
      BY <1>4, TaskOfIs, SMTT(30)
    <3> QED
      BY <1>3, <1>5, <2>1, <3>1, Zenon
  <2>5. PhaseInv'
    <3>1. pc' = "journal" =>
            \A n \in 1..Len(pending) :
                \/ phase'[TaskOf(n)] = IF n < i THEN After ELSE Before
                \/ n = i /\ stage = "Publish" /\ phase'[TaskOf(n)] = "Accepted"
      BY <1>6, <1>9, <2>4, Zenon
    <3>2. pc' = "send" => \A n \in 1..Len(pending) : phase'[TaskOf(n)] = IF n <= i THEN After ELSE Before
      <4> SUFFICES ASSUME pc' = "send", NEW n \in 1..Len(pending)
                   PROVE  phase'[TaskOf(n)] = IF n <= i THEN After ELSE Before
        BY Zenon
      <4>1. n <= i <=> n < i \/ n = i
        BY <1>3, SMTT(30)
      <4> QED
        BY <1>6, <1>9, <2>4, <4>1, Zenon
    <3>3. ASSUME NEW u \in 1..(live - Len(pending))
          PROVE  phase'[u] = "ResultSealed" /\ runs[u] = 1 /\ \E m \in 1..Len(sealed) : sealed[m] = u
      <4>1. u \in 1..live /\ u # t
        BY <1>3, SMTT(30)
      <4>2. u \in Task
        BY <1>4, <4>1, LiveTasks, Zenon
      <4> QED
        BY <1>4, <2>1, <4>1, <4>2, ZenonT(40) DEF PhaseInv
    <3>4. \A u \in Task : u > live => phase'[u] = "Absent" /\ runs[u] = 0
      BY <1>7, <2>1, Zenon
    <3>5. pc' \notin {"prepare", "fill", "collect"}
      BY <2>2, Zenon
    <3> QED
      BY <1>2, <2>2, <3>1, <3>2, <3>3, <3>4, <3>5, ZenonT(40) DEF PhaseInv
  <2>6. ReceivedInv'
    BY <2>2, Zenon DEF ReceivedInv
  <2>7. WorkerInv'
    <3> SUFFICES ASSUME NEW w \in Worker
                 PROVE  IF w < i THEN Busy(w)' ELSE Rests(w, IF w <= Len(pending) THEN stage ELSE "Offer")'
      BY <1>2, <2>2, Zenon DEF WorkerInv, Leaving, Joined
    <3>1. IF w < i THEN Busy(w) ELSE Rests(w, IF w <= Len(pending) THEN stage ELSE "Offer")
      BY <1>1, <1>4, Zenon DEF WorkerInv
    <3>2. CASE w < i
      <4>1. w \in 1..Len(pending)
        BY <1>3, <3>2, SMTT(30) DEF Worker
      <4>2. TaskOf(w) \in Task
        BY <1>4, <4>1, TaskOfIs, Zenon
      <4> QED
        BY <1>2, <1>4, <2>1, <2>2, <3>1, <3>2, <4>2, SameWorker, ZenonT(40)
    <3>3. CASE ~(w < i)
      <4>1. ASSUME NEW s, Rests(w, s) PROVE Rests(w, s)'
        BY <1>2, <2>2, <4>1, Zenon DEF Rests, Holds, SameWave, Initial
      <4>2. CASE w <= Len(pending)
        <5>1. Rests(w, stage)
          BY <3>1, <3>3, <4>2, Zenon
        <5>2. Rests(w, stage)'
          BY <1>2, <2>2, <5>1, Zenon DEF Rests, Holds, SameWave, Initial
        <5> QED
          BY <1>2, <3>3, <4>2, <5>2, Zenon
      <4>3. CASE ~(w <= Len(pending))
        BY <1>2, <3>1, <3>3, <4>1, <4>3, ZenonT(40)
      <4> QED
        BY <4>2, <4>3, Zenon
    <3> QED
      BY <3>2, <3>3, Zenon
  <2>8. i' <= Len(pending)
    BY <1>2, <1>3, SMTT(30)
  <2> QED
    BY <1>1, <1>2, <1>9, <2>1, <2>2, <2>3, <2>5, <2>6, <2>7, <2>8, WaveStep, ZenonT(40)
<1>10. CASE /\ pc' = "drop_senders" /\ why' = "journal"
            /\ phase' = phase \/ (to = "Published" /\ phase' = [phase EXCEPT ![t] = to])
  <2>1. CASE phase' = phase
    <3>1. UNCHANGED <<coordinator, producer, phase, request, workers>>
      BY <1>1, <1>2, <2>1, Zenon
    <3> QED
      BY <1>4, <1>10, <3>1, GiveUp, Zenon
  <2>2. CASE phase' = [phase EXCEPT ![t] = to]
    <3>1. UNCHANGED producer /\ UNCHANGED <<offer, published, verifier, runs>>
      BY <1>1, <1>2, Zenon
    <3>2. /\ wpc' \in [Worker -> {"recv", "compute", "send", "exited"}]
          /\ FunctionOn(request', Worker) /\ FunctionOn(out', Worker)
      BY <1>2, <1>4, Zenon DEF TypeOK
    <3>3. \A v \in Worker : wpc'[v] = wpc[v] /\ request'[v] = request[v] /\ out'[v] = out[v]
      BY <1>2, Zenon
    <3> QED
      BY <1>2, <1>4, <1>8, <1>10, <2>2, <3>1, <3>2, <3>3, LeaveStep, ZenonT(40)
  <2> QED
    BY <1>10, <2>1, <2>2, Zenon
<1> QED
  BY <1>1, <1>9, <1>10, Zenon

LEMMA SendStep ==
    ASSUME IInv, send
    PROVE  IInv'
<1> DEFINE t == Item.task
<1>1. pc = "send"
  BY Zenon DEF send
<1>2. /\ i \in 1..Len(pending) /\ i \in Worker /\ Len(pending) \in Nat /\ live \in Nat
      /\ Item.worker = i /\ t \in Task
      /\ \A n \in Nat : TaskOf(n) = t <=> n = i
  BY <1>1, ItemIs, Zenon
<1>3. /\ TypeOK /\ CountInv /\ PendingInv /\ PhaseInv /\ WorkerInv /\ EndInv /\ why = "none" /\ pc \in Driving
      /\ stage \in Stages /\ wave \in Waves /\ FunctionOn(request, Worker)
  BY <1>1, Zenon DEF IInv, CountInv, Driving, TypeOK
<1>4. PICK k \in 1..Len(pending) : k = i
  BY <1>2, Zenon
<1>5. k \in Worker /\ k \in Nat /\ TaskOf(k) = t /\ ~(k < i) /\ k <= Len(pending)
  BY <1>2, <1>4, SMTT(30)
<1>6. Rests(k, stage)
  BY <1>1, <1>3, <1>5, Zenon DEF WorkerInv
<1>7. wpc[k] = "recv" /\ request[k] = <<>> /\ Holds(k, stage)
  BY <1>6, Zenon DEF Rests
<1> DEFINE r == [kind |-> stage, task |-> t, op |-> wave]
<1>8. /\ request' = [request EXCEPT ![k] = <<r>>]
      /\ IF i < Len(pending)
         THEN i' = i + 1 /\ pc' = "journal" /\ UNCHANGED <<expected, received>>
         ELSE /\ i' = 1 /\ pc' = "collect"
              /\ expected' = {pending[n].task : n \in DOMAIN pending}
              /\ received' = <<>>
      /\ why' = why
      /\ UNCHANGED <<wave, stage, pending, live, sealed, producer, phase, senders, receiver, workers>>
  BY <1>2, <1>4, <1>7, Zenon DEF send
<1>9. /\ SameWave /\ stage' = stage /\ sealed' = sealed /\ phase' = phase /\ senders' = senders
      /\ receiver' = receiver /\ wpc' = wpc /\ out' = out /\ wave' = wave /\ pending' = pending /\ live' = live
      /\ runs' = runs
  BY <1>8, Zenon DEF SameWave, producer, workers
<1> HIDE DEF t, r
<1>10. /\ FunctionOn(request', Worker) /\ request'[k] = <<r>>
       /\ \A v \in Worker : v # k => request'[v] = request[v]
  BY <1>3, <1>5, <1>8, Zenon DEF FunctionOn
<1>11. Wave = {pending[n].task : n \in DOMAIN pending} /\ Wave \subseteq Task
  <2>1. DOMAIN pending = 1..Len(pending)
    BY <1>3, SMTT(30) DEF TypeOK
  <2>2. ASSUME NEW n \in 1..Len(pending) PROVE pending[n].task = TaskOf(n) /\ TaskOf(n) \in Task
    <3>1. pending[n] = [task |-> TaskOf(n), worker |-> n]
      BY <1>3, Zenon DEF PendingInv
    <3> QED
      BY <1>3, <3>1, TaskOfIs, SMTT(30)
  <2> QED
    BY <2>1, <2>2, Zenon DEF Wave
<1>12. \A n : TaskOf(n)' = TaskOf(n)
  BY <1>9, Zenon DEF TaskOf
<1>13. /\ \A n \in 1..Len(pending) : phase[TaskOf(n)] = IF n <= i THEN After ELSE Before
       /\ After' = After /\ Before' = Before
  BY <1>1, <1>3, <1>9, Zenon DEF PhaseInv, After, Before
<1>14. Busy(k)'
  <2>1. /\ wpc'[k] = "recv" /\ stage' = stage /\ TaskOf(k)' = TaskOf(k)
        /\ request'[k] = <<[kind |-> stage, task |-> TaskOf(k), op |-> wave]>>
    BY <1>5, <1>7, <1>9, <1>10, <1>12, Zenon DEF r
  <2>2. Holds(k, stage)'
    BY <1>7, <1>9, <1>12, Zenon DEF Holds, SameWave, Initial
  <2>3. stage = "Run" => phase'[TaskOf(k)] \in Active
    <3>1. k <= i
      BY <1>2, <1>4, SMTT(30)
    <3> QED
      BY <1>9, <1>13, <3>1, Zenon DEF After, Active
  <2>4. Asked(k)'
    BY <1>9, <2>1, <2>2, <2>3, Zenon DEF Asked
  <2> QED
    BY <1>5, <1>9, <2>4, Zenon DEF Busy
<1>15. ASSUME NEW v \in Worker, v < i PROVE Busy(v)'
  <2>1. Busy(v) /\ v # k
    BY <1>1, <1>2, <1>3, <1>4, <1>15, SMTT(30) DEF WorkerInv, Worker
  <2> QED
    BY <1>3, <1>9, <1>10, <2>1, SameWorker, ZenonT(40)
<1>16. ASSUME NEW v \in Worker, ~(v < i), v # i
       PROVE  /\ v <= Len(pending) => Rests(v, stage)'
              /\ ~(v <= Len(pending)) => Rests(v, "Offer")'
  <2>1. /\ v <= Len(pending) => Rests(v, stage)
        /\ ~(v <= Len(pending)) => Rests(v, "Offer")
    BY <1>1, <1>3, <1>16, Zenon DEF WorkerInv
  <2>2. request'[v] = request[v]
    BY <1>4, <1>10, <1>16, Zenon
  <2> QED
    BY <1>9, <1>12, <2>1, <2>2, Zenon DEF Rests, Holds, SameWave, Initial
<1>17. /\ \A u \in Task : u > live => phase[u] = "Absent" /\ runs[u] = 0
       /\ \A u \in Task : phase[u] \notin Applied
       /\ \A u \in 1..(live - Len(pending)) :
             phase[u] = "ResultSealed" /\ runs[u] = 1 /\ \E m \in 1..Len(sealed) : sealed[m] = u
  BY <1>3, Zenon DEF PhaseInv, EndInv
<1>18. CASE i < Len(pending)
  <2>1. i' = i + 1 /\ pc' = "journal" /\ expected' = expected /\ received' = received
    BY <1>8, <1>18, Zenon
  <2>2. i' \in Nat \ {0} /\ i' <= Len(pending)
    BY <1>2, <1>18, <2>1, SMTT(30)
  <2>3. TypeOK'
    BY <1>3, <1>9, <1>10, <2>1, <2>2, Zenon DEF TypeOK, SameWave, Driving
  <2>4. PhaseInv'
    <3>1. \A n \in 1..Len(pending) : phase'[TaskOf(n)] = IF n < i' THEN After ELSE Before
      <4> SUFFICES ASSUME NEW n \in 1..Len(pending)
                   PROVE  phase'[TaskOf(n)] = IF n < i' THEN After ELSE Before
        BY Zenon
      <4>1. n < i' <=> n <= i
        BY <1>2, <2>1, SMTT(30)
      <4> QED
        BY <1>9, <1>13, <4>1, Zenon
    <3> QED
      BY <1>9, <1>12, <1>13, <1>17, <2>1, <3>1, Zenon DEF PhaseInv
  <2>5. ReceivedInv'
    BY <2>1, Zenon DEF ReceivedInv
  <2>6. WorkerInv'
    <3> SUFFICES ASSUME NEW v \in Worker
                 PROVE  IF v < i' THEN Busy(v)' ELSE Rests(v, IF v <= Len(pending) THEN stage ELSE "Offer")'
      BY <1>9, <2>1, Zenon DEF WorkerInv, Leaving, Joined
    <3>1. v < i' <=> v < i \/ v = k
      BY <1>2, <1>4, <2>1, SMTT(30) DEF Worker
    <3>2. v # i <=> v # k
      BY <1>4, Zenon
    <3>3. CASE v < i'
      BY <1>14, <1>15, <3>1, <3>3, ZenonT(40)
    <3>4. CASE ~(v < i') /\ v <= Len(pending)
      BY <1>9, <1>16, <3>1, <3>2, <3>4, Zenon
    <3>5. CASE ~(v < i') /\ ~(v <= Len(pending))
      BY <1>9, <1>16, <3>1, <3>2, <3>5, Zenon
    <3> QED
      BY <3>3, <3>4, <3>5, Zenon
  <2> QED
    BY <1>1, <1>8, <1>9, <1>17, <2>1, <2>2, <2>3, <2>4, <2>5, <2>6, WaveStep, ZenonT(40)
<1>19. CASE ~(i < Len(pending))
  <2>1. i' = 1 /\ pc' = "collect" /\ expected' = Wave /\ received' = <<>> /\ i = Len(pending)
    <3>1. i = Len(pending)
      BY <1>2, <1>19, SMTT(30)
    <3> QED
      BY <1>8, <1>11, <1>19, <3>1, Zenon
  <2>2. received' \in Seq(Task) /\ Len(received') = 0 /\ i' \in Nat \ {0}
    BY <2>1, SMTT(30)
  <2>3. TypeOK'
    BY <1>3, <1>9, <1>10, <1>11, <2>1, <2>2, Zenon DEF TypeOK, SameWave, Driving
  <2>4. PhaseInv'
    <3>1. \A n \in 1..Len(pending) : phase'[TaskOf(n)] = After
      BY <1>9, <1>13, <2>1, SMTT(30)
    <3> QED
      BY <1>9, <1>12, <1>13, <1>17, <2>1, <3>1, ZenonT(40) DEF PhaseInv
  <2>5. ReceivedInv'
    <3>1. Wave' = Wave
      BY <1>9, <1>12, Zenon DEF Wave
    <3>2. Wave # {}
      BY <1>4, Zenon DEF Wave
    <3>3. \A m \in 1..Len(received') : FALSE
      BY <2>2, SMTT(30)
    <3> QED
      BY <2>1, <3>1, <3>2, <3>3, Zenon DEF ReceivedInv
  <2>6. WorkerInv'
    <3> SUFFICES ASSUME NEW v \in Worker
                 PROVE  IF v <= Len(pending)
                        THEN IF TaskOf(v) \in Wave THEN Busy(v)' ELSE Answered(v)'
                        ELSE Rests(v, "Offer")'
      BY <1>9, <1>12, <2>1, Zenon DEF WorkerInv, Leaving, Joined
    <3>1. CASE v <= Len(pending)
      <4>1. v \in 1..Len(pending) /\ (v < i \/ v = k)
        BY <1>2, <1>4, <2>1, <3>1, SMTT(30) DEF Worker
      <4>2. TaskOf(v) \in Wave
        BY <4>1, Zenon DEF Wave
      <4> QED
        BY <1>14, <1>15, <3>1, <4>1, <4>2, Zenon
    <3>2. CASE ~(v <= Len(pending))
      <4>1. ~(v < i) /\ v # i
        BY <1>2, <2>1, <3>2, SMTT(30) DEF Worker
      <4> QED
        BY <1>16, <3>2, <4>1, Zenon
    <3> QED
      BY <3>1, <3>2, Zenon
  <2> QED
    BY <1>1, <1>8, <1>9, <1>17, <2>1, <2>3, <2>4, <2>5, <2>6, WaveStep, ZenonT(40)
<1> QED
  BY <1>18, <1>19, Zenon

LEMMA ReceiveStep ==
    ASSUME IInv, NEW w \in Worker, receive(w)
    PROVE  IInv'
<1> DEFINE c == out[w]
           n == TaskOf(w)
<1>1. /\ pc = "collect" /\ wpc[w] = "send"
      /\ wpc' = [wpc EXCEPT ![w] = IF ~c.ok \/ c.answer = "Finish" THEN "exited" ELSE "recv"]
      /\ out' = [out EXCEPT ![w] = <<>>]
      /\ UNCHANGED <<wave, i, pending, live, sealed, producer, phase, channels,
                     offer, published, verifier, panicked, runs>>
      /\ IF Awaited(w, c)
         THEN /\ expected' = expected \ {c.task} /\ received' = Append(received, c.task)
              /\ pc' = IF expected' # {} THEN "collect" ELSE IF stage = "Run" THEN "seal" ELSE "journal"
              /\ stage' = IF expected' # {} THEN stage ELSE IF stage = "Offer" THEN "Publish" ELSE "Run"
              /\ why' = why
         ELSE /\ pc' = "drop_senders" /\ why' = "worker"
              /\ expected' = expected /\ received' = received /\ stage' = stage
  BY Zenon DEF receive, Return
<1>2. /\ SameWave /\ i' = i /\ sealed' = sealed /\ phase' = phase /\ request' = request /\ senders' = senders
      /\ receiver' = receiver /\ wave' = wave /\ pending' = pending /\ live' = live /\ runs' = runs
      /\ UNCHANGED producer /\ UNCHANGED <<offer, published, verifier, runs>>
  BY <1>1, Zenon DEF SameWave, producer, channels
<1>3. /\ TypeOK /\ CountInv /\ PendingInv /\ PhaseInv /\ ReceivedInv /\ WorkerInv /\ EndInv /\ why = "none"
      /\ pc \in Driving /\ stage \in Stages /\ wave \in Waves /\ i = 1 /\ FunctionOn(out, Worker)
      /\ wpc \in [Worker -> {"recv", "compute", "send", "exited"}] /\ received \in Seq(Task)
      /\ expected \subseteq Task
  BY <1>1, Zenon DEF IInv, CountInv, Driving, TypeOK
<1>4. Busy(w) /\ n \in expected /\ w <= Len(pending)
  <2>1. (\A s : ~Rests(w, s)) /\ ~Answered(w)
    BY <1>1, Zenon DEF Rests, Answered
  <2> QED
    BY <1>1, <1>3, <2>1, Zenon DEF WorkerInv
<1>5. request[w] = <<>> /\ (c.ok => c = Completion(n, Answer[stage]) /\ Holds(w, Following))
  BY <1>1, <1>4, Zenon DEF Busy, Asked, Computes, Answers, Gone
<1>6. w \in 1..Len(pending) /\ n \in Task /\ Len(pending) \in Nat
  <2>1. w \in 1..Len(pending) /\ Len(pending) \in Nat
    BY <1>3, <1>4, SMTT(30) DEF Worker, TypeOK
  <2> QED
    BY <1>3, <2>1, TaskOfIs, Zenon
<1> HIDE DEF c, n
<1>7. /\ wpc' \in [Worker -> {"recv", "compute", "send", "exited"}]
      /\ wpc'[w] = IF ~c.ok \/ c.answer = "Finish" THEN "exited" ELSE "recv"
      /\ \A v \in Worker : v # w => wpc'[v] = wpc[v]
  BY <1>1, <1>3, Zenon
<1>8. FunctionOn(out', Worker) /\ \A v \in Worker : v # w => out'[v] = out[v]
  BY <1>1, <1>3, Zenon DEF FunctionOn
<1>9. /\ \A u \in Task : u > live => phase[u] = "Absent" /\ runs[u] = 0
      /\ \A u \in Task : phase[u] \notin Applied
      /\ \A u \in 1..(live - Len(pending)) :
            phase[u] = "ResultSealed" /\ runs[u] = 1 /\ \E m \in 1..Len(sealed) : sealed[m] = u
      /\ \A m \in 1..Len(pending) :
            phase[TaskOf(m)] = After \/ (stage = "Run" /\ phase[TaskOf(m)] = "Renewed")
  BY <1>1, <1>3, Zenon DEF PhaseInv, EndInv
<1>10. FunctionOn(request', Worker)
  BY <1>2, <1>3, ZenonT(40) DEF TypeOK
<1>11. CASE ~Awaited(w, c)
  <2>1. pc' = "drop_senders" /\ why' = "worker" /\ expected' = expected /\ received' = received /\ stage' = stage
    BY <1>1, <1>11, Zenon DEF c
  <2>2. \A v \in Worker : \/ wpc'[v] = wpc[v] /\ request'[v] = request[v] /\ out'[v] = out[v]
                          \/ wpc'[v] \in {"recv", "exited"} /\ request'[v] = <<>>
    BY <1>2, <1>5, <1>7, <1>8, Zenon
  <2>3. /\ phase' \in [Task -> P!Phase \cup {"Absent"}]
        /\ \A u \in Task : /\ u > live => phase'[u] = "Absent"
                           /\ phase'[u] \notin Applied
                           /\ phase[u] \in Active => phase'[u] \in Active
    BY <1>2, <1>3, <1>9, Zenon DEF TypeOK
  <2> QED
    BY <1>2, <1>3, <1>7, <1>8, <1>10, <2>1, <2>2, <2>3, LeaveStep, Zenon
<1>12. CASE Awaited(w, c)
  <2>1. c.ok /\ c.task = n /\ c.answer = Answer[stage] /\ Holds(w, Following)
    <3>1. c.ok
      BY <1>12, Zenon DEF Awaited
    <3>2. c = Completion(n, Answer[stage]) /\ Holds(w, Following)
      BY <1>5, <3>1, Zenon
    <3> QED
      BY <3>1, <3>2, Zenon DEF Completion
  <2>2. /\ expected' = expected \ {n} /\ received' = Append(received, n)
        /\ pc' = IF expected' # {} THEN "collect" ELSE IF stage = "Run" THEN "seal" ELSE "journal"
        /\ stage' = IF expected' # {} THEN stage ELSE IF stage = "Offer" THEN "Publish" ELSE "Run"
        /\ why' = why
    BY <1>1, <1>12, <2>1, Zenon DEF c
  <2>3. wpc'[w] = IF stage = "Run" /\ wave = "Finish" THEN "exited" ELSE "recv"
    <3>1. Answer[stage] = "Finish" <=> stage = "Run" /\ wave = "Finish"
      BY <1>3, SMTT(30) DEF Answer, Stages
    <3> QED
      BY <1>7, <2>1, <3>1, ZenonT(40)
  <2>4. /\ received' \in Seq(Task) /\ Len(received') = Len(received) + 1 /\ Len(received) \in Nat
        /\ received'[Len(received) + 1] = n /\ \A m \in 1..Len(received) : received'[m] = received[m]
    BY <1>3, <1>6, <2>2, SMTT(30)
  <2>5. \A m : TaskOf(m)' = TaskOf(m)
    BY <1>2, Zenon DEF TaskOf
  <2>6. Wave' = Wave /\ n \in Wave
    BY <1>2, <1>6, <2>5, Zenon DEF Wave, n
  <2> DEFINE k == Len(received)
  <2>7. /\ \A m, p \in 1..k : received[m] = received[p] => m = p
        /\ \A m \in 1..k : received[m] \in Wave \ expected
        /\ \A u \in Wave : u \in expected \/ \E m \in 1..k : received[m] = u
        /\ expected \subseteq Wave
    BY <1>1, <1>3, Zenon DEF ReceivedInv
  <2>8. k \in Nat /\ Len(received') = k + 1 /\ received'[k + 1] = n
        /\ \A m \in 1..k : received'[m] = received[m] /\ received'[m] # n
    BY <1>4, <2>4, <2>7, ZenonT(40) DEF n
  <2> HIDE DEF k
  <2>9. /\ \A m, p \in 1..(k + 1) : received'[m] = received'[p] => m = p
        /\ \A m \in 1..(k + 1) : received'[m] \in Wave \ expected'
        /\ \A u \in Wave : u \in expected' \/ \E m \in 1..(k + 1) : received'[m] = u
        /\ expected' \subseteq Wave
    <3>1. \A m \in 1..(k + 1) : m = k + 1 \/ m \in 1..k
      BY <2>8, SMTT(30)
    <3>2. 1..k \subseteq 1..(k + 1) /\ k + 1 \in 1..(k + 1)
      BY <2>8, SMTT(30)
    <3>3. \A m, p \in 1..(k + 1) : received'[m] = received'[p] => m = p
      BY <2>7, <2>8, <3>1, Zenon
    <3>4. \A m \in 1..(k + 1) : received'[m] \in Wave \ expected'
      BY <2>2, <2>6, <2>7, <2>8, <3>1, Zenon
    <3>5. \A u \in Wave : u \in expected' \/ \E m \in 1..(k + 1) : received'[m] = u
      BY <2>2, <2>7, <2>8, <3>2, ZenonT(40)
    <3> QED
      BY <2>2, <2>7, <3>3, <3>4, <3>5, Zenon
  <2>10. Answered(w)' \/ stage' # stage
    <3> SUFFICES ASSUME stage' = stage PROVE Answered(w)'
      BY Zenon
    <3>1. Following' = Following /\ Initial' = Initial
      BY <1>2, ZenonT(40) DEF Following, Initial
    <3>2. Holds(w, Following)'
      BY <1>2, <2>1, <2>5, <3>1, Zenon DEF Holds, SameWave
    <3> QED
      BY <1>2, <1>5, <2>3, <3>1, <3>2, Zenon DEF Answered
  <2>11. ASSUME NEW v \in Worker, v # w, stage' = stage
         PROVE  /\ Busy(v) => Busy(v)'
                /\ \A s : Rests(v, s) => Rests(v, s)'
                /\ Answered(v) => Answered(v)'
    BY <1>2, <1>3, <1>7, <1>8, <2>11, SameWorker, Zenon
  <2>12. ASSUME NEW v \in Worker, v # w
         PROVE  IF v <= Len(pending) THEN IF TaskOf(v) \in expected' THEN Busy(v) ELSE Answered(v)
                                     ELSE Rests(v, "Offer")
    <3>1. IF v <= Len(pending) THEN IF TaskOf(v) \in expected THEN Busy(v) ELSE Answered(v)
                               ELSE Rests(v, "Offer")
      BY <1>1, <1>3, Zenon DEF WorkerInv
    <3>2. v <= Len(pending) => TaskOf(v) # n
      <4>1. live \in Nat
        BY <1>3, ZenonT(40) DEF TypeOK
      <4> QED
        BY <1>6, <2>12, <4>1, SMTT(30) DEF TaskOf, n, Worker
    <3> QED
      BY <2>2, <3>1, <3>2, ZenonT(40)
  <2>13. n \notin expected'
    BY <2>2, ZenonT(40)
  <2>14. CASE pc' \in {"collect", "seal"}
    <3>1. stage' = stage /\ (pc' = "seal" => stage = "Run" /\ expected' = {}) /\ (pc' = "collect" => expected' # {})
      BY <1>3, <2>2, <2>14, ZenonT(40) DEF Stages
    <3>2. TypeOK'
      <4>1. expected' \subseteq Task /\ pc' \in Driving
        BY <1>3, <2>2, <2>14, ZenonT(40) DEF Driving
      <4> QED
        BY <1>2, <1>3, <1>7, <1>8, <1>10, <2>4, <3>1, <4>1, Zenon DEF TypeOK, SameWave
    <3>3. PhaseInv'
      <4>1. After' = After
        BY <3>1, Zenon DEF After
      <4> QED
        BY <1>2, <1>9, <2>5, <2>14, <3>1, <4>1, ZenonT(40) DEF PhaseInv
    <3>4. ReceivedInv'
      <4>1. pc' = "seal" => \A m \in 1..(k + 1) : ~(m < i') /\ phase'[received'[m]] \in Active
        <5> SUFFICES ASSUME pc' = "seal", NEW m \in 1..(k + 1)
                     PROVE  ~(m < i') /\ phase'[received'[m]] \in Active
          BY Zenon
        <5>1. ~(m < i')
          BY <1>2, <1>3, <2>8, SMTT(30)
        <5>2. PICK p \in 1..Len(pending) : received'[m] = TaskOf(p)
          BY <2>9, Zenon DEF Wave
        <5>3. After = "Running"
          BY <3>1, Zenon DEF After
        <5> QED
          BY <1>2, <1>9, <5>1, <5>2, <5>3, SMTT(30) DEF Active
      <4> QED
        BY <2>6, <2>8, <2>9, <2>14, <3>1, <4>1, Zenon DEF ReceivedInv
    <3>5. WorkerInv'
      <4> SUFFICES ASSUME NEW v \in Worker
                   PROVE  IF v <= Len(pending)
                          THEN IF TaskOf(v) \in expected' THEN Busy(v)' ELSE Answered(v)'
                          ELSE Rests(v, "Offer")'
        BY <1>2, <2>5, <2>14, ZenonT(40) DEF WorkerInv, Leaving, Joined
      <4>1. CASE v = w
        BY <1>4, <2>10, <2>13, <3>1, <4>1, ZenonT(40) DEF n
      <4>2. CASE v # w
        BY <2>11, <2>12, <3>1, <4>2, ZenonT(40)
      <4> QED
        BY <4>1, <4>2, Zenon
    <3>6. pc' = "seal" => i' <= Len(received')
      BY <1>2, <1>3, <2>8, SMTT(30)
    <3>7. pc' = "collect" => i' = 1
      BY <1>2, <1>3, Zenon
    <3>8. \A u \in Task : phase'[u] \notin Applied
      BY <1>2, <1>9, Zenon
    <3> QED
      BY <1>1, <1>2, <2>2, <2>14, <3>2, <3>3, <3>4, <3>5, <3>6, <3>7, <3>8, WaveStep, ZenonT(40)
  <2>15. CASE pc' = "journal"
    <3>1. /\ expected' = {} /\ stage # "Run" /\ i' = 1
          /\ stage' = IF stage = "Offer" THEN "Publish" ELSE "Run"
      BY <1>2, <1>3, <2>2, <2>15, Zenon
    <3>2. stage' = Following /\ Before' = After /\ stage' \in Stages
      BY <1>3, <3>1, ZenonT(40) DEF Following, Before, After, Stages
    <3>3. TypeOK'
      <4>1. expected' \subseteq Task /\ pc' \in Driving
        BY <2>15, <3>1, ZenonT(40) DEF Driving
      <4> QED
        BY <1>2, <1>3, <1>7, <1>8, <1>10, <2>4, <3>2, <4>1, Zenon DEF TypeOK, SameWave
    <3>4. PhaseInv'
      <4>1. \A m \in 1..Len(pending) : phase'[TaskOf(m)] = IF m < i' THEN After' ELSE Before'
        <5> SUFFICES ASSUME NEW m \in 1..Len(pending)
                     PROVE  phase'[TaskOf(m)] = IF m < i' THEN After' ELSE Before'
          BY Zenon
        <5>1. ~(m < i')
          BY <1>6, <3>1, SMTT(30)
        <5> QED
          BY <1>2, <1>9, <3>1, <3>2, <5>1, Zenon
      <4> QED
        BY <1>2, <1>9, <2>5, <2>15, <4>1, ZenonT(40) DEF PhaseInv
    <3>5. ReceivedInv'
      BY <2>15, ZenonT(40) DEF ReceivedInv
    <3>6. WorkerInv'
      <4> SUFFICES ASSUME NEW v \in Worker
                   PROVE  /\ ~(v < i')
                          /\ v <= Len(pending) => Rests(v, stage)'
                          /\ ~(v <= Len(pending)) => Rests(v, "Offer")'
        BY <1>2, <2>15, Zenon DEF WorkerInv, Leaving, Joined
      <4>1. ~(v < i') /\ request'[v] = request[v] /\ Initial' = Initial
        BY <1>2, <3>1, SMTT(30) DEF Worker, Initial
      <4>2. ASSUME v <= Len(pending) PROVE wpc'[v] = "recv" /\ request[v] = <<>> /\ Holds(v, Following)
        <5>1. CASE v = w
          BY <1>5, <2>1, <2>3, <3>1, <5>1, Zenon
        <5>2. CASE v # w
          <6>1. Answered(v)
            BY <2>12, <3>1, <4>2, <5>2, ZenonT(40)
          <6> QED
            BY <1>7, <3>1, <5>2, <6>1, Zenon DEF Answered
        <5> QED
          BY <5>1, <5>2, Zenon
      <4>3. ASSUME v <= Len(pending) PROVE Rests(v, stage)'
        <5>1. Holds(v, stage)'
          BY <1>2, <2>5, <3>2, <4>1, <4>2, <4>3, Zenon DEF Holds, SameWave
        <5> QED
          BY <4>1, <4>2, <4>3, <5>1, Zenon DEF Rests
      <4>4. ASSUME ~(v <= Len(pending)) PROVE Rests(v, "Offer")'
        <5>1. v # w /\ Rests(v, "Offer")
          BY <1>4, <2>12, <4>4, ZenonT(40)
        <5> QED
          BY <1>2, <1>7, <2>5, <4>1, <5>1, ZenonT(40) DEF Rests, Holds, SameWave
      <4> QED
        BY <4>1, <4>3, <4>4, ZenonT(40)
    <3>7. i' <= Len(pending) /\ \A u \in Task : phase'[u] \notin Applied
      BY <1>2, <1>6, <1>9, <3>1, SMTT(30)
    <3> QED
      BY <1>1, <1>2, <2>2, <2>15, <3>3, <3>4, <3>5, <3>6, <3>7, WaveStep, ZenonT(40)
  <2> QED
    BY <2>2, <2>14, <2>15, Zenon
<1> QED
  BY <1>11, <1>12, Zenon

LEMMA DisconnectedStep ==
    ASSUME IInv, disconnected
    PROVE  IInv'
<1>1. /\ pc \in Driving /\ pc' = "drop_senders" /\ why' = "pool"
      /\ UNCHANGED <<coordinator, producer, phase, request, workers>>
  BY Zenon DEF disconnected, Return, Driving, channels
<1> QED
  BY <1>1, GiveUp, Zenon

LEMMA HeartbeatStep ==
    ASSUME IInv, heartbeat
    PROVE  IInv'
<1>1. PICK renewed \in SUBSET expected :
          phase' = [t \in Task |-> IF t \in renewed THEN "Renewed" ELSE phase[t]]
  BY Zenon DEF heartbeat
<1>2. /\ pc = "collect" /\ stage = "Run" /\ UNCHANGED <<coordinator, producer, channels, workers>>
      /\ (pc' = pc /\ why' = why) \/ (pc' = "drop_senders" /\ why' = "heartbeat")
  BY Zenon DEF heartbeat, Return
<1>3. /\ SameWave /\ i' = i /\ stage' = stage /\ expected' = expected /\ received' = received /\ sealed' = sealed
      /\ request' = request /\ senders' = senders /\ receiver' = receiver /\ wpc' = wpc /\ out' = out
      /\ wave' = wave /\ pending' = pending /\ live' = live /\ runs' = runs
      /\ UNCHANGED producer /\ UNCHANGED <<offer, published, verifier, runs>>
  BY <1>2, ZenonT(40) DEF SameWave, coordinator, producer, channels, workers
<1>4. /\ TypeOK /\ CountInv /\ PendingInv /\ PhaseInv /\ ReceivedInv /\ WorkerInv /\ EndInv /\ why = "none"
      /\ pc \in Driving /\ i = 1 /\ expected \subseteq Wave /\ expected \subseteq Task
      /\ Len(pending) \in Nat /\ live \in Nat /\ phase \in [Task -> P!Phase \cup {"Absent"}]
      /\ Len(pending) <= live
  <2>1. TypeOK /\ CountInv /\ PendingInv /\ PhaseInv /\ ReceivedInv /\ WorkerInv /\ EndInv
    BY Zenon DEF IInv
  <2>2. pc \in Driving
    BY <1>2, Zenon DEF Driving
  <2>3. why = "none" /\ i = 1
    BY <1>2, <2>1, <2>2, Zenon DEF CountInv
  <2>4. expected \subseteq Wave
    BY <1>2, <2>1, Zenon DEF ReceivedInv
  <2>5. /\ expected \subseteq Task /\ live \in Nat /\ phase \in [Task -> P!Phase \cup {"Absent"}]
        /\ pending \in Seq([task : Int, worker : Worker])
    BY <2>1, Zenon DEF TypeOK
  <2>6. Len(pending) \in Nat
    BY <2>5, SMTT(30)
  <2>7. Len(pending) <= live
    BY <2>1, Zenon DEF PendingInv
  <2> QED
    BY <2>1, <2>2, <2>3, <2>4, <2>5, <2>6, <2>7, Zenon
<1>5. /\ \A u \in Task : u > live => phase[u] = "Absent" /\ runs[u] = 0
      /\ \A u \in Task : phase[u] \notin Applied
      /\ \A u \in 1..(live - Len(pending)) :
            phase[u] = "ResultSealed" /\ runs[u] = 1 /\ \E m \in 1..Len(sealed) : sealed[m] = u
      /\ \A m \in 1..Len(pending) : phase[TaskOf(m)] = After \/ phase[TaskOf(m)] = "Renewed"
  BY <1>2, <1>4, Zenon DEF PhaseInv, EndInv
<1>6. \A u \in renewed : u \in Task /\ u > live - Len(pending) /\ u <= live
  <2> SUFFICES ASSUME NEW u \in renewed PROVE u \in Task /\ u > live - Len(pending) /\ u <= live
    BY Zenon
  <2>1. PICK m \in 1..Len(pending) : u = TaskOf(m)
    BY <1>4, Zenon DEF Wave
  <2> QED
    BY <1>4, <2>1, SMTT(30) DEF TaskOf
<1>7. \A u \in Task : phase'[u] = IF u \in renewed THEN "Renewed" ELSE phase[u]
  BY <1>1, Zenon
<1>8. phase' \in [Task -> P!Phase \cup {"Absent"}]
  BY <1>1, <1>4, Zenon DEF P!Phase
<1>9. \A u \in Task : /\ u > live => phase'[u] = "Absent"
                      /\ phase'[u] \notin Applied
                      /\ phase[u] \in Active => phase'[u] \in Active
  <2>1. \A u \in Task : u > live => u \notin renewed
    BY <1>4, <1>6, SMTT(30) DEF Task
  <2> QED
    BY <1>5, <1>7, <2>1, ZenonT(40) DEF Applied, Active
<1>10. CASE pc' = pc /\ why' = why
  <2>1. TypeOK'
    BY <1>3, <1>4, <1>8, <1>10, ZenonT(40) DEF TypeOK, SameWave
  <2>2. /\ \A m : TaskOf(m)' = TaskOf(m)
        /\ After' = After /\ Wave' = Wave
    BY <1>3, ZenonT(40) DEF TaskOf, After, Wave
  <2>3. PhaseInv'
    <3>1. ASSUME NEW u \in 1..(live - Len(pending))
          PROVE  phase'[u] = "ResultSealed" /\ runs[u] = 1 /\ \E m \in 1..Len(sealed) : sealed[m] = u
      <4>1. u \in 1..live /\ u \notin renewed
        BY <1>4, <1>6, SMTT(30)
      <4>2. u \in Task
        BY <1>4, <4>1, LiveTasks, Zenon
      <4> QED
        BY <1>5, <1>7, <4>1, <4>2, Zenon
    <3>2. ASSUME NEW m \in 1..Len(pending)
          PROVE  phase'[TaskOf(m)] = After \/ phase'[TaskOf(m)] = "Renewed"
      <4>1. TaskOf(m) \in Task
        BY <1>4, TaskOfIs, Zenon
      <4> QED
        BY <1>5, <1>7, <4>1, Zenon
    <3> QED
      BY <1>2, <1>3, <1>5, <1>9, <1>10, <2>2, <3>1, <3>2, SMTT(30) DEF PhaseInv
  <2>4. ReceivedInv'
    BY <1>2, <1>3, <1>4, <1>10, <2>2, Zenon DEF ReceivedInv
  <2>5. WorkerInv'
    <3> SUFFICES ASSUME NEW v \in Worker
                 PROVE  IF v <= Len(pending)
                        THEN IF TaskOf(v) \in expected THEN Busy(v)' ELSE Answered(v)'
                        ELSE Rests(v, "Offer")'
      BY <1>2, <1>3, <1>10, <2>2, Zenon DEF WorkerInv, Leaving, Joined
    <3>1. IF v <= Len(pending) THEN IF TaskOf(v) \in expected THEN Busy(v) ELSE Answered(v)
                               ELSE Rests(v, "Offer")
      BY <1>2, <1>4, Zenon DEF WorkerInv
    <3>2. CASE v <= Len(pending)
      <4>1. v \in 1..Len(pending)
        BY <1>4, <3>2, SMTT(30) DEF Worker
      <4>2. TaskOf(v) \in Task
        BY <1>4, <4>1, TaskOfIs, ZenonT(40)
      <4>3. (Busy(v) => Busy(v)') /\ (Answered(v) => Answered(v)')
        BY <1>3, <1>4, <1>9, <4>2, SameWorker, Zenon
      <4> QED
        BY <3>1, <3>2, <4>3, Zenon
    <3>3. CASE ~(v <= Len(pending))
      BY <1>3, <2>2, <3>1, <3>3, Zenon DEF Rests, Holds, SameWave, Initial
    <3> QED
      BY <3>2, <3>3, Zenon
  <2> QED
    BY <1>2, <1>3, <1>4, <1>9, <1>10, <2>1, <2>3, <2>4, <2>5, WaveStep, ZenonT(40)
<1>11. CASE pc' = "drop_senders" /\ why' = "heartbeat"
  <2>1. /\ wpc' \in [Worker -> {"recv", "compute", "send", "exited"}]
        /\ FunctionOn(request', Worker) /\ FunctionOn(out', Worker)
    BY <1>3, <1>4, Zenon DEF TypeOK
  <2>2. \A v \in Worker : wpc'[v] = wpc[v] /\ request'[v] = request[v] /\ out'[v] = out[v]
    BY <1>3, Zenon
  <2> QED
    BY <1>3, <1>4, <1>8, <1>9, <1>11, <2>1, <2>2, LeaveStep, Zenon
<1> QED
  BY <1>2, <1>10, <1>11, Zenon

LEMMA SealStep ==
    ASSUME IInv, seal
    PROVE  IInv'
<1> USE WaveAssumption
<1> DEFINE t == received[i]
           Last ==
              /\ i' = 1 /\ pending' = <<>>
              /\ \/ wave = "Finish" /\ pc' = "drop_senders" /\ why' = "ok" /\ wave' = wave
                 \/ wave # "Finish" /\ summary /\ pc' = "reserve" /\ wave' = "Finish" /\ why' = why
                 \/ wave # "Finish" /\ pc' = "fill" /\ wave' = "Consume" /\ why' = why
<1>1. /\ pc = "seal" /\ UNCHANGED <<stage, expected, received, live, producer, channels, workers>>
      /\ \/ /\ phase' = [phase EXCEPT ![t] = "ResultSealed"] /\ sealed' = Append(sealed, t)
            /\ IF i < Len(received)
               THEN i' = i + 1 /\ UNCHANGED <<pc, why, wave, pending>>
               ELSE Last
         \/ /\ pc' = "drop_senders" /\ why' = "seal"
            /\ UNCHANGED <<i, wave, pending, phase, sealed>>
  BY Zenon DEF seal, Return
<1>2. /\ stage' = stage /\ expected' = expected /\ received' = received /\ live' = live /\ UNCHANGED producer
      /\ cap' = cap /\ total' = total /\ left' = left /\ summary' = summary
      /\ request' = request /\ senders' = senders /\ receiver' = receiver /\ UNCHANGED workers
      /\ wpc' = wpc /\ offer' = offer /\ published' = published /\ verifier' = verifier /\ out' = out
      /\ runs' = runs
  BY <1>1, ZenonT(40) DEF producer, channels, workers
<1>3. /\ TypeOK /\ CountInv /\ PendingInv /\ PhaseInv /\ ReceivedInv /\ WorkerInv /\ EndInv /\ why = "none"
      /\ pc \in Driving /\ i <= Len(received) /\ expected = {} /\ stage = "Run"
      /\ Len(pending) \in Nat /\ live \in Nat /\ phase \in [Task -> P!Phase \cup {"Absent"}]
      /\ Len(pending) <= live /\ i \in Nat \ {0} /\ received \in Seq(Task) /\ sealed \in Seq(Task)
      /\ Len(pending) >= 1 /\ (wave # "Consume" => Len(pending) = N) /\ wave \in Waves
      /\ senders = TRUE /\ receiver = TRUE
  <2>1. TypeOK /\ CountInv /\ PendingInv /\ PhaseInv /\ ReceivedInv /\ WorkerInv /\ EndInv
    BY Zenon DEF IInv
  <2>2. pc \in Driving
    BY <1>1, Zenon DEF Driving
  <2>3. why = "none" /\ senders = TRUE /\ receiver = TRUE /\ i <= Len(received)
    BY <1>1, <2>1, <2>2, Zenon DEF CountInv
  <2>4. expected = {} /\ stage = "Run"
    BY <1>1, <2>1, Zenon DEF ReceivedInv
  <2>5. /\ live \in Nat /\ phase \in [Task -> P!Phase \cup {"Absent"}]
        /\ i \in Nat \ {0} /\ received \in Seq(Task) /\ sealed \in Seq(Task) /\ wave \in Waves
        /\ pending \in Seq([task : Int, worker : Worker])
    BY <2>1, Zenon DEF TypeOK
  <2>6. Len(pending) \in Nat
    BY <2>5, SMTT(30)
  <2>7. Len(pending) <= live /\ Len(pending) >= 1 /\ (wave # "Consume" => Len(pending) = N)
    BY <1>1, <2>1, Zenon DEF PendingInv
  <2> QED
    BY <2>1, <2>2, <2>3, <2>4, <2>5, <2>6, <2>7, Zenon
<1>4. /\ \A m, n \in 1..Len(received) : received[m] = received[n] => m = n
      /\ \A m \in 1..Len(received) : received[m] \in Wave
      /\ \A u \in Wave : \E m \in 1..Len(received) : received[m] = u
      /\ \A m \in 1..Len(received) :
            IF m < i THEN /\ phase[received[m]] = "ResultSealed"
                          /\ \E n \in 1..Len(sealed) : sealed[n] = received[m]
                     ELSE phase[received[m]] \in Active
  BY <1>1, <1>3, Zenon DEF ReceivedInv
<1>5. i \in 1..Len(received) /\ Len(received) \in Nat /\ Len(sealed) \in Nat
  BY <1>3, SMTT(30)
<1>6. t \in Wave /\ t \in Task
  BY <1>3, <1>4, <1>5, SMTT(30)
<1>7. /\ \A u \in Task : u > live => phase[u] = "Absent" /\ runs[u] = 0
      /\ \A u \in Task : phase[u] \notin Applied
      /\ \A u \in 1..(live - Len(pending)) :
            phase[u] = "ResultSealed" /\ runs[u] = 1 /\ \E m \in 1..Len(sealed) : sealed[m] = u
  BY <1>3, Zenon DEF PhaseInv, EndInv
<1>8. ASSUME NEW v \in Worker
      PROVE  IF v <= Len(pending) THEN Answered(v) ELSE Rests(v, "Offer")
  BY <1>1, <1>3, Zenon DEF WorkerInv
<1>9. \A u \in Wave : u > live - Len(pending) /\ u <= live
  <2> SUFFICES ASSUME NEW u \in Wave PROVE u > live - Len(pending) /\ u <= live
    BY Zenon
  <2>1. PICK m \in 1..Len(pending) : u = TaskOf(m)
    BY Zenon DEF Wave
  <2> QED
    BY <1>3, <2>1, SMTT(30) DEF TaskOf
<1>10. CASE /\ pc' = "drop_senders" /\ why' = "seal"
            /\ UNCHANGED <<i, wave, pending, phase, sealed>>
  <2>1. UNCHANGED <<coordinator, producer, phase, request, workers>>
    BY <1>2, <1>10, Zenon DEF coordinator
  <2> QED
    BY <1>3, <1>10, <2>1, GiveUp, ZenonT(40)
<1>11. ASSUME phase' = [phase EXCEPT ![t] = "ResultSealed"], sealed' = Append(sealed, t)
       PROVE  /\ phase' \in [Task -> P!Phase \cup {"Absent"}]
              /\ \A u \in Task : phase'[u] = IF u = t THEN "ResultSealed" ELSE phase[u]
              /\ \A u \in Task : (u > live => phase'[u] = "Absent") /\ phase'[u] \notin Applied
              /\ sealed' \in Seq(Task)
              /\ \E m \in 1..Len(sealed') : sealed'[m] = t
              /\ \A u : (\E m \in 1..Len(sealed) : sealed[m] = u) => \E m \in 1..Len(sealed') : sealed'[m] = u
              /\ \A u \in 1..(live - Len(pending)) :
                    phase'[u] = "ResultSealed" /\ runs[u] = 1 /\ \E m \in 1..Len(sealed') : sealed'[m] = u
  <2>1. /\ phase' \in [Task -> P!Phase \cup {"Absent"}]
        /\ \A u \in Task : phase'[u] = IF u = t THEN "ResultSealed" ELSE phase[u]
    BY <1>3, <1>11, ZenonT(40) DEF P!Phase
  <2>2. \A u \in Task : (u > live => phase'[u] = "Absent") /\ phase'[u] \notin Applied
    <3>1. \A u \in Task : u > live => u # t
      BY <1>3, <1>6, <1>9, SMTT(30) DEF Task
    <3> QED
      BY <1>7, <2>1, <3>1, ZenonT(40) DEF Applied
  <2> HIDE DEF t
  <2> DEFINE k == Len(sealed)
  <2>3. /\ sealed' \in Seq(Task) /\ k \in Nat /\ Len(sealed') = k + 1
        /\ sealed'[k + 1] = t /\ \A m \in 1..k : sealed'[m] = sealed[m]
    BY <1>3, <1>6, <1>11, SMTT(30)
  <2> HIDE DEF k
  <2>4. k + 1 \in 1..Len(sealed') /\ 1..k \subseteq 1..Len(sealed')
    BY <2>3, SMTT(30)
  <2>5. \A u : (\E m \in 1..k : sealed[m] = u) => \E m \in 1..Len(sealed') : sealed'[m] = u
    BY <2>3, <2>4, Zenon
  <2>6. ASSUME NEW u \in 1..(live - Len(pending))
        PROVE  phase'[u] = "ResultSealed" /\ runs[u] = 1 /\ \E m \in 1..Len(sealed') : sealed'[m] = u
    <3>1. u \in 1..live
      BY <1>3, SMTT(30)
    <3>2. u \in Task
      BY <1>3, <3>1, LiveTasks, Zenon
    <3> QED
      BY <1>7, <2>1, <2>5, <3>2, Zenon DEF k
  <2> QED
    BY <2>1, <2>2, <2>3, <2>4, <2>5, <2>6, Zenon DEF k
<1>12. CASE /\ phase' = [phase EXCEPT ![t] = "ResultSealed"] /\ sealed' = Append(sealed, t)
            /\ i < Len(received) /\ i' = i + 1 /\ UNCHANGED <<pc, why, wave, pending>>
  <2>1. /\ phase' \in [Task -> P!Phase \cup {"Absent"}]
        /\ \A u \in Task : phase'[u] = IF u = t THEN "ResultSealed" ELSE phase[u]
        /\ \A u \in Task : (u > live => phase'[u] = "Absent") /\ phase'[u] \notin Applied
        /\ sealed' \in Seq(Task)
        /\ \E m \in 1..Len(sealed') : sealed'[m] = t
        /\ \A u : (\E m \in 1..Len(sealed) : sealed[m] = u) => \E m \in 1..Len(sealed') : sealed'[m] = u
        /\ \A u \in 1..(live - Len(pending)) :
              phase'[u] = "ResultSealed" /\ runs[u] = 1 /\ \E m \in 1..Len(sealed') : sealed'[m] = u
    BY <1>11, <1>12, ZenonT(40)
  <2>2. /\ SameWave /\ pc' = "seal" /\ why' = why /\ wave' = wave /\ pending' = pending
        /\ \A m : TaskOf(m)' = TaskOf(m)
        /\ Wave' = Wave
    BY <1>1, <1>2, <1>12, ZenonT(40) DEF SameWave, TaskOf, Wave
  <2>3. i' \in Nat \ {0} /\ i' <= Len(received')
    BY <1>2, <1>3, <1>5, <1>12, SMTT(30)
  <2>4. TypeOK'
    BY <1>2, <1>3, <2>1, <2>2, <2>3, Zenon DEF TypeOK, Driving
  <2>5. PhaseInv'
    BY <1>2, <1>7, <2>1, <2>2, Zenon DEF PhaseInv
  <2>6. ReceivedInv'
    <3>1. ASSUME NEW m \in 1..Len(received)
          PROVE  IF m < i' THEN /\ phase'[received[m]] = "ResultSealed"
                                /\ \E n \in 1..Len(sealed') : sealed'[n] = received[m]
                           ELSE phase'[received[m]] \in Active
      <4>1. received[m] \in Task
        BY <1>3, SMTT(30)
      <4>2. m < i' <=> m < i \/ m = i
        BY <1>3, <1>12, SMTT(30)
      <4>3. CASE m = i
        BY <2>1, <4>1, <4>2, <4>3, Zenon
      <4>4. CASE m # i
        <5>1. received[m] # t
          BY <1>4, <1>5, <4>4, Zenon
        <5> QED
          BY <1>4, <2>1, <4>1, <4>2, <4>4, <5>1, Zenon
      <4> QED
        BY <4>3, <4>4, Zenon
    <3> QED
      BY <1>2, <1>3, <1>4, <2>2, <3>1, Zenon DEF ReceivedInv
  <2>7. WorkerInv'
    <3> SUFFICES ASSUME NEW v \in Worker
                 PROVE  IF v <= Len(pending) THEN Answered(v)' ELSE Rests(v, "Offer")'
      BY <1>2, <1>3, <2>2, Zenon DEF WorkerInv, Leaving, Joined
    <3>1. IF v <= Len(pending) THEN Answered(v) ELSE Rests(v, "Offer")
      BY <1>8, Zenon
    <3>2. Following' = Following /\ Initial' = Initial
      BY <1>2, <2>2, Zenon DEF Following, Initial
    <3> QED
      BY <1>2, <2>2, <3>1, <3>2, Zenon DEF Rests, Holds, SameWave, Answered
  <2> QED
    BY <1>1, <1>2, <2>1, <2>2, <2>3, <2>4, <2>5, <2>6, <2>7, WaveStep, ZenonT(40)
<1>13. CASE /\ phase' = [phase EXCEPT ![t] = "ResultSealed"] /\ sealed' = Append(sealed, t)
            /\ ~(i < Len(received)) /\ Last
  <2>1. /\ phase' \in [Task -> P!Phase \cup {"Absent"}]
        /\ \A u \in Task : phase'[u] = IF u = t THEN "ResultSealed" ELSE phase[u]
        /\ \A u \in Task : (u > live => phase'[u] = "Absent") /\ phase'[u] \notin Applied
        /\ sealed' \in Seq(Task)
        /\ \E m \in 1..Len(sealed') : sealed'[m] = t
        /\ \A u : (\E m \in 1..Len(sealed) : sealed[m] = u) => \E m \in 1..Len(sealed') : sealed'[m] = u
        /\ \A u \in 1..(live - Len(pending)) :
              phase'[u] = "ResultSealed" /\ runs[u] = 1 /\ \E m \in 1..Len(sealed') : sealed'[m] = u
    BY <1>11, <1>13, Zenon
  <2>2. i = Len(received) /\ i' = 1 /\ pending' = <<>> /\ Len(pending') = 0
    BY <1>3, <1>5, <1>13, SMTT(30)
  <2>3. \A u \in 1..live :
            phase'[u] = "ResultSealed" /\ runs'[u] = 1 /\ \E m \in 1..Len(sealed') : sealed'[m] = u
    <3> SUFFICES ASSUME NEW u \in 1..live
                 PROVE  phase'[u] = "ResultSealed" /\ runs[u] = 1 /\ \E m \in 1..Len(sealed') : sealed'[m] = u
      BY <1>2, Zenon
    <3>1. CASE u \in 1..(live - Len(pending))
      BY <2>1, <3>1, Zenon
    <3>2. CASE ~(u \in 1..(live - Len(pending)))
      <4> DEFINE p == u - (live - Len(pending))
      <4>1. p \in 1..Len(pending) /\ TaskOf(p) = u /\ p \in Worker /\ p <= Len(pending)
        <5> DEFINE k == Len(pending)
        <5>1. k \in Nat /\ live \in Nat /\ k <= live /\ ~(u \in 1..(live - k)) /\ k <= N
          BY <1>3, <3>2, Zenon DEF PendingInv
        <5>2. p = u - (live - k) /\ TaskOf(p) = live - k + p
          BY Zenon DEF TaskOf
        <5> HIDE DEF k, p
        <5>3. p \in 1..k /\ live - k + p = u /\ p \in Worker /\ p <= k
          BY <5>1, <5>2, SMTT(30) DEF Worker
        <5> QED
          BY <5>2, <5>3, Zenon DEF k
      <4> HIDE DEF p
      <4>2. Answered(p)
        BY <1>8, <4>1, Zenon
      <4>3. runs[u] = 1
        BY <1>3, <4>1, <4>2, Zenon DEF Answered, Holds, Following
      <4>4. u \in Wave
        BY <4>1, Zenon DEF Wave
      <4>5. PICK m \in 1..Len(received) : received[m] = u
        BY <1>4, <4>4, Zenon
      <4>6. u \in Task
        BY <1>3, LiveTasks, Zenon
      <4>7. m < i \/ m = i
        BY <1>3, <2>2, SMTT(30)
      <4>8. CASE m = i
        BY <2>1, <4>3, <4>5, <4>6, <4>8, Zenon
      <4>9. CASE m < i
        BY <1>4, <2>1, <4>3, <4>5, <4>6, <4>9, Zenon
      <4> QED
        BY <4>7, <4>8, <4>9, Zenon
    <3> QED
      BY <3>1, <3>2, Zenon
  <2>4. /\ \A u \in Task : (u > live' => phase'[u] = "Absent" /\ runs'[u] = 0)
        /\ live' - Len(pending') = live /\ live >= 1
    <3>1. live - 0 = live /\ live >= 1
      BY <1>3, SMTT(30)
    <3> QED
      BY <1>2, <1>7, <2>1, <2>2, <3>1, ZenonT(40)
  <2>5. ASSUME NEW v \in Worker
        PROVE  /\ offer[v] = 0 /\ published[v] = <<>> /\ request[v] = <<>>
               /\ verifier[v] = IF wave = "Finish" THEN "finished" ELSE "ready"
               /\ wpc[v] = IF wave = "Finish" THEN "exited" ELSE "recv"
    <3>1. CASE v <= Len(pending)
      BY <1>3, <1>8, <3>1, Zenon DEF Answered, Holds, Following
    <3>2. CASE ~(v <= Len(pending))
      <4>1. Len(pending) # N
        BY <3>2, SMTT(30) DEF Worker
      <4>2. wave = "Consume"
        BY <1>3, <4>1, Zenon
      <4> QED
        BY <1>8, <3>2, <4>2, ZenonT(40) DEF Rests, Holds, Initial
    <3> QED
      BY <3>1, <3>2, Zenon
  <2>6. pending' \in Seq([task : Int, worker : Worker]) /\ i' \in Nat \ {0}
    BY <2>2, SMTT(30)
  <2>7. /\ total' = total /\ Batches(left)' = Batches(left) /\ Batches(total)' = Batches(total)
        /\ live + Batches(left) <= Batches(total) + Allowance
        /\ Allowance = IF wave = "Finish" THEN N + N ELSE N
    BY <1>1, <1>2, <1>3, ZenonT(40) DEF Batches, CountInv, Allowance, Waves
  <2>8. PendingInv'
    <3>1. 0 <= N /\ 0 <= live'
      BY <1>2, <1>3, SMTT(30)
    <3>2. \A n \in 1..Len(pending') : FALSE
      BY <2>2, SMTT(30)
    <3>3. pc' \in {"drop_senders", "reserve", "fill"}
      BY <1>13, Zenon
    <3>4. Len(pending') = i' - 1
      BY <2>2, SMTT(30)
    <3> QED
      BY <2>2, <3>1, <3>2, <3>3, <3>4, ZenonT(40) DEF PendingInv
  <2>9. CASE wave = "Finish" /\ pc' = "drop_senders" /\ why' = "ok" /\ wave' = wave
    <3>0. pc' \in Leaving /\ pc' \notin Driving /\ pc' \notin Joined
          /\ pc' \notin {"spawn", "reserve", "prepare", "fill", "journal", "send", "collect", "seal"}
          /\ pc' \notin {"merge", "apply", "complete", "done"}
      BY <2>9, Zenon DEF Leaving, Driving, Joined
    <3>1. TypeOK'
      BY <1>2, <1>3, <2>1, <2>6, <2>9, <3>0, Zenon DEF TypeOK
    <3>2. CountInv'
      <4>1. Allowance' = N + N
        BY <2>9, Zenon DEF Allowance
      <4>2. (live + Batches(left) <= Batches(total) + Allowance)'
        BY <1>2, <2>7, <2>9, <4>1, Zenon
      <4>3. why' # "task_bound"
        BY <2>9, Zenon
      <4> QED
        BY <1>2, <1>3, <2>7, <2>9, <3>0, <4>2, <4>3, ZenonT(40) DEF CountInv
    <3>3. PhaseInv'
      BY <2>4, <3>0, Zenon DEF PhaseInv
    <3>4. ReceivedInv'
      BY <3>0, Zenon DEF ReceivedInv
    <3>5. \A v \in Worker : Gone(v)' /\ verifier'[v] = "finished"
      BY <1>2, <2>5, <2>9, Zenon DEF Gone
    <3>6. WorkerInv'
      BY <3>0, <3>5, Zenon DEF WorkerInv, Gone
    <3>7. EndInv'
      <4>1. Succeeded'
        BY <1>2, <2>2, <2>3, <2>4, <2>9, <3>5, ZenonT(40) DEF Succeeded, P!Sealed
      <4> QED
        BY <2>1, <3>0, <4>1, ZenonT(40) DEF EndInv
    <3> QED
      BY <2>8, <3>1, <3>2, <3>3, <3>4, <3>6, <3>7, ZenonT(40) DEF IInv
  <2>10. CASE /\ wave # "Finish" /\ why' = why
              /\ \/ summary /\ pc' = "reserve" /\ wave' = "Finish"
                 \/ pc' = "fill" /\ wave' = "Consume"
    <3>1. TypeOK'
      <4>1. pc' \in Driving /\ wave' \in Waves
        BY <2>10, Zenon DEF Driving, Waves
      <4> QED
        BY <1>2, <1>3, <2>1, <2>6, <4>1, Zenon DEF TypeOK
    <3>2. CountInv'
      <4>1. Allowance' = N
        BY <2>10, Zenon DEF Allowance
      <4>2. (live + Batches(left) <= Batches(total) + Allowance)'
        BY <1>2, <2>7, <2>10, <4>1, ZenonT(40)
      <4>3. /\ pc' \notin {"spawn", "prepare", "journal", "send", "collect", "seal"} /\ i' <= N
            /\ pc' = "reserve" => wave' # "Consume"
            /\ pc' = "fill" => wave' = "Consume"
            /\ wave' = "Finish" => summary'
        BY <1>2, <2>2, <2>10, SMTT(30)
      <4> QED
        BY <1>2, <1>3, <2>7, <2>10, <4>2, <4>3, ZenonT(40) DEF CountInv
    <3>3. Ready'
      <4>1. ASSUME NEW v \in Worker PROVE Rests(v, "Offer")'
        <5>1. Initial' = "ready"
          BY <2>10, Zenon DEF Initial
        <5>2. ~(v <= Len(pending'))
          BY <2>2, SMTT(30) DEF Worker
        <5> QED
          BY <1>2, <2>5, <2>10, <5>1, <5>2, Zenon DEF Rests, Holds
      <4>2. \A n \in 1..Len(pending') : FALSE
        BY <2>2, SMTT(30)
      <4> QED
        BY <1>2, <2>1, <2>3, <2>4, <4>1, <4>2, Zenon DEF Ready
    <3> QED
      BY <2>8, <2>10, <3>1, <3>2, <3>3, ReadyStep, Zenon
  <2> QED
    BY <1>13, <2>9, <2>10, Zenon
<1> QED
  BY <1>1, <1>10, <1>12, <1>13, Zenon

--------------------------------------------------------------------------------
(* The invariant. *)

\* Every step of the coordinator, of a heartbeat and of a worker keeps the invariant.
LEMMA NextIInv == IInv /\ [Next]_vars => IInv'
<1> SUFFICES ASSUME IInv, [Next]_vars PROVE IInv'
  BY Zenon
<1>1. CASE Coordinator
  <2>1. CASE spawn
    BY <2>1, SpawnStep, Zenon
  <2>2. CASE reserve
    BY <2>2, ReserveStep, ZenonT(40)
  <2>3. CASE prepare
    BY <2>3, PrepareStep, ZenonT(40)
  <2>4. CASE fill
    BY <2>4, FillStep, Zenon
  <2>5. CASE journal
    BY <2>5, JournalStep, Zenon
  <2>6. CASE send
    BY <2>6, SendStep, Zenon
  <2>7. CASE \E w \in Worker : receive(w)
    BY <2>7, ReceiveStep, Zenon
  <2>8. CASE disconnected
    BY <2>8, DisconnectedStep, Zenon
  <2>9. CASE seal
    BY <2>9, SealStep, Zenon
  <2>10. CASE drop_senders \/ drop_receiver
    BY <2>10, DropStep, ZenonT(40)
  <2>11. CASE join
    BY <2>11, JoinStep, Zenon
  <2>12. CASE merge
    BY <2>12, MergeStep, Zenon
  <2>13. CASE apply
    BY <2>13, ApplyStep, Zenon
  <2>14. CASE complete
    BY <2>14, CompleteStep, Zenon
  <2>15. CASE fail_all
    BY <2>15, FailStep, Zenon
  <2> QED
    BY <1>1, <2>1, <2>2, <2>3, <2>4, <2>5, <2>6, <2>7, <2>8, <2>9, <2>10, <2>11, <2>12,
       <2>13, <2>14, <2>15, ZenonT(40) DEF Coordinator
<1>2. CASE heartbeat
  BY <1>2, HeartbeatStep, Zenon
<1>3. ASSUME NEW w \in Worker, durable_worker_main(w) PROVE IInv'
  <2>1. CASE worker_offer(w)
    BY <2>1, OfferStep, Zenon
  <2>2. CASE worker_publish(w)
    BY <2>2, PublishStep, Zenon
  <2>3. CASE worker_run(w)
    BY <2>3, RunStep, Zenon
  <2>4. CASE compute(w)
    BY <2>4, ComputeStep, Zenon
  <2>5. CASE worker_exit(w)
    BY <2>5, ExitStep, Zenon
  <2> QED
    BY <1>3, <2>1, <2>2, <2>3, <2>4, <2>5, Zenon DEF durable_worker_main
<1>4. CASE vars' = vars
  <2>1. /\ pc' = pc /\ why' = why /\ wave' = wave /\ stage' = stage /\ i' = i /\ pending' = pending
        /\ expected' = expected /\ received' = received /\ live' = live /\ sealed' = sealed
        /\ cap' = cap /\ total' = total /\ left' = left /\ summary' = summary /\ phase' = phase
        /\ request' = request /\ senders' = senders /\ receiver' = receiver
        /\ wpc' = wpc /\ offer' = offer /\ published' = published /\ verifier' = verifier
        /\ out' = out /\ runs' = runs
    BY <1>4, Zenon DEF vars, coordinator, producer, channels, workers
  <2>2. /\ total' = total /\ Allowance' = Allowance /\ \A n : TaskOf(n)' = TaskOf(n)
        /\ Initial' = Initial /\ Following' = Following /\ Before' = Before /\ After' = After
        /\ Batches(left)' = Batches(left) /\ Batches(total)' = Batches(total)
    BY <2>1, Zenon DEF Allowance, TaskOf, Initial, Following, Before, After, Batches
  <2>3. Wave' = Wave
    BY <2>1, <2>2, Zenon DEF Wave
  <2>4. TypeOK' /\ CountInv'
    BY <2>1, <2>2, ZenonT(40) DEF IInv, TypeOK, CountInv
  <2>5. PendingInv'
    BY <2>1, <2>2, ZenonT(40) DEF IInv, PendingInv
  <2>6. PhaseInv'
    BY <2>1, <2>2, ZenonT(40) DEF IInv, PhaseInv
  <2>7. ReceivedInv'
    BY <2>1, <2>3, ZenonT(40) DEF IInv, ReceivedInv
  <2>8. ASSUME NEW v \in Worker
        PROVE  /\ \A s : Holds(v, s)' = Holds(v, s) /\ Rests(v, s)' = Rests(v, s)
               /\ Gone(v)' = Gone(v) /\ Busy(v)' = Busy(v) /\ Answered(v)' = Answered(v)
    <3>1. \A s : Holds(v, s)' = Holds(v, s)
      BY <2>1, <2>2, Zenon DEF Holds
    <3>2. Answer[stage]' = Answer[stage]
      BY <2>1, Zenon DEF Answer
    <3>3. \A s : Rests(v, s)' = Rests(v, s)
      BY <2>1, <3>1, Zenon DEF Rests
    <3>4. Gone(v)' = Gone(v) /\ Answered(v)' = Answered(v)
      BY <2>1, <2>2, <3>1, Zenon DEF Gone, Answered
    <3>5. Asked(v)' = Asked(v) /\ Computes(v)' = Computes(v)
      BY <2>1, <2>2, <3>1, Zenon DEF Asked, Computes
    <3>6. Answers(v)' = Answers(v)
      BY <2>1, <2>2, <3>1, <3>2, Zenon DEF Answers, Completion
    <3> QED
      BY <2>1, <3>1, <3>3, <3>4, <3>5, <3>6, Zenon DEF Busy
  <2>9. WorkerInv'
    BY <2>1, <2>2, <2>8, ZenonT(40) DEF IInv, WorkerInv
  <2>10. EndInv'
    BY <2>1, <2>8, SMTT(30) DEF IInv, EndInv, Succeeded
  <2> QED
    BY <2>4, <2>5, <2>6, <2>7, <2>9, <2>10, Zenon DEF IInv
<1> QED
  BY <1>1, <1>2, <1>3, <1>4, Zenon DEF Next

\* The coordinator, its workers and the delegations they share stay in step: each worker
\* holds what the delegation of its place in the wave calls for, whatever order the threads
\* run in and wherever a call fails.
THEOREM Inductive == Spec => []IInv
<1>1. Init => IInv
  BY InitIInv, Zenon
<1>2. IInv /\ [Next]_vars => IInv'
  BY NextIInv, Zenon
<1> QED
  BY <1>1, <1>2, PTL DEF Spec

--------------------------------------------------------------------------------
(* What it says of the job. *)

\* execute_operation runs at most once for each delegation, and only while its
\* delegation is running or renewed.
THEOREM ExecutesOnceHolds == Spec => []ExecutesOnce
<1>1. ASSUME IInv PROVE ExecutesOnce
  <2>1. TypeOK /\ WorkerInv
    BY <1>1, Zenon DEF IInv
  <2>2. ASSUME NEW w \in Worker, wpc[w] = "compute"
        PROVE  phase[published[w][1]] \in {"Running", "Renewed"}
    <3>1. Busy(w)
      BY <1>1, <2>2, ActsWhenBusy, Zenon
    <3>2. Computes(w)
      BY <2>2, <3>1, Zenon DEF Busy, Asked, Answers, Gone
    <3> QED
      BY <3>2, SMTT(30) DEF Computes, Active
  <2>3. \A t \in Task : runs[t] <= 1
    <3>1. runs \in [Task -> 0..1]
      BY <2>1, Zenon DEF TypeOK
    <3> QED
      BY <3>1, SMTT(30)
  <2> QED
    BY <2>2, <2>3, Zenon DEF ExecutesOnce
<1> QED
  BY <1>1, Inductive, PTL

\* No result is applied until every delegation of the job has been executed and sealed.
THEOREM AppliedOnlyWhenAllSealedHolds == Spec => []AppliedOnlyWhenAllSealed
<1>1. ASSUME IInv PROVE AppliedOnlyWhenAllSealed
  <2> SUFFICES ASSUME \E t \in Task : phase[t] \in {"ResultApplied", "Completed"}
               PROVE  \A t \in 1..live : runs[t] = 1 /\ phase[t] \in P!Sealed \cup {"FailedClosed"}
    BY Zenon DEF AppliedOnlyWhenAllSealed
  <2>1. EndInv
    BY <1>1, Zenon DEF IInv
  <2>2. why = "ok"
    BY <2>1, Zenon DEF EndInv, Applied
  <2> QED
    BY <2>1, <2>2, Zenon DEF EndInv, Succeeded
<1> QED
  BY <1>1, Inductive, PTL

\* A job that returns a result has consumed every candidate, finished every verifier and
\* completed every delegation.
THEOREM OkIsCompleteHolds == Spec => []OkIsComplete
<1>1. ASSUME IInv PROVE OkIsComplete
  <2> SUFFICES ASSUME pc = "done"
               PROVE  /\ left = 0 /\ summary
                      /\ \A t \in 1..live : phase[t] = "Completed"
                      /\ \A w \in Worker : verifier[w] = "finished"
    BY Zenon DEF OkIsComplete
  <2>1. EndInv /\ CountInv
    BY <1>1, Zenon DEF IInv
  <2>2. Succeeded /\ \A t \in 1..live : phase[t] = "Completed"
    BY <2>1, Zenon DEF EndInv
  <2> QED
    BY <2>1, <2>2, Zenon DEF Succeeded, CountInv
<1> QED
  BY <1>1, Inductive, PTL

\* checked_maximum_task_count leaves room for every delegation of a job whose candidates
\* are within the cap: a job it refuses has more, those of its mirrored pass.
THEOREM TaskBoundSufficesHolds == Spec => []TaskBoundSuffices
<1>1. ASSUME IInv PROVE TaskBoundSuffices
  BY <1>1, Zenon DEF IInv, CountInv, TaskBoundSuffices
<1> QED
  BY <1>1, Inductive, PTL

\* A delegation's phase moves as the authority allows.
Moves(t) ==
    phase'[t] # phase[t] =>
        \/ phase[t] = "Absent" /\ phase'[t] = "Prepared"
        \/ P!valid_transition(phase[t], phase'[t])

\* One update of the phases moves one delegation.
LEMMA MovesOne ==
    ASSUME phase \in [Task -> P!Phase \cup {"Absent"}], NEW u, NEW to,
           phase' = [phase EXCEPT ![u] = to],
           u \in Task => \/ phase[u] = "Absent" /\ to = "Prepared"
                         \/ P!valid_transition(phase[u], to),
           NEW t \in Task
    PROVE  Moves(t)
<1>1. CASE t = u
  BY <1>1, Zenon DEF Moves
<1>2. CASE t # u
  BY <1>2, Zenon DEF Moves
<1> QED
  BY <1>1, <1>2, Zenon

LEMMA NextMoves ==
    ASSUME IInv, [Next]_vars, NEW t \in Task
    PROVE  Moves(t)
<1>1. /\ TypeOK /\ CountInv /\ PendingInv /\ PhaseInv /\ ReceivedInv /\ EndInv
      /\ phase \in [Task -> P!Phase \cup {"Absent"}] /\ live \in Nat
  BY Zenon DEF IInv, TypeOK
<1>2. CASE phase' = phase
  BY <1>2, Zenon DEF Moves
<1>3. CASE prepare \/ fill
  <2>1. CASE Prepared(i)
    <3>1. phase' = [phase EXCEPT ![live + 1] = "Prepared"]
      BY <2>1, Zenon DEF Prepared
    <3>2. live + 1 \in Task => phase[live + 1] = "Absent"
      <4>1. live + 1 > live
        BY <1>1, SMTT(30)
      <4> QED
        BY <1>1, <4>1, Zenon DEF PhaseInv
    <3> QED
      BY <1>1, <3>1, <3>2, MovesOne, Zenon
  <2>2. Prepared(i) \/ phase' = phase
    BY <1>3, Zenon DEF prepare, fill
  <2> QED
    BY <1>2, <2>1, <2>2, Zenon
<1>4. CASE journal
  <2> DEFINE u == Item.task
             to == Target(phase[u])
  <2>1. pc = "journal" /\ (phase' = phase \/ phase' = [phase EXCEPT ![u] = to])
    <3>1. [phase EXCEPT ![u] = IF to = "Published" THEN to ELSE @] \in {phase, [phase EXCEPT ![u] = to]}
      BY <1>1, Zenon
    <3> QED
      BY <1>4, <3>1, Zenon DEF journal
  <2>2. \/ phase[u] = Before
        \/ stage = "Publish" /\ phase[u] = "Accepted"
    <3>1. PICK k : k = i
      BY Zenon
    <3>2. k \in 1..Len(pending) /\ TaskOf(k) = u /\ k \in Nat /\ ~(k < i)
      BY <2>1, <3>1, ItemIs, SMTT(30)
    <3> QED
      BY <1>1, <2>1, <3>1, <3>2, Zenon DEF PhaseInv
  <2>3. stage \in Stages
    BY <1>1, Zenon DEF TypeOK
  <2>4. P!valid_transition(phase[u], to)
    BY <2>2, <2>3, Zenon DEF Stages, Before, Target, P!valid_transition, P!Terminal, P!Aborts
  <2> HIDE DEF u, to
  <2> QED
    BY <1>1, <1>2, <2>1, <2>4, MovesOne, Zenon
<1>5. CASE heartbeat
  <2>1. PICK renewed \in SUBSET expected :
           phase' = [x \in Task |-> IF x \in renewed THEN "Renewed" ELSE phase[x]]
    BY <1>5, Zenon DEF heartbeat
  <2>2. pc = "collect" /\ stage = "Run"
    BY <1>5, Zenon DEF heartbeat
  <2>3. CASE t \in renewed
    <3>1. t \in Wave
      BY <1>1, <2>1, <2>2, <2>3, Zenon DEF ReceivedInv
    <3>2. PICK k \in 1..Len(pending) : t = TaskOf(k)
      BY <3>1, Zenon DEF Wave
    <3>3. phase[t] \in {"Running", "Renewed"}
      BY <1>1, <2>2, <3>2, Zenon DEF PhaseInv, After
    <3> QED
      BY <2>1, <2>3, <3>3, Zenon DEF Moves, P!valid_transition, P!Terminal
  <2>4. CASE t \notin renewed
    BY <2>1, <2>4, Zenon DEF Moves
  <2> QED
    BY <2>3, <2>4, Zenon
<1>6. CASE seal
  <2> DEFINE u == received[i]
  <2>1. pc = "seal" /\ (phase' = phase \/ phase' = [phase EXCEPT ![u] = "ResultSealed"])
    BY <1>6, ZenonT(40) DEF seal
  <2>2. i \in 1..Len(received) /\ ~(i < i)
    BY <1>1, <2>1, SMTT(30) DEF CountInv, TypeOK
  <2>3. phase[u] \in {"Running", "Renewed"}
    BY <1>1, <2>1, <2>2, Zenon DEF ReceivedInv, Active
  <2>4. P!valid_transition(phase[u], "ResultSealed")
    BY <2>3, Zenon DEF P!valid_transition, P!Terminal
  <2> HIDE DEF u
  <2> QED
    BY <1>1, <1>2, <2>1, <2>4, MovesOne, Zenon
<1>7. CASE apply \/ complete
  <2> DEFINE u == sealed[i]
  <2>1. \/ phase' = phase
        \/ phase[u] = "ResultSealed" /\ phase' = [phase EXCEPT ![u] = "ResultApplied"]
        \/ pc = "complete" /\ phase' = [phase EXCEPT ![u] = "Completed"]
    BY <1>7, Zenon DEF apply, complete
  <2>2. pc = "complete" => phase[u] = "ResultApplied"
    BY <1>1, Zenon DEF EndInv
  <2>3. /\ P!valid_transition("ResultSealed", "ResultApplied")
        /\ P!valid_transition("ResultApplied", "Completed")
    BY Zenon DEF P!valid_transition, P!Terminal
  <2> HIDE DEF u
  <2> QED
    BY <1>1, <1>2, <2>1, <2>2, <2>3, MovesOne, Zenon
<1>8. CASE fail_all
  <2>1. \/ phase' = phase
        \/ phase[i] \notin P!Terminal /\ phase' = [phase EXCEPT ![i] = "FailedClosed"]
    BY <1>8, Zenon DEF fail_all
  <2>2. phase[i] \notin P!Terminal => P!valid_transition(phase[i], "FailedClosed")
    BY Zenon DEF P!valid_transition, P!Aborts
  <2> QED
    BY <1>1, <1>2, <2>1, <2>2, MovesOne, Zenon
<1>9. \/ phase' = phase \/ prepare \/ fill \/ journal \/ heartbeat \/ seal \/ apply \/ complete \/ fail_all
  <2>1. ASSUME Coordinator
        PROVE  phase' = phase \/ prepare \/ fill \/ journal \/ seal \/ apply \/ complete \/ fail_all
    BY <2>1, Zenon DEF Coordinator, spawn, reserve, send, receive, disconnected, drop_senders, drop_receiver, join, merge
  <2>2. ASSUME NEW w \in Worker, durable_worker_main(w) PROVE phase' = phase
    BY <2>2, Zenon DEF durable_worker_main, worker_offer, worker_publish, worker_run, take, compute, worker_exit
  <2>3. vars' = vars => phase' = phase
    BY Zenon DEF vars
  <2> QED
    BY <2>1, <2>2, <2>3, Zenon DEF Next
<1> QED
  BY <1>2, <1>3, <1>4, <1>5, <1>6, <1>7, <1>8, <1>9, Zenon

\* Every authority call the coordinator makes is a transition the authority allows: a
\* delegation is prepared once, and its phase then moves only as valid_transition says.
THEOREM FollowsProtocolHolds == Spec => FollowsProtocol
<1>1. IInv /\ [Next]_vars =>
        [\A t \in Task :
            phase'[t] # phase[t] =>
                \/ phase[t] = "Absent" /\ phase'[t] = "Prepared"
                \/ P!valid_transition(phase[t], phase'[t])]_vars
  BY NextMoves, Zenon DEF Moves
<1> QED
  BY <1>1, Inductive, PTL DEF Spec, FollowsProtocol

================================================================================
