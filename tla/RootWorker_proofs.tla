--------------------------- MODULE RootWorker_proofs ---------------------------
(* Proofs about RootWorker, for any number of jobs, prewarm messages and      *)
(* progress events and any policies.                                          *)
EXTENDS RootWorker, TLAPS

IsRecord(r, fields) == fields \subseteq DOMAIN r /\ r = [f \in DOMAIN r |-> r[f]]

IsWarm(w) ==
    IsRecord(w, {"wasm", "gen", "on", "chains", "root", "verifiers", "pending", "gpu", "gpuDone",
                 "tb", "deferred", "transport", "shown"})

\* At most one chain is of the current generation, and only while a warm-up is on.
WarmOK(w) ==
    /\ IsWarm(w) /\ w.gen \in Nat /\ w.on \in BOOLEAN
    /\ \A c \in w.chains :
          /\ IsRecord(c, {"gen", "at", "policy"})
          /\ c.gen \in Nat /\ c.gen <= w.gen
          /\ c.gen = w.gen => w.on
    /\ \A c, d \in w.chains : c.gen = d.gen => c = d

Phases ==
    {"idle", "loading", "preparing", "warming", "acquiring", "distributed", "serial", "online",
     "releasing"}

TypeOK ==
    /\ active \in Nat /\ nextJobId \in Nat \ {0}
    /\ cancelled \in BOOLEAN /\ terminalPosted \in BOOLEAN /\ closed \in BOOLEAN
    /\ phase \in Phases
    /\ lease \in BOOLEAN /\ coordinator \in BOOLEAN /\ poolOwned \in BOOLEAN /\ rust \in BOOLEAN
    /\ late \subseteq C!Terminal \cup {"progress"}

\* What the phase of a job says of it.
PhaseInv ==
    /\ active = 0 <=> phase = "idle"
    /\ active # 0 => nextJobId > 1
    /\ closed => active = 0
    /\ phase = "releasing" => terminalPosted
    /\ phase \notin {"idle", "releasing"} => ~terminalPosted

\* What is still to come of a job that was closed upon.
LateInv ==
    \A e \in late :
        /\ closed /\ nextJobId > 1
        /\ e = "cancelled" <=> cancelled
        /\ e \in {"success", "refused", "cancelled"} => ~terminalPosted

\* Who holds what: the lease from the acquisition on, the rest under it, and a
\* cancelled distributed run nothing.
HeldInv ==
    /\ coordinator \/ poolOwned \/ rust => lease
    /\ lease => phase \in {"distributed", "serial", "online", "releasing"}
    /\ phase = "distributed" /\ lease => ~cancelled
    /\ phase \in {"online", "releasing"} => ~coordinator /\ ~poolOwned
    /\ phase = "releasing" => ~rust
    /\ poolOwned => pool = "job"

\* The inductive invariant: while a job is active no warm-up is.
IInv ==
    /\ TypeOK /\ PhaseInv /\ LateInv /\ HeldInv /\ WarmOK(warm)
    /\ active # 0 => ~warm.on

--------------------------------------------------------------------------------
(* Warm-ups. *)

\* A change of other fields than the generations keeps them in order.
LEMMA SameChains ==
    ASSUME NEW w, WarmOK(w), NEW v, IsWarm(v), v.gen = w.gen, v.on = w.on, v.chains = w.chains
    PROVE  WarmOK(v)
BY DEF WarmOK

LEMMA GpuWarmOK ==
    ASSUME NEW w, WarmOK(w), NEW p
    PROVE  LET v == startGpuWarmupAfterWasm(w, p) IN
           WarmOK(v) /\ v.on = w.on /\ v.gen = w.gen /\ v.chains = w.chains
<1> DEFINE v == startGpuWarmupAfterWasm(w, p)
<1>1. IsWarm(v) /\ v.gen = w.gen /\ v.on = w.on /\ v.chains = w.chains
  BY DEF WarmOK, IsWarm, IsRecord, startGpuWarmupAfterWasm
<1> QED BY <1>1, SameChains

LEMMA TransportWarmOK ==
    ASSUME NEW w, WarmOK(w)
    PROVE  LET v == startTablebaseTransportWarmup(w) IN
           WarmOK(v) /\ v.on = w.on /\ v.gen = w.gen /\ v.chains = w.chains
<1> DEFINE v == startTablebaseTransportWarmup(w)
<1>1. IsWarm(v) /\ v.gen = w.gen /\ v.on = w.on /\ v.chains = w.chains
  BY Zenon DEF WarmOK, IsWarm, IsRecord, startTablebaseTransportWarmup
<1> QED BY <1>1, SameChains

LEMMA TablebaseWarmOK ==
    ASSUME NEW w, WarmOK(w), NEW on
    PROVE  LET v == setTablebaseRequested(w, on) IN
           WarmOK(v) /\ v.on = w.on /\ v.gen = w.gen /\ v.chains = w.chains
<1> DEFINE t == [w EXCEPT !.tb = TRUE]
           f == [w EXCEPT !.tb = FALSE, !.shown = "disabled"]
<1>1. IsWarm(t) /\ t.gen = w.gen /\ t.on = w.on /\ t.chains = w.chains
  BY Zenon DEF WarmOK, IsWarm, IsRecord
<1>2. IsWarm(f) /\ f.gen = w.gen /\ f.on = w.on /\ f.chains = w.chains
  BY Zenon DEF WarmOK, IsWarm, IsRecord
<1>3. setTablebaseRequested(w, on) \in {w, startTablebaseTransportWarmup(t), f}
  BY DEF setTablebaseRequested
<1> HIDE DEF t, f
<1>4. WarmOK(t) /\ WarmOK(f)
  BY <1>1, <1>2, SameChains
<1> QED BY <1>1, <1>2, <1>3, <1>4, TransportWarmOK

\* A new chain has a generation of its own.
LEMMA FreshWarmOK ==
    ASSUME NEW w, WarmOK(w), NEW p
    PROVE  WarmOK(freshWarmup(w, p))
<1> DEFINE c == [gen |-> w.gen + 1, at |-> "load", policy |-> p]
           v == freshWarmup(w, p)
<1>1. IsWarm(v) /\ v.gen = w.gen + 1 /\ v.on = TRUE /\ v.chains = w.chains \cup {c}
  BY Zenon DEF WarmOK, IsWarm, IsRecord, freshWarmup
<1>2. IsRecord(c, {"gen", "at", "policy"}) /\ c.gen = w.gen + 1
  BY DEF IsRecord
<1> HIDE DEF c, v
<1>3. w.gen \in Nat /\ v.gen \in Nat /\ \A d \in w.chains : d.gen \in Nat /\ d.gen <= w.gen
  BY <1>1 DEF WarmOK
<1>4. \A d \in w.chains : d.gen <= v.gen /\ d.gen # v.gen /\ d.gen # c.gen
  BY <1>1, <1>2, <1>3
<1>5. \A d \in v.chains :
          /\ IsRecord(d, {"gen", "at", "policy"}) /\ d.gen \in Nat /\ d.gen <= v.gen
          /\ d.gen = v.gen => v.on
  BY <1>1, <1>2, <1>3, <1>4 DEF WarmOK
<1>6. \A d, e \in v.chains : d.gen = e.gen => d = e
  BY <1>1, <1>4 DEF WarmOK
<1>7. WarmOK(v)
  BY <1>1, <1>3, <1>5, <1>6, Zenon DEF WarmOK
<1> QED BY <1>7 DEF v

LEMMA PrewarmOK ==
    ASSUME NEW w, WarmOK(w), NEW tb, NEW p
    PROVE  WarmOK(startRuntimePrewarm(w, tb, p))
<1> DEFINE d == [w EXCEPT !.deferred = tb]
           v == setTablebaseRequested(d, tb)
           q == [v EXCEPT !.pending = [tb |-> tb, policy |-> p]]
<1>1. IsWarm(d) /\ d.gen = w.gen /\ d.on = w.on /\ d.chains = w.chains
  BY DEF WarmOK, IsWarm, IsRecord
<1> HIDE DEF d
<1>2. WarmOK(d)
  BY <1>1, SameChains
<1>3. WarmOK(v)
  BY <1>2, TablebaseWarmOK
<1> HIDE DEF v
<1>4. WarmOK(q)
  <2>1. IsWarm(q) /\ q.gen = v.gen /\ q.on = v.on /\ q.chains = v.chains
    BY <1>3 DEF WarmOK, IsWarm, IsRecord
  <2> QED BY <1>3, <2>1, SameChains, Zenon
<1>5. WarmOK(freshWarmup(v, p))
  BY <1>3, FreshWarmOK
<1>6. WarmOK(startTablebaseTransportWarmup(startGpuWarmupAfterWasm(v, p)))
  BY <1>3, GpuWarmOK, TransportWarmOK
<1>7. startRuntimePrewarm(w, tb, p) \in
          {v, q, startTablebaseTransportWarmup(startGpuWarmupAfterWasm(v, p)), freshWarmup(v, p)}
  BY DEF startRuntimePrewarm, v, d
<1> HIDE DEF q
<1> QED BY <1>3, <1>4, <1>5, <1>6, <1>7

LEMMA WhileActiveOK ==
    ASSUME NEW w, WarmOK(w), NEW tb
    PROVE  WarmOK(startWhileActive(w, tb)) /\ startWhileActive(w, tb).on = w.on
<1> DEFINE d == [w EXCEPT !.deferred = tb]
<1>1. IsWarm(d) /\ d.gen = w.gen /\ d.on = w.on /\ d.chains = w.chains
  BY DEF WarmOK, IsWarm, IsRecord
<1>2. startWhileActive(w, tb) = IF tb THEN setTablebaseRequested(d, TRUE) ELSE d
  BY DEF startWhileActive
<1> HIDE DEF d
<1>3. WarmOK(d)
  BY <1>1, SameChains
<1>4. CASE tb
  <2> DEFINE v == setTablebaseRequested(d, TRUE)
  <2>1. WarmOK(v) /\ v.on = d.on
    BY <1>3, TablebaseWarmOK, Zenon
  <2>2. startWhileActive(w, tb) = v
    BY <1>2, <1>4
  <2> HIDE DEF v
  <2> QED BY <1>1, <2>1, <2>2
<1>5. CASE ~tb
  BY <1>1, <1>2, <1>3, <1>5
<1> QED BY <1>4, <1>5

\* A warm-up is interrupted by leaving its generation.
LEMMA InterruptOK ==
    ASSUME NEW w, WarmOK(w)
    PROVE  LET v == interruptIncompleteRuntimePrewarm(w) IN WarmOK(v) /\ ~v.on
<1> DEFINE g == IF w.gpu THEN [w EXCEPT !.gpu = FALSE, !.gpuDone = FALSE] ELSE w
           h == [g EXCEPT !.gen = w.gen + 1, !.on = FALSE, !.pending = None,
                          !.root = FALSE, !.verifiers = FALSE]
<1>1. IsWarm(g) /\ g.gen = w.gen /\ g.on = w.on /\ g.chains = w.chains
  BY Zenon DEF WarmOK, IsWarm, IsRecord
<1>2. interruptIncompleteRuntimePrewarm(w) = IF w.on THEN h ELSE g
  BY DEF interruptIncompleteRuntimePrewarm
<1> HIDE DEF g
<1>3. IsWarm(h) /\ h.gen = w.gen + 1 /\ h.on = FALSE /\ h.chains = w.chains
  BY <1>1, Zenon DEF IsWarm, IsRecord
<1> HIDE DEF h
<1>4. WarmOK(h)
  <2>1. w.gen \in Nat /\ h.gen \in Nat /\ \A c \in w.chains : c.gen \in Nat /\ c.gen <= w.gen
    BY <1>3 DEF WarmOK
  <2>2. \A c \in h.chains : c.gen <= h.gen /\ c.gen # h.gen
    BY <1>3, <2>1
  <2> QED BY <1>3, <2>1, <2>2, Zenon DEF WarmOK
<1>5. WarmOK(g)
  BY <1>1, SameChains
<1> QED BY <1>1, <1>2, <1>3, <1>4, <1>5 DEF WarmOK

\* The end of a warm-up whose chain is gone; one that was waiting begins only when no
\* job is active.
LEMMA EndWarmupOK ==
    ASSUME NEW w, WarmOK(w), \A c \in w.chains : c.gen # w.gen
    PROVE  WarmOK(endWarmup(w)) /\ (active # 0 => ~endWarmup(w).on)
<1> DEFINE e == [w EXCEPT !.on = FALSE, !.pending = None]
<1>1. IsWarm(e) /\ e.gen = w.gen /\ e.on = FALSE /\ e.chains = w.chains
  BY Zenon DEF WarmOK, IsWarm, IsRecord
<1>2. endWarmup(w) = IF w.pending # None /\ active = 0
                     THEN startRuntimePrewarm(e, w.pending.tb, w.pending.policy) ELSE e
  BY DEF endWarmup
<1> HIDE DEF e
<1>3. WarmOK(e)
  BY <1>1, Zenon DEF WarmOK
<1> QED BY <1>1, <1>2, <1>3, PrewarmOK

\* A chain ends.
LEMMA DropChainOK ==
    ASSUME NEW w, WarmOK(w), NEW c \in w.chains
    PROVE  LET v == [w EXCEPT !.chains = @ \ {c}] IN
           /\ WarmOK(v) /\ v.on = w.on /\ v.gen = w.gen /\ v.chains = w.chains \ {c}
           /\ c.gen = w.gen => \A d \in v.chains : d.gen # v.gen
<1> DEFINE v == [w EXCEPT !.chains = @ \ {c}]
<1>1. IsWarm(v) /\ v.gen = w.gen /\ v.on = w.on /\ v.chains = w.chains \ {c}
  BY DEF WarmOK, IsWarm, IsRecord
<1> HIDE DEF v
<1>2. WarmOK(v) /\ (c.gen = w.gen => \A d \in v.chains : d.gen # v.gen)
  BY <1>1 DEF WarmOK
<1> QED BY <1>1, <1>2 DEF v

\* The chain of the current generation goes on to the verifiers.
LEMMA AddChainOK ==
    ASSUME NEW w, WarmOK(w), w.on, NEW d, IsRecord(d, {"gen", "at", "policy"}), d.gen = w.gen,
           \A c \in w.chains : c.gen # w.gen
    PROVE  LET v == [w EXCEPT !.chains = @ \cup {d}] IN WarmOK(v) /\ v.on = w.on
<1> DEFINE v == [w EXCEPT !.chains = @ \cup {d}]
<1>1. IsWarm(v) /\ v.gen = w.gen /\ v.on = w.on /\ v.chains = w.chains \cup {d}
  BY Zenon DEF WarmOK, IsWarm, IsRecord
<1> HIDE DEF v
<1>2. WarmOK(v)
  BY <1>1 DEF WarmOK
<1> QED BY <1>1, <1>2, Zenon DEF v

LEMMA LoadedWarmOK ==
    ASSUME NEW w, WarmOK(w)
    PROVE  LET v == [w EXCEPT !.wasm = TRUE, !.root = TRUE] IN
           WarmOK(v) /\ v.on = w.on /\ v.gen = w.gen /\ v.chains = w.chains
<1> DEFINE v == [w EXCEPT !.wasm = TRUE, !.root = TRUE]
<1>1. IsWarm(v) /\ v.gen = w.gen /\ v.on = w.on /\ v.chains = w.chains
  BY Zenon DEF WarmOK, IsWarm, IsRecord
<1> HIDE DEF v
<1>2. WarmOK(v)
  BY <1>1, SameChains
<1> QED BY <1>1, <1>2 DEF v

LEMMA ColdOK == WarmOK(Cold) /\ ~Cold.on
BY Zenon DEF WarmOK, IsWarm, IsRecord, Cold

--------------------------------------------------------------------------------
(* The invariant. *)

LEMMA InitIInv == Init => IInv
<1> SUFFICES ASSUME Init PROVE IInv
  OBVIOUS
<1> USE DEF Init, C!NewWorker
<1>1. TypeOK
  <2>1. active \in Nat /\ nextJobId \in Nat \ {0}
    OBVIOUS
  <2> QED BY <2>1, Zenon DEF TypeOK, Phases
<1>2. PhaseInv /\ LateInv
  BY DEF PhaseInv, LateInv
<1>3. HeldInv
  BY DEF HeldInv
<1>4. WarmOK(warm) /\ ~warm.on
  BY ColdOK
<1> QED BY <1>1, <1>2, <1>3, <1>4 DEF IInv

\* Whatever the job holds is given back before the worker closes.
LEMMA CloseOK ==
    ASSUME IInv, LetGo, closeFailClosedWorker, cancelled' \in BOOLEAN, terminalPosted' \in BOOLEAN,
           late' \subseteq C!Terminal \cup {"progress"}, LateInv'
    PROVE  IInv'
BY ColdOK, Zenon DEF IInv, TypeOK, Phases, PhaseInv, HeldInv, LetGo, closeFailClosedWorker

\* Nothing is left over of earlier jobs while the worker is open.
LEMMA NoneLate ==
    ASSUME IInv, ~closed
    PROVE  late = {}
BY Zenon DEF IInv, LateInv

LEMMA EndedOK ==
    ASSUME IInv, active # 0, NEW e, Ended(e), cancelled' \in BOOLEAN
    PROVE  IInv'
<1>1. late = {}
  BY NoneLate, Zenon DEF IInv, PhaseInv
<1>2. late' = {} /\ terminalPosted' = TRUE /\ LetGo /\ closeFailClosedWorker
  BY <1>1, Zenon DEF Ended
<1>3. LateInv'
  BY <1>2, Zenon DEF LateInv
<1> QED BY <1>2, <1>3, CloseOK, Zenon

LEMMA EndOK ==
    ASSUME IInv, active # 0, NEW e, End(e)
    PROVE  IInv'
BY EndedOK, Zenon DEF End, IInv, TypeOK

\* What a closing worker leaves of its job.
LEMMA ReportsOK ==
    ASSUME IInv, NEW unhandled \in BOOLEAN, Reports(unhandled), closed', nextJobId' = nextJobId,
           cancelled' = cancelled, unhandled \/ terminalPosted' = terminalPosted
    PROVE  late' \subseteq C!Terminal \cup {"progress"} /\ LateInv'
<1>1. late' \subseteq C!Terminal \cup {"progress"}
  BY Zenon DEF Reports
<1>2. ASSUME NEW e \in late'
      PROVE  /\ nextJobId > 1
             /\ e = "cancelled" <=> cancelled
             /\ e \in {"success", "refused", "cancelled"} => ~terminalPosted'
  <2>1. /\ active # 0 /\ phase \in {"warming", "acquiring", "distributed", "online"}
        /\ IF cancelled THEN e = "cancelled" /\ ~unhandled
           ELSE \/ e = "failed"
                \/ e = "progress" /\ phase = "warming"
                \/ e \in {"success", "refused"} /\ phase = "warming" /\ ~unhandled
    BY <1>2, Zenon DEF Reports
  <2>2. nextJobId > 1 /\ ~terminalPosted
    BY <2>1 DEF IInv, PhaseInv
  <2>3. e = "cancelled" <=> cancelled
    BY <2>1
  <2>4. e \in {"success", "refused", "cancelled"} => ~unhandled
    BY <2>1
  <2> QED BY <2>2, <2>3, <2>4
<1> QED BY <1>1, <1>2, Zenon DEF LateInv

\* After a success everything is given back and the next warm-up begins.
LEMMA FinishOK ==
    ASSUME IInv, phase \in {"acquiring", "distributed", "serial"}, NEW e, Finish(e)
    PROVE  IInv'
<1>1. CASE e = "success"
  <2>1. WarmOK(warm')
    BY <1>1, PrewarmOK DEF Finish, Idle, IInv
  <2>2. ~terminalPosted
    BY DEF IInv, PhaseInv
  <2>3. TypeOK'
    <3>1. active' \in Nat
      BY <1>1 DEF Finish, Idle
    <3> QED BY <1>1, <3>1, Zenon DEF Finish, Idle, IInv, TypeOK, Phases
  <2>4. PhaseInv'
    BY <1>1, <2>2 DEF Finish, Idle, IInv, TypeOK, PhaseInv
  <2>5. HeldInv'
    BY <1>1 DEF Finish, Idle, HeldInv
  <2>6. late' = {}
    BY <1>1, NoneLate, Zenon DEF Finish, Idle, IInv, PhaseInv
  <2>7. LateInv'
    BY <2>6, Zenon DEF LateInv
  <2> QED BY <1>1, <2>1, <2>3, <2>4, <2>5, <2>7 DEF Finish, Idle, IInv
<1> QED BY <1>1, EndOK, Zenon DEF Finish, IInv, PhaseInv

\* A job gets its runner.
LEMMA PreparedOK ==
    ASSUME IInv, phase \in {"preparing", "warming"}, NEW w, WarmOK(w), ~w.on, Prepared(w)
    PROVE  IInv'
<1>1. CASE ~cancelled
  BY <1>1 DEF Prepared, IInv, TypeOK, Phases, PhaseInv, LateInv, HeldInv, job, held
<1> QED BY <1>1, EndOK, Zenon DEF Prepared, IInv, PhaseInv

LEMMA NextIInv == IInv /\ [Next]_vars => IInv'
<1> SUFFICES ASSUME IInv, [Next]_vars PROVE IInv'
  OBVIOUS
<1> USE DEF IInv, TypeOK, Phases, PhaseInv, HeldInv, LateInv
<1>1. ASSUME NEW tb, NEW p, OnPrewarm(tb, p) PROVE IInv'
  <2>1. WarmOK(warm') /\ (active # 0 => ~warm'.on)
    BY <1>1, WhileActiveOK, PrewarmOK DEF OnPrewarm
  <2> QED BY <1>1, <2>1 DEF OnPrewarm, job, held
<1>2. ASSUME NEW tb, NEW p, runCommandText(tb, p) PROVE IInv'
  <2> DEFINE d == [warm EXCEPT !.deferred = tb]
             t == setTablebaseRequested(d, tb)
             w == interruptIncompleteRuntimePrewarm(t)
             v == [w EXCEPT !.wasm = TRUE]
  <2>1. IsWarm(d) /\ d.gen = warm.gen /\ d.on = warm.on /\ d.chains = warm.chains
    BY DEF WarmOK, IsWarm, IsRecord
  <2>2. /\ phase' \in {"preparing", "loading"} /\ warm' \in {v, w} /\ active' = nextJobId
        /\ nextJobId' = nextJobId + 1 /\ cancelled' = FALSE /\ terminalPosted' = FALSE /\ active = 0
        /\ UNCHANGED <<closed, held, late, pool>> /\ ~closed
    BY <1>2 DEF runCommandText, Loaded
  <2> HIDE DEF d
  <2>3. WarmOK(t)
    BY <2>1, SameChains, TablebaseWarmOK
  <2> HIDE DEF t
  <2>4. WarmOK(w) /\ ~w.on
    BY <2>3, InterruptOK
  <2> HIDE DEF w
  <2>5. IsWarm(v) /\ v.gen = w.gen /\ v.on = w.on /\ v.chains = w.chains
    BY <2>4, Zenon DEF WarmOK, IsWarm, IsRecord
  <2> HIDE DEF v
  <2>6. WarmOK(warm') /\ ~warm'.on
    BY <2>2, <2>4, <2>5, SameChains
  <2>7. active' \in Nat \ {0} /\ nextJobId' \in Nat \ {0} /\ nextJobId' > 1
    BY <2>2
  <2>8. TypeOK'
    BY <2>2, <2>7, Zenon DEF held
  <2>9. PhaseInv'
    BY <2>2, <2>7
  <2>10. HeldInv'
    BY <2>2 DEF held
  <2>11. LateInv'
    BY <2>2, NoneLate, Zenon
  <2> QED BY <2>6, <2>8, <2>9, <2>10, <2>11
<1>3. ASSUME NEW p, Refuse(p) PROVE IInv'
  BY <1>3 DEF Refuse, job, held
<1>4. CASE cancelActiveJob
  BY <1>4, NoneLate, Zenon DEF cancelActiveJob, LetGo, held
<1>5. CASE cancellationFails
  BY <1>5, EndedOK, Zenon DEF cancellationFails
<1>6. CASE releaseProductPages
  BY <1>6 DEF releaseProductPages, job, held
<1>7. CASE disposeRuntime
  <2>1. closed' /\ UNCHANGED <<nextJobId, cancelled, terminalPosted>> /\ LetGo /\ closeFailClosedWorker
    BY <1>7, Zenon DEF disposeRuntime, closeFailClosedWorker
  <2>2. late' \subseteq C!Terminal \cup {"progress"} /\ LateInv'
    BY <1>7, <2>1, ReportsOK, Zenon DEF disposeRuntime
  <2> QED BY <2>1, <2>2, CloseOK, Zenon
<1>8. CASE failCloseUnhandled
  <2>1. closed' /\ UNCHANGED <<nextJobId, cancelled>> /\ LetGo /\ closeFailClosedWorker
    BY <1>8, Zenon DEF failCloseUnhandled, closeFailClosedWorker
  <2>2. late' \subseteq C!Terminal \cup {"progress"} /\ LateInv'
    BY <1>8, <2>1, ReportsOK, Zenon DEF failCloseUnhandled
  <2>3. terminalPosted' \in BOOLEAN
    BY <1>8, Zenon DEF failCloseUnhandled
  <2> QED BY <2>1, <2>2, <2>3, CloseOK, Zenon
<1>9. ASSUME NEW e, reportLate(e) PROVE IInv'
  BY <1>9 DEF reportLate, held
<1>10. CASE Throw
  <2>1. CASE cancelled /\ terminalPosted
    BY <1>10, <2>1, NoneLate, CloseOK, Zenon DEF Throw
  <2> QED BY <1>10, <2>1, EndOK DEF Throw
<1>11. CASE moduleLoads
  <2> DEFINE v == [warm EXCEPT !.wasm = TRUE]
  <2>1. IsWarm(v) /\ v.gen = warm.gen /\ v.on = warm.on /\ v.chains = warm.chains
    BY Zenon DEF WarmOK, IsWarm, IsRecord
  <2>2. warm' = v /\ phase = "loading" /\ phase' = "preparing" /\ UNCHANGED <<job, closed, held, late, pool>>
    BY <1>11 DEF moduleLoads, Loaded
  <2> HIDE DEF v
  <2> QED BY <2>1, <2>2, SameChains DEF job, held
<1>12. CASE acceleratorsActivated
  <2>1. CASE warm.tb
    <3>1. WarmOK(warm') /\ warm'.on = warm.on
      BY <1>12, <2>1, TransportWarmOK DEF acceleratorsActivated
    <3> QED BY <1>12, <2>1, <3>1 DEF acceleratorsActivated, job, held
  <2>2. CASE ~warm.tb
    BY <1>12, <2>2, PreparedOK DEF acceleratorsActivated
  <2> QED BY <2>1, <2>2
<1>13. CASE onlineRuns
  BY <1>13, SMTT(20) DEF onlineRuns, Keep, job
<1>14. CASE serialRuns
  BY <1>14 DEF serialRuns, Keep, job
<1>15. CASE poolInitializes
  BY <1>15 DEF poolInitializes, Keep, job
<1>16. CASE Proceeds
  BY <1>16, SMTT(20) DEF Proceeds, Keep, job, held
<1>17. CASE onlineReleases
  <2>1. CASE C!Posted("success", active) > 0
    <3>1. WarmOK(warm')
      BY <1>17, <2>1, PrewarmOK DEF onlineReleases, Idle
    <3>2. TypeOK'
      <4>1. active' \in Nat
        BY <1>17, <2>1 DEF onlineReleases, Idle
      <4> QED BY <1>17, <2>1, <4>1, Zenon DEF onlineReleases, Idle
    <3>3. PhaseInv'
      BY <1>17, <2>1 DEF onlineReleases, Idle
    <3>4. HeldInv'
      BY <1>17, <2>1, Zenon DEF onlineReleases, Idle
    <3>5. LateInv'
      BY <1>17, <2>1, NoneLate, Zenon DEF onlineReleases, Idle
    <3> QED BY <1>17, <2>1, <3>1, <3>2, <3>3, <3>4, <3>5 DEF onlineReleases, Idle
  <2> QED BY <1>17, <2>1, NoneLate, CloseOK, Zenon DEF onlineReleases
<1>18. CASE Aborts
  BY <1>10, <1>18 DEF Aborts
<1>19. ASSUME NEW i \in BOOLEAN, distributedRuns(i) PROVE IInv'
  BY <1>19, SMTT(20) DEF distributedRuns, Keep, job
<1>20. ASSUME NEW e, readyFinishes(e) \/ distributedFinishes(e) \/ serialFinishes(e) PROVE IInv'
  BY <1>20, FinishOK, SMTT(20) DEF readyFinishes, distributedFinishes, serialFinishes
<1>21. ASSUME NEW e, onlineFinishes(e) PROVE IInv'
  BY <1>21, Zenon DEF onlineFinishes
<1>22. ASSUME NEW c \in warm.chains, warmupLoads(c) PROVE IInv'
  <2> DEFINE rest == [warm EXCEPT !.chains = @ \ {c}]
             loaded == [rest EXCEPT !.wasm = TRUE, !.root = TRUE]
             gpu == startGpuWarmupAfterWasm(loaded, c.policy)
             root == startTablebaseTransportWarmup(gpu)
             d == [c EXCEPT !.at = "verifiers"]
             going == [root EXCEPT !.chains = @ \cup {d}]
  <2>1. warm' \in {rest, going, endWarmup(root)} /\ UNCHANGED pool /\ Others
        /\ (warm' # rest => c.gen = warm.gen)
    BY <1>22, Zenon DEF warmupLoads, Current
  <2>2. /\ WarmOK(rest) /\ rest.on = warm.on /\ rest.gen = warm.gen /\ rest.chains = warm.chains \ {c}
        /\ c.gen = warm.gen => \A x \in rest.chains : x.gen # rest.gen
    BY DropChainOK
  <2> HIDE DEF rest
  <2>3. WarmOK(loaded) /\ loaded.gen = rest.gen /\ loaded.on = rest.on /\ loaded.chains = rest.chains
    BY <2>2, LoadedWarmOK, Zenon
  <2> HIDE DEF loaded
  <2>5. WarmOK(gpu) /\ gpu.on = loaded.on /\ gpu.gen = loaded.gen /\ gpu.chains = loaded.chains
    BY <2>3, GpuWarmOK, Zenon
  <2> HIDE DEF gpu
  <2>6. WarmOK(root) /\ root.on = gpu.on /\ root.gen = gpu.gen /\ root.chains = gpu.chains
    BY <2>5, TransportWarmOK, SMTT(20)
  <2> HIDE DEF root
  <2>7. root.on = warm.on /\ root.gen = warm.gen /\ root.chains = rest.chains
    BY <2>2, <2>3, <2>5, <2>6, SMTT(20)
  <2>8. CASE c.gen = warm.gen
    <3>1. IsRecord(d, {"gen", "at", "policy"}) /\ d.gen = c.gen
      BY DEF WarmOK, IsRecord
    <3> HIDE DEF d
    <3>2. warm.on /\ \A x \in root.chains : x.gen # root.gen
      BY <2>2, <2>7, <2>8, Zenon DEF WarmOK
    <3>3. d.gen = root.gen /\ root.on
      BY <2>7, <2>8, <3>1, <3>2
    <3>4. WarmOK(going) /\ going.on = root.on
      BY <2>6, <3>1, <3>2, <3>3, AddChainOK, Zenon
    <3> HIDE DEF going
    <3>5. WarmOK(endWarmup(root)) /\ (active # 0 => ~endWarmup(root).on)
      BY <2>2, <2>6, <2>7, <2>8, EndWarmupOK
    <3>6. WarmOK(warm') /\ (active # 0 => ~warm'.on)
      BY <2>1, <2>2, <2>7, <3>4, <3>5
    <3> QED BY <2>1, <3>6 DEF Others, job, held
  <2>9. CASE c.gen # warm.gen
    BY <2>1, <2>2, <2>9, SMTT(20) DEF Others, job, held
  <2> QED BY <2>8, <2>9
<1>23. ASSUME NEW c \in warm.chains, NEW b \in BOOLEAN,
              c.gen = warm.gen =>
                  warm' = endWarmup([[warm EXCEPT !.chains = @ \ {c}] EXCEPT !.verifiers = b]),
              c.gen # warm.gen => warm' = [warm EXCEPT !.chains = @ \ {c}]
       PROVE  WarmOK(warm') /\ (active # 0 => ~warm'.on)
  <2> DEFINE rest == [warm EXCEPT !.chains = @ \ {c}]
             v == [rest EXCEPT !.verifiers = b]
  <2>1. /\ WarmOK(rest) /\ rest.on = warm.on /\ rest.gen = warm.gen /\ rest.chains = warm.chains \ {c}
        /\ c.gen = warm.gen => \A x \in rest.chains : x.gen # rest.gen
    BY DropChainOK
  <2>2. /\ c.gen = warm.gen => warm' = endWarmup(v)
        /\ c.gen # warm.gen => warm' = rest
    BY <1>23
  <2> HIDE DEF rest
  <2>3. IsWarm(v) /\ v.gen = rest.gen /\ v.on = rest.on /\ v.chains = rest.chains
    BY <2>1, SMTT(20) DEF WarmOK, IsWarm, IsRecord
  <2> HIDE DEF v
  <2>4. WarmOK(v)
    BY <2>1, <2>3, SameChains, SMTT(20)
  <2>5. c.gen = warm.gen => WarmOK(endWarmup(v)) /\ (active # 0 => ~endWarmup(v).on)
    BY <2>1, <2>3, <2>4, EndWarmupOK
  <2> QED BY <2>1, <2>2, <2>5
<1>24. ASSUME NEW c \in warm.chains, verifiersWarm(c) PROVE IInv'
  <2>1. WarmOK(warm') /\ (active # 0 => ~warm'.on)
    BY <1>23, <1>24, Zenon DEF verifiersWarm, Current
  <2> QED BY <1>24, <2>1 DEF verifiersWarm, Others, job, held
<1>25. ASSUME NEW c \in warm.chains, warmupFails(c) PROVE IInv'
  <2>1. WarmOK(warm') /\ (active # 0 => ~warm'.on)
    BY <1>23, <1>25, Zenon DEF warmupFails, Current
  <2>2. c.gen = warm.gen => ~poolOwned
    BY SMTT(20) DEF WarmOK
  <2> QED BY <1>25, <2>1, <2>2 DEF warmupFails, Current, Others, job, held
<1>26. ASSUME NEW ok \in BOOLEAN, gpuEnds(ok) PROVE IInv'
  <2> DEFINE v == [warm EXCEPT !.gpu = FALSE, !.gpuDone = ok]
  <2>1. IsWarm(v) /\ v.gen = warm.gen /\ v.on = warm.on /\ v.chains = warm.chains
    BY Zenon DEF WarmOK, IsWarm, IsRecord
  <2>2. warm' = v /\ UNCHANGED pool /\ Others
    BY <1>26 DEF gpuEnds
  <2> HIDE DEF v
  <2> QED BY <2>1, <2>2, SameChains DEF Others, job, held
<1>27. ASSUME NEW p, transportEnds(p) PROVE IInv'
  <2> DEFINE v == publish(warm, p)
  <2>1. IsWarm(v) /\ v.gen = warm.gen /\ v.on = warm.on /\ v.chains = warm.chains
    BY Zenon DEF WarmOK, IsWarm, IsRecord, publish
  <2>2. IF phase = "warming" THEN Prepared(v) ELSE warm' = v /\ UNCHANGED pool /\ Others
    BY <1>27 DEF transportEnds
  <2> HIDE DEF v
  <2>3. WarmOK(v)
    BY <2>1, SameChains
  <2>4. CASE phase = "warming"
    BY <2>1, <2>2, <2>3, <2>4, PreparedOK, Zenon
  <2> QED BY <2>1, <2>2, <2>3, <2>4 DEF Others, job, held
<1>28. CASE UNCHANGED vars
  BY <1>28 DEF vars, job, held
<1> QED
  BY <1>1, <1>2, <1>3, <1>4, <1>5, <1>6, <1>7, <1>8, <1>9, <1>10, <1>11, <1>12, <1>13, <1>14,
     <1>15, <1>16, <1>17, <1>18, <1>19, <1>20, <1>21, <1>22, <1>24, <1>25, <1>26, <1>27, <1>28, Zenon
  DEF Next, Message, JobStep, WarmupStep, TransportStep

\* IInv holds in every reachable state.
THEOREM Inductive == Spec => []IInv
BY InitIInv, NextIInv, PTL DEF Spec

\* The coordinator, the jobs of the module and the shared verifiers are used under
\* the execution lease only, and no lease outlives its job, on every path from
\* prepare to release (DistributedWasmJobRunner.ts, ClearraProductJobRunner.ts).
THEOREM RunsLeased == Spec => []RunsUnderLease
<1>1. IInv => RunsUnderLease
  BY DEF IInv, TypeOK, PhaseInv, HeldInv, RunsUnderLease
<1> QED BY <1>1, Inductive, PTL

\* No warm-up, however late it fails, disposes of the verifiers of a running search
\* (the generation checks of startRuntimePrewarm in clearraWorker.ts).
THEOREM KeepsPool == Spec => []PoolBelongsToJob
<1>1. IInv => PoolBelongsToJob
  BY DEF IInv, HeldInv, PoolBelongsToJob
<1> QED BY <1>1, Inductive, PTL

--------------------------------------------------------------------------------
(* The contract.  IInv supplies what the contract's guards ask for: a job that  *)
(* is under way is the active one, of a worker that is open, and its outcome is *)
(* posted only in the phase "releasing".                                        *)

ContractStep == C!WorkerNext \/ UNCHANGED C!workerVars

\* The steps that end a job with the worker.
LEMMA EndSteps ==
    ASSUME IInv, active # 0, NEW e \in {"refused", "failed", "cancelled"}, End(e),
           e = "cancelled" => cancelled /\ ~terminalPosted,
           e = "refused" => ~terminalPosted
    PROVE  ContractStep
<1>1. C!End(e)
  BY DEF End, Ended, Post, Event, closeFailClosedWorker, C!End, C!Post, C!Event, IInv, PhaseInv
<1>2. e \in C!Terminal \ {"success"}
  BY DEF C!Terminal
<1> QED BY <1>1, <1>2, Zenon DEF ContractStep, C!WorkerNext

\* The steps that close the worker and post nothing.
LEMMA CloseSteps ==
    ASSUME ~closed, closeFailClosedWorker, UNCHANGED <<cancelled, terminalPosted, log>>
    PROVE  ContractStep
<1>1. C!Close
  BY DEF closeFailClosedWorker, C!Close
<1> QED BY <1>1 DEF ContractStep, C!WorkerNext

LEMMA FinishSteps ==
    ASSUME IInv, phase \in {"acquiring", "distributed", "serial"}, NEW e \in Outcome \cup {"cancelled"},
           IF e = "cancelled" THEN cancelled ELSE ~cancelled, Finish(e)
    PROVE  ContractStep
<1>1. ~closed /\ active # 0 /\ ~terminalPosted /\ terminalPosted \in BOOLEAN
  BY DEF IInv, TypeOK, PhaseInv
<1>2. CASE e = "success"
  <2>1. C!Succeed(TRUE)
    BY <1>1, <1>2, Zenon DEF Finish, Idle, Post, Event, C!Succeed, C!Post, C!Event
  <2> QED BY <2>1, Zenon DEF ContractStep, C!WorkerNext
<1>3. CASE e # "success"
  BY <1>1, <1>3, EndSteps DEF Finish, Outcome
<1> QED BY <1>2, <1>3

LEMMA PreparedSteps ==
    ASSUME IInv, phase \in {"preparing", "warming"}, NEW w, Prepared(w)
    PROVE  ContractStep
<1>1. ~closed /\ active # 0 /\ ~terminalPosted
  BY DEF IInv, PhaseInv
<1>2. CASE cancelled
  BY <1>1, <1>2, EndSteps DEF Prepared
<1>3. CASE ~cancelled
  <2>1. C!Proceed
    BY <1>1, <1>3 DEF Prepared, Post, Event, job, C!Proceed, C!Post, C!Event
  <2> QED BY <2>1, SMTT(20) DEF ContractStep, C!WorkerNext
<1> QED BY <1>2, <1>3

LEMMA ThrowSteps ==
    ASSUME IInv, Throw
    PROVE  ContractStep
<1>1. ~closed /\ active # 0
  BY DEF IInv, PhaseInv, Throw
<1>2. CASE cancelled /\ terminalPosted
  BY <1>1, <1>2, CloseSteps DEF Throw
<1>3. CASE cancelled /\ ~terminalPosted
  BY <1>1, <1>3, EndSteps DEF Throw
<1>4. CASE ~cancelled
  BY <1>1, <1>4, EndSteps DEF Throw
<1> QED BY <1>2, <1>3, <1>4

LEMMA NextSteps == IInv /\ [Next]_vars => ContractStep
<1> SUFFICES ASSUME IInv, [Next]_vars PROVE ContractStep
  BY SMTT(20)
<1> USE DEF job, Event, C!Event, Post, C!Post
<1>1. ASSUME NEW tb, NEW p, OnPrewarm(tb, p) PROVE ContractStep
  BY <1>1 DEF OnPrewarm, ContractStep, C!workerVars
<1>2. ASSUME NEW tb, NEW p, runCommandText(tb, p) PROVE ContractStep
  <2>1. C!Start
    BY <1>2 DEF runCommandText, Loaded, C!Start
  <2> QED BY <2>1 DEF ContractStep, C!WorkerNext
<1>3. ASSUME NEW p, Refuse(p) PROVE ContractStep
  <2>1. C!Refuse
    BY <1>3 DEF Refuse, C!Refuse
  <2> QED BY <2>1, SMTT(20) DEF ContractStep, C!WorkerNext
<1>4. CASE cancelActiveJob
  <2>1. C!Note
    BY <1>4 DEF cancelActiveJob, C!Note
  <2> QED BY <2>1, SMTT(20) DEF ContractStep, C!WorkerNext
<1>5. CASE cancellationFails
  <2>1. terminalPosted = FALSE
    BY <1>5, SMTT(20) DEF cancellationFails, IInv, TypeOK
  <2>2. C!CancelHard
    BY <1>5, <2>1, Zenon DEF cancellationFails, Ended, closeFailClosedWorker, C!CancelHard
  <2> QED BY <2>2 DEF ContractStep, C!WorkerNext
<1>6. CASE releaseProductPages
  <2>1. C!Release
    BY <1>6 DEF releaseProductPages, C!Release
  <2> QED BY <2>1 DEF ContractStep, C!WorkerNext
<1>7. CASE disposeRuntime
  BY <1>7, CloseSteps DEF disposeRuntime
<1>8. CASE failCloseUnhandled
  <2>1. CASE active # 0 /\ ~terminalPosted
    <3>1. C!End("failed")
      BY <1>8, <2>1 DEF failCloseUnhandled, closeFailClosedWorker, C!End
    <3> QED BY <3>1, SMTT(20) DEF ContractStep, C!WorkerNext, C!Terminal
  <2> QED BY <1>8, <2>1, CloseSteps DEF failCloseUnhandled
<1>9. ASSUME NEW e \in C!Terminal \cup {"progress"}, reportLate(e) PROVE ContractStep
  <2>1. /\ closed /\ nextJobId > 1 /\ terminalPosted \in BOOLEAN
        /\ e = "cancelled" <=> cancelled
        /\ e \in {"success", "refused", "cancelled"} => ~terminalPosted
    BY <1>9, Zenon DEF reportLate, IInv, TypeOK, LateInv
  <2>2. terminalPosted' = (terminalPosted \/ e \in C!Terminal)
    BY <1>9, <2>1 DEF reportLate, C!Terminal
  <2>3. C!Late(e)
    BY <1>9, <2>1, <2>2, Zenon DEF reportLate, C!Late
  <2> QED BY <2>3, ZenonT(40) DEF ContractStep, C!WorkerNext
<1>10. CASE Throw \/ Aborts
  BY <1>10, ThrowSteps DEF Aborts
<1>11. CASE moduleLoads
  <2>1. C!Release
    BY <1>11 DEF moduleLoads, Loaded, C!Release
  <2> QED BY <2>1 DEF ContractStep, C!WorkerNext
<1>12. CASE acceleratorsActivated
  <2>1. CASE warm.tb
    BY <1>12, <2>1, SMTT(20) DEF acceleratorsActivated, ContractStep, C!workerVars
  <2> QED BY <1>12, <2>1, PreparedSteps DEF acceleratorsActivated
<1>13. CASE onlineRuns \/ poolInitializes
  BY <1>13 DEF onlineRuns, poolInitializes, Keep, ContractStep, C!workerVars
<1>14. CASE serialRuns \/ Proceeds
  <2>1. C!Proceed
    BY <1>14 DEF serialRuns, Proceeds, Keep, C!Proceed, IInv, PhaseInv
  <2> QED BY <2>1, SMTT(20) DEF ContractStep, C!WorkerNext
<1>15. CASE onlineReleases
  <2>1. ~closed /\ active # 0 /\ terminalPosted
    BY <1>15 DEF onlineReleases, IInv, PhaseInv
  <2>2. CASE C!Posted("success", active) > 0
    <3>1. C!Settle
      BY <1>15, <2>1, <2>2, SMTT(20) DEF onlineReleases, Idle, C!Settle
    <3> QED BY <3>1, SMTT(20) DEF ContractStep, C!WorkerNext
  <2> QED BY <1>15, <2>1, <2>2, CloseSteps DEF onlineReleases
<1>16. ASSUME NEW i, distributedRuns(i) PROVE ContractStep
  BY <1>16 DEF distributedRuns, Keep, ContractStep, C!workerVars
<1>17. ASSUME NEW e \in Outcome, readyFinishes(e) \/ distributedFinishes(e) PROVE ContractStep
  <2>1. ~cancelled /\ e # "cancelled" /\ phase \in {"acquiring", "distributed"} /\ Finish(e)
    BY <1>17, SMTT(20) DEF readyFinishes, distributedFinishes, Outcome, IInv, HeldInv
  <2> QED BY <2>1, FinishSteps, SMTT(20)
<1>18. ASSUME NEW e \in Outcome \cup {"cancelled"}, serialFinishes(e) PROVE ContractStep
  BY <1>18, FinishSteps DEF serialFinishes, ModuleEnds, Outcome
<1>19. ASSUME NEW e \in Outcome \cup {"cancelled"}, onlineFinishes(e) PROVE ContractStep
  <2>1. ~closed /\ active # 0 /\ ~terminalPosted
    BY <1>19, Zenon DEF onlineFinishes, IInv, PhaseInv
  <2>2. CASE e = "success"
    <3>1. C!Succeed(FALSE)
      BY <1>19, <2>1, <2>2, Zenon DEF onlineFinishes, ModuleEnds, C!Succeed
    <3> QED BY <3>1, Zenon DEF ContractStep, C!WorkerNext
  <2>3. CASE e # "success"
    <3>1. e = "cancelled" => cancelled
      BY <1>19, Zenon DEF onlineFinishes, ModuleEnds, Outcome
    <3>2. C!Conclude(e)
      BY <1>19, <2>1, <2>3, <3>1, Zenon DEF onlineFinishes, C!Conclude
    <3>3. e \in C!Terminal \ {"success"}
      BY <2>3 DEF Outcome, C!Terminal
    <3> QED BY <3>2, <3>3, Zenon DEF ContractStep, C!WorkerNext
  <2> QED BY <2>2, <2>3
<1>20. ASSUME NEW c, warmupLoads(c) \/ verifiersWarm(c) \/ warmupFails(c) PROVE ContractStep
  BY <1>20 DEF warmupLoads, verifiersWarm, warmupFails, Others, ContractStep, C!workerVars
<1>21. ASSUME NEW ok, gpuEnds(ok) PROVE ContractStep
  BY <1>21, SMTT(20) DEF gpuEnds, Others, ContractStep, C!workerVars
<1>22. ASSUME NEW p, transportEnds(p) PROVE ContractStep
  <2>1. CASE phase = "warming"
    BY <1>22, <2>1, PreparedSteps, SMTT(20) DEF transportEnds
  <2> QED BY <1>22, <2>1 DEF transportEnds, Others, ContractStep, C!workerVars
<1>23. CASE UNCHANGED vars
  BY <1>23 DEF vars, ContractStep, C!workerVars
<1> QED
  BY <1>1, <1>2, <1>3, <1>4, <1>5, <1>6, <1>7, <1>8, <1>9, <1>10, <1>11, <1>12, <1>13, <1>14,
     <1>15, <1>16, <1>17, <1>18, <1>19, <1>20, <1>21, <1>22, <1>23, Zenon
  DEF Next, Message, JobStep, WarmupStep, TransportStep

\* The worker keeps every promise SearchController relies on: each step of the
\* worker is a step of RootWorkerContract or changes nothing its owner sees.
THEOREM KeepsContract == Spec => Implements
<1>1. Init => C!NewWorker
  BY DEF Init
<1>2. IInv /\ [Next]_vars => [C!WorkerNext]_(C!workerVars)
  BY NextSteps DEF ContractStep
<1> QED BY <1>1, <1>2, Inductive, PTL DEF Spec, Implements, C!Contract

================================================================================
