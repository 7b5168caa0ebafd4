--------------------------- MODULE JobService_proofs ---------------------------
(* Proofs about JobService, for any calls and jobs and any limits.           *)
EXTENDS JobService, FiniteSetTheorems, TLAPS

Outcomes == {"completed", "failed", "cancelled"}

EntryType ==
    [state : {None, "running"} \cup Outcomes, creator : Calls \cup {None}, aborted : BOOLEAN,
     phase : {None, "preparing", "process", "artifact", "cleanup"},
     child : {None, "alive", "exited"}, signal : {None, "term", "kill"},
     failure : {None, "failed", "cancelled"}, result : {None} \cup Outcomes,
     directory : {None, "made"}, runs : Nat]

\* Only the phase "process" has a process that may be alive, and only an entry in
\* progress has a phase; what ends it has settled its outcome.
EntryOK(e) ==
    /\ e \in EntryType
    /\ e.child = "alive" => e.phase = "process"
    /\ e.state # "running" => e.phase = None
    /\ e.phase = "cleanup" => e.result # None
    /\ e.state = None => e.runs = 0
    /\ e.runs <= 1

Busy == {j \in Jobs : Running(j)}

\* activeJobs counts the entries in progress and stays within maxConcurrentJobs,
\* whatever is cancelled, pruned or joined in between.
SlotsCounted == activeJobs = Cardinality(Busy) /\ activeJobs <= maxConcurrentJobs

\* completed names the entries that have ended, each of them once, so that pruning
\* never takes an entry in progress.
CompletedInv ==
    /\ completed \in Seq(Jobs)
    /\ \A j \in Jobs : (\E i \in 1..Len(completed) : completed[i] = j)
                           <=> jobs[j].state \in Outcomes
    /\ \A i, k \in 1..Len(completed) : completed[i] = completed[k] => i = k

\* The inductive invariant.
IInv ==
    /\ jobId \in [Calls -> Jobs]
    /\ jobs \in [Jobs -> EntryType] /\ \A j \in Jobs : EntryOK(jobs[j])
    /\ activeJobs \in Nat /\ SlotsCounted
    /\ CompletedInv

--------------------------------------------------------------------------------
(* What the runner does to an entry. *)

\* fail and abort keep an entry in order and leave its state alone.
LEMMA FailKeeps ==
    ASSUME NEW e, EntryOK(e), e.phase \in {"process", "artifact"},
           NEW why \in {"failed", "cancelled"}
    PROVE  EntryOK(fail(e, why)) /\ fail(e, why).state = e.state
<1>1. CASE e.failure # None
  BY <1>1 DEF fail
<1>2. CASE e.failure = None
  <2> DEFINE s == IF e.child = "alive" THEN "term" ELSE e.signal
  <2>1. s \in {None, "term", "kill"}
    BY DEF EntryOK, EntryType
  <2>2. fail(e, why) = [e EXCEPT !.failure = why, !.signal = s]
    BY <1>2 DEF fail
  <2> HIDE DEF s
  <2>3. fail(e, why) \in EntryType
    BY <2>1, <2>2, Zenon DEF EntryOK, EntryType
  <2> QED BY <2>2, <2>3 DEF EntryOK, EntryType
<1> QED BY <1>1, <1>2

LEMMA AbortKeeps ==
    ASSUME NEW e, EntryOK(e)
    PROVE  EntryOK(abort(e)) /\ abort(e).state = e.state
<1> DEFINE marked == [e EXCEPT !.aborted = TRUE]
<1>1. EntryOK(marked) /\ marked.state = e.state /\ marked.phase = e.phase
  BY ZenonT(40) DEF EntryOK, EntryType
<1> HIDE DEF marked
<1>2. abort(e) = IF e.phase \in {"process", "artifact"} THEN fail(marked, "cancelled") ELSE marked
  BY DEF abort, marked
<1> QED BY <1>1, <1>2, FailKeeps

\* The process that spawn starts is that of an entry in progress.
LEMMA SpawnedKeeps ==
    ASSUME NEW e, EntryOK(e), e.state = "running"
    PROVE  EntryOK(Spawned(e)) /\ Spawned(e).state = e.state
<1> DEFINE started == [e EXCEPT !.phase = "process", !.child = "alive"]
<1>1. EntryOK(started) /\ started.state = e.state /\ started.phase = "process"
  BY Zenon DEF EntryOK, EntryType, None
<1> HIDE DEF started
<1>2. Spawned(e) = IF e.aborted THEN fail(started, "cancelled") ELSE started
  BY DEF Spawned, started
<1> QED BY <1>1, <1>2, FailKeeps

LEMMA OnCloseKeeps ==
    ASSUME NEW e, EntryOK(e), e.state = "running", e.child = "exited"
    PROVE  EntryOK(onClose(e)) /\ onClose(e).state = e.state
BY ZenonT(40) DEF EntryOK, EntryType, onClose, None, Outcomes

\* The artifact is read, or not.
LEMMA SettleKeeps ==
    ASSUME NEW e, EntryOK(e), e.state = "running", e.phase = "artifact", NEW r \in {"completed", "failed"},
           NEW f, f = [e EXCEPT !.phase = "cleanup", !.result = r]
    PROVE  EntryOK(f) /\ f.state = e.state
<1>1. f.phase = "cleanup" /\ f.result = r /\ f.state = "running" /\ f.runs = e.runs /\ f.child = e.child
  BY DEF EntryOK, EntryType
<1>2. f \in EntryType
  <2>1. e \in EntryType /\ r \in {None} \cup Outcomes
    BY DEF EntryOK, Outcomes
  <2> QED BY <2>1, Zenon DEF EntryType
<1>3. e.child # "alive"
  BY DEF EntryOK
<1> QED BY <1>1, <1>2, <1>3 DEF EntryOK, None

\* What is left when runJob ends is the outcome, and no process.
LEMMA EndedKeeps ==
    ASSUME NEW e, EntryOK(e), e.phase = "cleanup", NEW f \in Cleaned(e)
    PROVE  EntryOK(Ended(f)) /\ Ended(f).state \in Outcomes
<1>1. EntryOK(f) /\ f.phase = "cleanup"
  BY DEF EntryOK, EntryType, Cleaned, None, Outcomes
<1>2. Ended(f) = [f EXCEPT !.state = f.result, !.phase = None, !.failure = None,
                           !.result = None, !.child = None]
  BY <1>1, Zenon DEF EntryOK, Ended
<1>3. f.result \in Outcomes /\ f.runs \in 0..1
  BY <1>1 DEF EntryOK, EntryType
<1>4. Ended(f) \in EntryType
  BY <1>1, <1>2, <1>3, ZenonT(40) DEF EntryOK, EntryType
<1> QED BY <1>1, <1>2, <1>3, <1>4 DEF EntryOK, EntryType, None, Outcomes

LEMMA NoEntryOK == EntryOK(NoEntry) /\ NoEntry.state = None
BY DEF EntryOK, EntryType, NoEntry, Entry, None, Outcomes

--------------------------------------------------------------------------------
(* What the service does to the entries. *)

\* A step that changes no entry's state keeps the invariant if it keeps the entries
\* in order.
LEMMA SameStates ==
    ASSUME IInv, UNCHANGED <<jobId, activeJobs, completed>>,
           jobs' \in [Jobs -> EntryType],
           \A j \in Jobs : EntryOK(jobs'[j]) /\ jobs'[j].state = jobs[j].state
    PROVE  IInv'
<1>1. Busy' = Busy
  BY SMTT(20) DEF Busy, Running
<1>2. SlotsCounted' /\ CompletedInv'
  BY <1>1 DEF IInv, SlotsCounted, CompletedInv
<1> QED BY <1>2 DEF IInv

\* Pruning takes entries that have ended, and their places in completed.
LEMMA PruneKeeps ==
    ASSUME IInv, NEW k \in 0..Len(completed), pruneCompletedJobs(k),
           UNCHANGED <<jobId, activeJobs>>, jobs' \in [Jobs -> EntryType],
           \A j \in Jobs : EntryOK(jobs'[j]) /\ jobs'[j].state = Pruned(k)[j].state
    PROVE  IInv'
<1>0. /\ completed \in Seq(Jobs) /\ Len(completed) \in Nat
      /\ \A j \in Jobs : (\E i \in 1..Len(completed) : completed[i] = j)
                             <=> jobs[j].state \in Outcomes
      /\ \A i, m \in 1..Len(completed) : completed[i] = completed[m] => i = m
  BY DEF IInv, CompletedInv
<1>1. /\ completed' \in Seq(Jobs) /\ Len(completed') = Len(completed) - k
      /\ \A i \in 1..Len(completed') : completed'[i] = completed[i + k]
  BY <1>0 DEF pruneCompletedJobs
<1>2. \A j \in Jobs : j \in Oldest(k) <=> \E i \in 1..k : completed[i] = j
  <2>1. SubSeq(completed, 1, k) \in Seq(Jobs) /\ Len(SubSeq(completed, 1, k)) = k
        /\ \A i \in 1..k : SubSeq(completed, 1, k)[i] = completed[i]
    BY <1>0
  <2>2. DOMAIN SubSeq(completed, 1, k) = 1..k
    BY <2>1
  <2> QED BY <2>1, <2>2, Zenon DEF Oldest, ToSet
<1>3. \A j \in Jobs : jobs'[j].state = IF j \in Oldest(k) THEN None ELSE jobs[j].state
  BY NoEntryOK DEF Pruned
<1>4. \A j \in Jobs : j \in Oldest(k) => jobs[j].state \in Outcomes
  BY <1>0, <1>2
<1>5. Busy' = Busy
  BY <1>3, <1>4 DEF Busy, Running, Outcomes, None
<1>6. CompletedInv'
  <2>1. ASSUME NEW j \in Jobs, NEW i \in 1..Len(completed'), completed'[i] = j
        PROVE  jobs'[j].state \in Outcomes
    <3>1. i + k \in 1..Len(completed) /\ completed[i + k] = j
      BY <2>1, <1>0, <1>1
    <3>2. j \notin Oldest(k)
      <4>1. SUFFICES ASSUME NEW m \in 1..k, completed[m] = j PROVE FALSE
        BY <1>2
      <4>2. m \in 1..Len(completed) /\ m # i + k
        BY <1>0, <1>1
      <4> QED BY <4>1, <4>2, <3>1, <1>0
    <3> QED BY <3>1, <3>2, <1>0, <1>3
  <2>2. ASSUME NEW j \in Jobs, jobs'[j].state \in Outcomes
        PROVE  \E i \in 1..Len(completed') : completed'[i] = j
    <3>1. j \notin Oldest(k) /\ jobs[j].state \in Outcomes
      BY <2>2, <1>3 DEF None, Outcomes
    <3>2. PICK i \in 1..Len(completed) : completed[i] = j
      BY <3>1, <1>0
    <3>3. ~(i \in 1..k)
      BY <3>1, <3>2, <1>2
    <3>4. i - k \in 1..Len(completed') /\ (i - k) + k = i
      BY <3>3, <1>0, <1>1
    <3>5. completed'[i - k] = j
      BY <3>2, <3>4, <1>1
    <3> QED BY <3>4, <3>5
  <2>3. ASSUME NEW i \in 1..Len(completed'), NEW m \in 1..Len(completed'),
               completed'[i] = completed'[m]
        PROVE  i = m
    <3>1. i + k \in 1..Len(completed) /\ m + k \in 1..Len(completed)
      BY <1>0, <1>1
    <3>2. completed[i + k] = completed[m + k]
      BY <2>3, <1>1
    <3>3. i + k = m + k
      BY <3>1, <3>2, <1>0
    <3> QED BY <3>3
  <2> QED BY <1>1, <2>1, <2>2, <2>3 DEF CompletedInv
<1> QED BY <1>5, <1>6 DEF IInv, SlotsCounted

\* The jobs in progress are finitely many, so that one more or one less is counted.
LEMMA BusyFinite == IsFiniteSet(Busy)
BY ServiceAssumption, FS_Subset DEF Busy

--------------------------------------------------------------------------------
(* The steps. *)

LEMMA InitIInv == Init => IInv
<1> SUFFICES ASSUME Init PROVE IInv
  OBVIOUS
<1>1. jobId \in [Calls -> Jobs]
  BY ServiceAssumption DEF Init
<1>2. jobs \in [Jobs -> EntryType] /\ \A j \in Jobs : EntryOK(jobs[j]) /\ jobs[j].state = None
  BY NoEntryOK DEF Init, EntryOK
<1>3. Busy = {}
  BY <1>2 DEF Busy, Running, None
<1>4. SlotsCounted /\ activeJobs \in Nat
  BY <1>3, FS_EmptySet, ServiceAssumption DEF Init, SlotsCounted
<1>5. CompletedInv
  BY <1>2 DEF Init, CompletedInv, None, Outcomes
<1> QED BY <1>1, <1>2, <1>4, <1>5 DEF IInv

\* A POST for a job without an entry takes a free slot, one for any other job none.
LEMMA CreateKeeps ==
    ASSUME IInv, NEW c \in Calls, handleCreate(c)
    PROVE  IInv'
<1> DEFINE j == jobId[c]
           e == Entry("running", c, "preparing", jobs[j].runs + 1)
<1>1. j \in Jobs /\ EntryOK(jobs[j])
  BY DEF IInv
<1>2. CASE UNCHANGED <<jobs, activeJobs>>
  BY <1>2 DEF handleCreate, IInv, SlotsCounted, Busy, Running, CompletedInv
<1>3. CASE /\ Joined(j) = {} /\ ~Full
           /\ activeJobs' = activeJobs + 1 /\ jobs' = [jobs EXCEPT ![j] = e]
  <2>1. jobs[j].state = None
    BY <1>1, <1>3, SMTT(20) DEF Joined
  <2>2. EntryOK(e) /\ e.state = "running"
    BY <1>1, <2>1 DEF EntryOK, EntryType, Entry, None
  <2> HIDE DEF j, e
  <2>3. /\ jobs' \in [Jobs -> EntryType] /\ \A i \in Jobs : EntryOK(jobs'[i])
        /\ \A i \in Jobs : jobs'[i].state = IF i = j THEN "running" ELSE jobs[i].state
    BY <1>1, <1>3, <2>2 DEF IInv, EntryOK
  <2>4. Busy' = Busy \cup {j} /\ j \notin Busy
    BY <1>1, <2>1, <2>3 DEF Busy, Running, None
  <2>5. Cardinality(Busy') = Cardinality(Busy) + 1
    BY <2>4, BusyFinite, FS_AddElement
  <2>6. activeJobs' \in Nat /\ SlotsCounted'
    BY <1>3, <2>5, ServiceAssumption DEF IInv, SlotsCounted, Full
  <2>7. CompletedInv'
    BY <2>1, <2>3 DEF IInv, CompletedInv, handleCreate, None, Outcomes
  <2> QED BY <2>3, <2>6, <2>7 DEF IInv, handleCreate
<1> QED BY <1>2, <1>3 DEF handleCreate

\* runJob gives back the slot of its job and retains the entry.
LEMMA RunJobKeeps ==
    ASSUME IInv, NEW j \in Jobs, runJob(j)
    PROVE  IInv'
<1>1. PICK e \in Cleaned(jobs[j]) :
          jobs' = [jobs EXCEPT ![j] = Ended(e)] /\ activeJobs' = activeJobs - 1
  BY Zenon DEF runJob
<1>2. EntryOK(Ended(e)) /\ Ended(e).state \in Outcomes
  BY EndedKeeps, SMTT(20) DEF IInv, runJob, In
<1>3. /\ jobs' \in [Jobs -> EntryType] /\ \A i \in Jobs : EntryOK(jobs'[i])
      /\ \A i \in Jobs : i # j => jobs'[i].state = jobs[i].state
      /\ jobs'[j].state \in Outcomes /\ jobs[j].state = "running"
  BY <1>1, <1>2 DEF IInv, EntryOK, runJob, In, Running
<1>4. Busy' = Busy \ {j} /\ j \in Busy
  BY <1>3 DEF Busy, Running, Outcomes
<1>5. Cardinality(Busy') = Cardinality(Busy) - 1 /\ Cardinality(Busy') \in Nat
  BY <1>4, BusyFinite, FS_RemoveElement, FS_CardinalityType
<1>6. activeJobs' \in Nat /\ SlotsCounted'
  BY <1>1, <1>5, ServiceAssumption DEF IInv, SlotsCounted
<1>7. CompletedInv'
  <2> DEFINE n == Len(completed)
  <2>1. n \in Nat /\ completed \in Seq(Jobs) /\ completed' = Append(completed, j)
    BY DEF IInv, CompletedInv, runJob
  <2>2. /\ completed' \in Seq(Jobs) /\ Len(completed') = n + 1 /\ completed'[n + 1] = j
        /\ \A i \in 1..n : completed'[i] = completed[i]
    BY <2>1
  <2>3. \A i \in 1..n : completed[i] # j
    BY <1>3 DEF IInv, CompletedInv, Outcomes
  <2>4. \A i, k \in 1..n : completed[i] = completed[k] => i = k
    BY DEF IInv, CompletedInv
  <2>5. \A i \in Jobs : (\E k \in 1..n : completed[k] = i) <=> jobs[i].state \in Outcomes
    BY DEF IInv, CompletedInv
  <2> HIDE DEF n
  <2>6. 1..Len(completed') = (1..n) \cup {n + 1}
    BY <2>1, <2>2
  <2>7. \A i, k \in 1..Len(completed') : completed'[i] = completed'[k] => i = k
    BY <2>2, <2>3, <2>4, <2>6
  <2>8. \A i \in Jobs : (\E k \in 1..Len(completed') : completed'[k] = i)
                            <=> jobs'[i].state \in Outcomes
    BY <1>3, <2>2, <2>3, <2>5, <2>6, SMTT(20)
  <2> QED BY <2>2, <2>7, <2>8 DEF CompletedInv
<1> QED BY <1>3, <1>6, <1>7, Zenon DEF IInv, runJob

\* Every step keeps the invariant.
LEMMA NextIInv == IInv /\ [Next]_vars => IInv'
<1> SUFFICES ASSUME IInv, [Next]_vars PROVE IInv'
  BY SMTT(20)
<1>0. ASSUME UNCHANGED <<jobId, jobs, activeJobs, completed>> PROVE IInv'
  BY <1>0 DEF IInv, SlotsCounted, Busy, Running, CompletedInv
<1>1. ASSUME NEW j \in Jobs, NEW e, EntryOK(e), e.state = jobs[j].state,
             jobs' = [jobs EXCEPT ![j] = e], UNCHANGED <<jobId, activeJobs, completed>>
      PROVE  IInv'
  <2>1. jobs' \in [Jobs -> EntryType]
    BY <1>1 DEF IInv, EntryOK
  <2>2. \A i \in Jobs : EntryOK(jobs'[i]) /\ jobs'[i].state = jobs[i].state
    BY <1>1 DEF IInv
  <2> QED BY <1>1, <2>1, <2>2, SameStates
<1>2. \A j \in Jobs : EntryOK(jobs[j])
  BY DEF IInv
<1>3. jobs \in [Jobs -> EntryType] /\ jobId \in [Calls -> Jobs]
  BY DEF IInv
<1>4. ASSUME NEW k \in 0..Len(completed), NEW j \in Jobs
      PROVE  EntryOK(Pruned(k)[j])
  BY <1>2, NoEntryOK, SMTT(20) DEF Pruned
<1>5. ASSUME NEW c \in Calls,
             \/ execute(c) \/ giveUp(c) \/ receive(c) \/ cancel(c) \/ losePost(c) \/ loseDelete(c)
             \/ readJsonBody(c) \/ validateJobRequest(c)
      PROVE  IInv'
  BY <1>5, <1>0 DEF execute, giveUp, receive, cancel, losePost, loseDelete, readJsonBody,
                    validateJobRequest, service
<1>6. ASSUME NEW c \in Calls, handle(c) PROVE IInv'
  <2>1. PICK k \in 0..Len(completed) : pruneCompletedJobs(k) /\ jobs' = Pruned(k)
    BY <1>6, SMTT(20) DEF handle
  <2>2. jobs' \in [Jobs -> EntryType]
    BY <2>1, <1>4 DEF Pruned, EntryOK
  <2> QED BY <1>6, <2>1, <2>2, <1>4, PruneKeeps DEF handle
<1>7. ASSUME NEW c \in Calls, handleCreate(c) PROVE IInv'
  BY <1>7, CreateKeeps
<1>8. ASSUME NEW c \in Calls, abortOnDisconnect(c) PROVE IInv'
  <2>1. jobId[c] \in Jobs
    BY <1>3, SMTT(20)
  <2> QED BY <1>8, <2>1, <1>1, <1>2, AbortKeeps, Zenon DEF abortOnDisconnect, service
<1>9. ASSUME NEW c \in Calls, handleCancel(c) PROVE IInv'
  <2> DEFINE j == jobId[c]
  <2>1. j \in Jobs
    BY <1>3
  <2>2. PICK k \in 0..Len(completed) :
            /\ pruneCompletedJobs(k)
            /\ jobs' = IF Running(j) THEN [Pruned(k) EXCEPT ![j] = abort(@)] ELSE Pruned(k)
    BY <1>9 DEF handleCancel
  <2>3. \A i \in Jobs : EntryOK(Pruned(k)[i])
    BY <1>4
  <2>4. Pruned(k) \in [Jobs -> EntryType]
    BY <2>3 DEF Pruned, EntryOK
  <2>5. EntryOK(abort(Pruned(k)[j])) /\ abort(Pruned(k)[j]).state = Pruned(k)[j].state
    BY <2>1, <2>3, AbortKeeps, SMTT(20)
  <2>6. jobs' \in [Jobs -> EntryType]
    BY <2>1, <2>2, <2>4, <2>5, SMTT(20) DEF EntryOK
  <2>7. \A i \in Jobs : EntryOK(jobs'[i]) /\ jobs'[i].state = Pruned(k)[i].state
    BY <2>1, <2>2, <2>3, <2>4, <2>5, Zenon
  <2> QED BY <1>9, <2>2, <2>6, <2>7, PruneKeeps DEF handleCancel
<1>10. ASSUME NEW j \in Jobs, spawn(j) PROVE IInv'
  <2>1. PICK d \in {None, "made"} : LET e == [jobs[j] EXCEPT !.directory = d] IN
            \/ jobs' = [jobs EXCEPT ![j] = Spawned(e)]
            \/ jobs' = [jobs EXCEPT ![j] = [e EXCEPT !.phase = "cleanup", !.result = "failed"]]
    BY <1>10, Zenon DEF spawn
  <2> DEFINE e == [jobs[j] EXCEPT !.directory = d]
             f == [e EXCEPT !.phase = "cleanup", !.result = "failed"]
  <2>2. jobs[j].state = "running" /\ jobs[j].phase = "preparing" /\ UNCHANGED <<jobId, activeJobs, completed>>
    BY <1>10 DEF spawn, In, Running, calls, service
  <2>3. EntryOK(e) /\ e.state = "running" /\ e.phase = "preparing"
    BY <1>2, <2>2 DEF EntryOK, EntryType
  <2>4. jobs' = [jobs EXCEPT ![j] = Spawned(e)] \/ jobs' = [jobs EXCEPT ![j] = f]
    BY <2>1
  <2>5. EntryOK(f) /\ f.state = "running"
    <3> HIDE DEF e
    <3>1. f \in EntryType
      BY <2>3, Zenon DEF EntryOK, EntryType, Outcomes
    <3> QED BY <2>3, <3>1 DEF EntryOK, EntryType, None
  <2> HIDE DEF e, f
  <2>6. EntryOK(Spawned(e)) /\ Spawned(e).state = "running"
    BY <2>3, SpawnedKeeps
  <2> QED BY <1>1, <2>2, <2>4, <2>5, <2>6
<1>11. ASSUME NEW j \in Jobs, overrun(j) PROVE IInv'
  BY <1>11, <1>1, <1>2, FailKeeps, Zenon DEF overrun, In, calls, service
<1>12. ASSUME NEW j \in Jobs, forceKillTimer(j) PROVE IInv'
  <2> DEFINE e == [jobs[j] EXCEPT !.signal = "kill"]
  <2>1. EntryOK(e) /\ e.state = jobs[j].state
    BY <1>2 DEF EntryOK, EntryType
  <2>2. jobs' = [jobs EXCEPT ![j] = e]
    BY <1>12, <1>3 DEF forceKillTimer
  <2> HIDE DEF e
  <2> QED BY <1>12, <1>1, <2>1, <2>2, ZenonT(40) DEF forceKillTimer, calls, service
<1>13. ASSUME NEW j \in Jobs, exit(j) PROVE IInv'
  <2> DEFINE e == [jobs[j] EXCEPT !.child = "exited"]
  <2>1. EntryOK(e) /\ e.state = jobs[j].state
    BY <1>2 DEF EntryOK, EntryType
  <2>2. jobs' = [jobs EXCEPT ![j] = e]
    BY <1>13, <1>3 DEF exit
  <2> HIDE DEF e
  <2> QED BY <1>13, <1>1, <2>1, <2>2, Zenon DEF exit, calls, service
<1>14. ASSUME NEW j \in Jobs, closed(j) PROVE IInv'
  BY <1>14, <1>1, <1>2, OnCloseKeeps, Zenon DEF closed, In, Running, calls, service
<1>15. ASSUME NEW j \in Jobs, readRenderArtifact(j) PROVE IInv'
  <2>1. PICK r \in {"completed", "failed"} : Settle(j, r)
    BY <1>15 DEF readRenderArtifact
  <2> DEFINE e == [jobs[j] EXCEPT !.phase = "cleanup", !.result = r]
  <2>2. jobs[j].state = "running" /\ jobs[j].phase = "artifact" /\ UNCHANGED <<jobId, activeJobs, completed>>
    BY <1>15 DEF readRenderArtifact, In, Running, calls, service
  <2>3. EntryOK(e) /\ e.state = jobs[j].state
    BY <1>2, <2>2, SettleKeeps, Zenon
  <2>4. jobs' = [jobs EXCEPT ![j] = e]
    BY <2>1, <1>3, ZenonT(40) DEF Settle
  <2> HIDE DEF e
  <2> QED BY <1>1, <2>2, <2>3, <2>4, Zenon
<1>16. ASSUME NEW j \in Jobs, runJob(j) PROVE IInv'
  BY <1>16, RunJobKeeps
<1>17. CASE close
  <2>1. \A j \in Jobs : EntryOK(abort(jobs[j])) /\ abort(jobs[j]).state = jobs[j].state
    BY <1>2, AbortKeeps
  <2>2. jobs' \in [Jobs -> EntryType]
    BY <1>17, <1>2, <2>1 DEF close, EntryOK
  <2>3. \A j \in Jobs : EntryOK(jobs'[j]) /\ jobs'[j].state = jobs[j].state
    BY <1>17, <1>2, <2>1 DEF close
  <2> QED BY <1>17, <2>2, <2>3, SameStates DEF close, calls
<1>18. CASE restart
  <2>1. jobs' \in [Jobs -> EntryType] /\ \A j \in Jobs : EntryOK(jobs'[j]) /\ jobs'[j].state = None
    BY <1>18, NoEntryOK DEF restart, EntryOK
  <2>2. Busy' = {}
    BY <2>1 DEF Busy, Running, None
  <2>3. SlotsCounted' /\ activeJobs' \in Nat
    BY <1>18, <2>2, FS_EmptySet, ServiceAssumption DEF restart, SlotsCounted
  <2>4. CompletedInv'
    BY <1>18, <2>1 DEF restart, CompletedInv, None, Outcomes
  <2> QED BY <1>18, <1>3, <2>1, <2>3, <2>4 DEF restart, IInv
<1>19. CASE UNCHANGED vars
  BY <1>19, <1>0 DEF vars, calls, service
<1> QED BY <1>5, <1>6, <1>7, <1>8, <1>9, <1>10, <1>11, <1>12, <1>13, <1>14, <1>15, <1>16,
           <1>17, <1>18, <1>19 DEF Next

LEMMA Inductive == Spec => []IInv
BY InitIInv, NextIInv, PTL DEF Spec

\* ClearraJobService never runs a job twice while it retains the entry: a POST that
\* comes again joins the entry, in progress or ended.
THEOREM RunsOnce == Spec => []RunOnce
<1>1. IInv => RunOnce
  BY DEF IInv, RunOnce, EntryOK
<1> QED BY <1>1, Inductive, PTL

\* While the process of a job lives, its entry is in progress: fail leaves the end of
\* the job to "close", however often it is cancelled or times out.
THEOREM HoldsSlot == Spec => []SlotHeld
<1>1. IInv => SlotHeld
  BY DEF IInv, SlotHeld, EntryOK, Alive, Running, None
<1> QED BY <1>1, Inductive, PTL

\* The counter that handleCreate compares with maxConcurrentJobs is the number of the
\* entries in progress, and stays within that limit.
THEOREM CountsSlots == Spec => []SlotsCounted
<1>1. IInv => SlotsCounted
  BY DEF IInv
<1> QED BY <1>1, Inductive, PTL

\* Of the processes that the runners have started, at most maxConcurrentJobs live.
THEOREM BoundsProcesses == Spec => [](Cardinality({j \in Jobs : Alive(j)}) <= maxConcurrentJobs)
<1> DEFINE A == {j \in Jobs : Alive(j)}
<1>1. IInv => Cardinality(A) <= maxConcurrentJobs
  <2> SUFFICES ASSUME IInv PROVE Cardinality(A) <= maxConcurrentJobs
    OBVIOUS
  <2>1. A \subseteq Busy
    BY DEF IInv, EntryOK, Alive, Busy, Running, None
  <2>2. Cardinality(A) \in Nat /\ Cardinality(A) <= Cardinality(Busy)
    BY <2>1, BusyFinite, FS_Subset, FS_CardinalityType
  <2> QED BY <2>2, ServiceAssumption DEF IInv, SlotsCounted
<1> QED BY <1>1, Inductive, PTL

================================================================================
