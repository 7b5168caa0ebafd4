-------------------------- MODULE DelegationAuthority --------------------------
(***************************************************************************)
(* DurableDelegationAuthority over the journal of one job                  *)
(* (crates/clearra-core-executor/src/resource/durable_delegation_journal.rs).*)
(*                                                                         *)
(* The authority keeps the delegations in memory and writes every          *)
(* transition to the journal before it acts on it.  The journal is seen    *)
(* here through what replaying it yields: `journal` replays the records    *)
(* that were acknowledged, and `disk` holds every journal that the bytes   *)
(* of the file may be read back as after a crash.  An append that fails    *)
(* may have written nothing, part of its line or the whole line; an append *)
(* acknowledged after a failed one that left bytes behind repeats a        *)
(* sequence number or continues a torn line, which recovery rejects.       *)
(* Methods that fail before they change anything are stuttering steps.     *)
(***************************************************************************)
EXTENDS DelegationProtocol

CONSTANTS
    OfferAcceptTimeout,     \* OFFER_ACCEPT_TIMEOUT_MS
    PersistedRenewal,       \* PERSISTED_RENEWAL_INTERVAL_MS
    ActiveLeaseExpiry,      \* ACTIVE_LEASE_EXPIRY_MS
    TombstoneRetention,     \* TERMINAL_TOMBSTONE_RETENTION_MS
    MaxTime                 \* stands for u64::MAX milliseconds

ASSUME TimeAssumption ==
    /\ OfferAcceptTimeout \in Nat
    /\ PersistedRenewal \in Nat \ {0}
    /\ ActiveLeaseExpiry \in Nat
    /\ TombstoneRetention \in Nat
    /\ MaxTime \in Nat

VARIABLES
    mode,       \* "open", "down" (no process holds the journal), "quarantined"
    now,        \* the wall clock
    states,     \* DurableDelegationAuthority.states
    next,       \* DurableDelegationAuthority.next_fencing_token
    tokens,     \* DelegationTokens callers of this process hold
    permits,    \* ExecutableDelegationPermits issued since the last reset
    journal,    \* the acknowledged records, replayed
    disk,       \* what the file may be read back as
    dirty       \* the file holds bytes that were not acknowledged

vars == <<mode, now, states, next, tokens, permits, journal, disk, dirty>>

memory == <<states, next, tokens>>

file == <<journal, disk, dirty>>

Times == 0..MaxTime

Token == [task : Tasks, fence : Nat]

Permit == [task : Tasks, fence : Nat, expires : Nat]

NoDelegations == [t \in Tasks |-> Absent]

Init ==
    /\ mode = "open"
    /\ now = 0
    /\ states = NoDelegations
    /\ next = 0
    /\ tokens = {}
    /\ permits = {}
    /\ journal = EmptyJournal
    /\ disk = {EmptyJournal}
    /\ dirty = FALSE

--------------------------------------------------------------------------------
(* The journal.                                                             *)

\* Fault: the record is acknowledged before it is synced.
AcknowledgedUnsynced(replayed) ==
    /\ journal' = replayed
    /\ disk' = disk \cup {replayed}
    /\ UNCHANGED dirty

\* Records written, flushed and synced: `replayed` is the journal with them.
Acknowledged(replayed) ==
    /\ journal' = replayed
    /\ disk' = IF dirty THEN {CorruptJournal} ELSE {replayed}
    /\ UNCHANGED dirty

\* append returns an error.  `replayed` is the journal with the record that
\* was being written; `readable` is what the file could read back as before.
FailedAppend(replayed, readable) ==
    \/ disk' = readable /\ UNCHANGED dirty
    \/ disk' = readable /\ dirty' = TRUE
    \/ /\ disk' = readable \cup {IF dirty THEN CorruptJournal ELSE replayed}
       /\ dirty' = TRUE

\* Fault: memory moves on although the append failed.
append_memory_first(ev, ok, failed) ==
    /\ \/ Acknowledged(replay(journal, ev))
       \/ FailedAppend(replay(journal, ev), disk) /\ UNCHANGED journal
    /\ states' = ok

\* A record is appended; the delegations become `ok` once it is acknowledged
\* and `failed` when the append fails.
append(ev, ok, failed) ==
    \/ Acknowledged(replay(journal, ev)) /\ states' = ok
    \/ /\ FailedAppend(replay(journal, ev), disk)
       /\ states' = failed
       /\ UNCHANGED journal

--------------------------------------------------------------------------------
(* Operations.                                                              *)

\* state(): the token names a delegation and carries its fence.
Known(k) == states[k.task].phase # "Absent" /\ states[k.task].token = k.fence

ensure_live(k) == now - states[k.task].heartbeat <= ActiveLeaseExpiry

Moved(s, to) ==
    [s EXCEPT !.phase = to, !.terminal_at = IF to \in Terminal THEN now ELSE @]

\* transition(): the record carries the worker and the result the delegation
\* has, or those the operation supplies; `after` is the state the operation
\* leaves, `failed` the one it leaves when the append fails.
transition(k, after, failed) ==
    /\ Known(k)
    /\ valid_transition(states[k.task].phase, after.phase)
    /\ append([task |-> k.task, phase |-> after.phase, token |-> k.fence,
               worker |-> after.worker, result |-> after.result, at |-> now],
              [states EXCEPT ![k.task] = after],
              [states EXCEPT ![k.task] = failed])
    /\ UNCHANGED <<mode, now, next, tokens>>

prepare(t) ==
    LET token == next + 1
        ev == [task |-> t, phase |-> "Prepared", token |-> token,
               worker |-> None, result |-> None, at |-> now]
    IN  /\ states[t].phase = "Absent"
        /\ \/ /\ Acknowledged(replay(journal, ev))
              /\ next' = token
              /\ states' = [states EXCEPT ![t] = PreparedState(token, now)]
              /\ tokens' = tokens \cup {[task |-> t, fence |-> token]}
           \/ /\ FailedAppend(replay(journal, ev), disk)
              /\ UNCHANGED <<journal, next, states, tokens>>
        /\ UNCHANGED <<mode, now, permits>>

offered(k) ==
    LET s == states[k.task] IN
    /\ transition(k, [Moved(s, "Offered") EXCEPT !.offered_at = now], s)
    /\ UNCHANGED permits

accepted(k, w) ==
    LET s == states[k.task] IN
    /\ s.offered_at # NoTime
    /\ now - s.offered_at <= OfferAcceptTimeout
    /\ transition(k, [Moved(s, "Accepted") EXCEPT !.worker = w], s)
    /\ UNCHANGED permits

\* Fault: the permit is issued whether or not the record was acknowledged.
publish_early(k) ==
    LET s == states[k.task] IN
    /\ transition(k, [Moved(s, "Published") EXCEPT !.heartbeat = now, !.persisted = now], s)
    /\ permits' = permits \cup {[task |-> k.task, fence |-> k.fence,
                                  expires |-> now + ActiveLeaseExpiry]}

\* The permit is built after the record is acknowledged: when its expiry
\* overflows, the delegation stays Published and nobody gets a permit.
publish(k) ==
    LET s == states[k.task]
        expires == now + ActiveLeaseExpiry
    IN  /\ transition(k, [Moved(s, "Published") EXCEPT !.heartbeat = now, !.persisted = now], s)
        /\ permits' = IF states'[k.task].phase = "Published" /\ expires <= MaxTime
                      THEN permits \cup {[task |-> k.task, fence |-> k.fence, expires |-> expires]}
                      ELSE permits

running(k) ==
    LET s == states[k.task] IN
    /\ ensure_live(k)
    /\ transition(k, [Moved(s, "Running") EXCEPT !.heartbeat = now], s)
    /\ UNCHANGED permits

\* The heartbeat is noted in memory first; when a renewal is due it is also
\* written, and a renewal that is refused or fails leaves the noted heartbeat.
heartbeat(k) ==
    LET s == states[k.task]
        beaten == [s EXCEPT !.heartbeat = now]
        due == now - s.persisted >= PersistedRenewal
    IN  /\ Known(k)
        /\ ensure_live(k)
        /\ IF due /\ valid_transition(s.phase, "Renewed")
           THEN transition(k, [Moved(beaten, "Renewed") EXCEPT !.persisted = now], beaten)
           ELSE /\ states' = [states EXCEPT ![k.task] = beaten]
                /\ UNCHANGED <<mode, now, next, tokens, file>>
        /\ UNCHANGED permits

\* A repeated seal of a sealed delegation answers without a change.
result_sealed(k, r) ==
    LET s == states[k.task] IN
    /\ ensure_live(k)
    /\ s.phase \notin Sealed
    /\ transition(k, [Moved(s, "ResultSealed") EXCEPT !.result = r], s)
    /\ UNCHANGED permits

\* result_applied, complete, fail_closed, revoke and cancel only transition.
move(k, to) ==
    /\ transition(k, Moved(states[k.task], to), states[k.task])
    /\ UNCHANGED permits

result_applied(k) == move(k, "ResultApplied")

complete(k) == move(k, "Completed")

abort(k) == \E to \in {"FailedClosed", "Revoked", "Cancelled"} : move(k, to)

\* expire_stale ends the stale delegations one by one in key order; the first
\* append that fails ends the loop, with the earlier ones already expired.
Stale ==
    {t \in Tasks : /\ states[t].phase \in {"Published", "Running", "Renewed"}
                   /\ now - states[t].heartbeat > ActiveLeaseExpiry}

ExpiryRecord(t) ==
    [task |-> t, phase |-> "Expired", token |-> states[t].token,
     worker |-> states[t].worker, result |-> states[t].result, at |-> now]

\* The journal with the expiry records of the tasks in E.
ReplayExpiries(E) ==
    IF \A t \in E : Replayable(journal, ExpiryRecord(t))
    THEN [ok |-> journal.ok,
          next |-> journal.next,
          states |-> [t \in Tasks |-> IF t \in E THEN ReplayState(journal.states[t], ExpiryRecord(t))
                                                ELSE journal.states[t]]]
    ELSE CorruptJournal

ExpireMemory(E) ==
    [t \in Tasks |-> IF t \in E THEN Moved(states[t], "Expired") ELSE states[t]]

expire_stale ==
    \E E \in SUBSET Stale :
        LET rest == Stale \ E
            written == ReplayExpiries(E)
            readable == IF E = {} THEN disk
                        ELSE {IF dirty THEN CorruptJournal ELSE written}
        IN  /\ Stale # {}
            /\ \A t \in E, u \in rest : t < u
            /\ states' = ExpireMemory(E)
            /\ IF rest = {}
               THEN Acknowledged(written)
               ELSE \E failing \in rest :
                      /\ \A u \in rest : failing <= u
                      /\ FailedAppend(replay(written, ExpiryRecord(failing)), readable)
                      /\ journal' = written
            /\ UNCHANGED <<mode, now, next, tokens, permits>>

Compactable ==
    /\ \E t \in Tasks : states[t].phase # "Absent"
    /\ \A t \in Tasks : states[t].phase # "Absent" =>
         /\ states[t].phase \in Terminal
         /\ now - states[t].terminal_at > TombstoneRetention

\* A reset that fails after the file was cut leaves the memory as it was.
compact_expired_terminal_tombstones ==
    /\ Compactable
    /\ \/ /\ journal' = EmptyJournal
          /\ disk' = {EmptyJournal}
          /\ dirty' = FALSE
          /\ states' = NoDelegations
          /\ next' = 0
          /\ permits' = {}
       \/ /\ disk' = disk \cup {EmptyJournal}
          /\ dirty' = TRUE
          /\ UNCHANGED <<journal, states, next, permits>>
    /\ UNCHANGED <<mode, now, tokens>>

--------------------------------------------------------------------------------
(* The process and its clock.                                               *)

\* The wall clock is not monotonic, and reads u64::MAX when it is unusable.
clock ==
    /\ now' \in Times
    /\ UNCHANGED <<mode, memory, permits, file>>

\* The process stops or crashes: its memory is gone.
crash ==
    /\ mode = "open"
    /\ mode' = "down"
    /\ states' = NoDelegations
    /\ next' = 0
    /\ tokens' = {}
    /\ UNCHANGED <<now, permits, file>>

\* Fault: unresolved delegations are taken up again.
recover_resuming ==
    /\ mode = "down"
    /\ \E d \in disk :
         /\ d.ok
         /\ mode' = "open"
         /\ states' = d.states
         /\ next' = d.next
         /\ journal' = d
         /\ dirty' = FALSE
    /\ UNCHANGED <<now, tokens, permits, disk>>

\* Opening the journal and recover(): a corrupt journal, a record replay
\* rejects and an unresolved delegation lead to quarantine, which may itself
\* fail and leave the file for the next process.  It is one step here;
\* NativeJournal has its steps.  Job ids are never used again, so a process
\* that dies between them leaves nothing that is opened under this name.
recover ==
    /\ mode = "down"
    /\ \E d \in disk :
         IF ~d.ok \/ Unresolved(d)
         THEN /\ mode' \in {"down", "quarantined"}
              /\ UNCHANGED <<memory, permits, file>>
         ELSE /\ mode' = "open"
              /\ states' = d.states
              /\ next' = d.next
              /\ permits' = IF d = EmptyJournal THEN {} ELSE permits
              /\ journal' = d
              /\ dirty' = FALSE
              /\ UNCHANGED <<tokens, disk>>
    /\ UNCHANGED now

Operation ==
    /\ mode = "open"
    /\ \/ \E t \in Tasks : prepare(t)
       \/ \E k \in tokens :
            \/ offered(k)
            \/ \E w \in Workers : accepted(k, w)
            \/ publish(k)
            \/ running(k)
            \/ heartbeat(k)
            \/ \E r \in Results : result_sealed(k, r)
            \/ result_applied(k)
            \/ complete(k)
            \/ abort(k)
       \/ expire_stale
       \/ compact_expired_terminal_tombstones

Next == Operation \/ clock \/ crash \/ recover

Spec == Init /\ [][Next]_vars

--------------------------------------------------------------------------------
(* Properties.                                                              *)

\* Memory, clock and journal are well typed; every timestamp is a time.
TypeOK ==
    /\ mode \in {"open", "down", "quarantined"}
    /\ now \in Times
    /\ states \in [Tasks -> State]
    /\ next \in Nat
    /\ tokens \subseteq Token
    /\ permits \subseteq Permit
    /\ journal \in Journal
    /\ disk \subseteq Journal
    /\ dirty \in BOOLEAN

\* Apart from heartbeats that were not persisted, the delegations in memory
\* are those that replaying the acknowledged records yields, and replay
\* accepts every record the authority writes: an operation, a failed append
\* or a recovery never lets the two drift apart.
LiveMatchesReplay ==
    mode = "open" =>
        /\ journal.ok
        /\ next = journal.next
        /\ \A t \in Tasks :
             states[t] = [journal.states[t] EXCEPT !.heartbeat = states[t].heartbeat]

\* The phases a delegation can be in once it was published.
AfterPublication == {"Published", "Running", "Renewed"} \cup Sealed \cup Aborts

Backed(p, j) ==
    /\ j.states[p.task].token = p.fence
    /\ j.states[p.task].worker # None
    /\ j.states[p.task].phase \in AfterPublication \cup {"ResultApplied"}

\* An executable permit exists only after its Published record is durable:
\* whatever the file reads back as after a crash, unless it was reset, shows
\* that publication; and a task is published at most once, restarts included.
PermitIsDurable ==
    /\ \A p \in permits : \A j \in disk : j.ok /\ j # EmptyJournal => Backed(p, j)
    /\ \A p, q \in permits : p.task = q.task => p = q

\* An acknowledged terminal phase is final: neither a later operation nor a
\* crash and a restart changes it, until a reset forgets the whole journal,
\* and that happens only when no delegation is unresolved.
TerminalIsFinal ==
    [][\A t \in Tasks :
         journal.states[t].phase \in Terminal =>
             \/ journal'.states[t] = journal.states[t]
             \/ journal' = EmptyJournal /\ ~Unresolved(journal)]_vars

\* A sealed result is immutable: once a record with a result is acknowledged,
\* every later record of the task carries that result.
SealedResultIsFinal ==
    [][\A t \in Tasks :
         journal.states[t].result # None /\ journal'.states[t].phase # "Absent" =>
             journal'.states[t].result = journal.states[t].result]_vars

\* No delegation survives a restart unresolved: a process that opens the
\* journal finds every task either ended or unknown, so no worker of an
\* earlier process can be acted for.
NoResume ==
    [][mode = "down" /\ mode' = "open" =>
         /\ ~Unresolved(journal')
         /\ \A t \in Tasks :
              journal.states[t].phase \notin Terminal \cup {"Absent"} =>
                  journal'.states[t].phase \in Terminal]_vars

================================================================================
