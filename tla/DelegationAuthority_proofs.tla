----------------------- MODULE DelegationAuthority_proofs -----------------------
(* Proofs about DelegationAuthority, for any tasks, workers, results and     *)
(* timeouts.                                                                  *)
EXTENDS DelegationAuthority, TLAPS

\* What validate_replayed_event makes sure of for every replayed state.
Shape(s) ==
    /\ s.phase # "Absent" => s.token > 0
    /\ s.phase \in BeforeAcceptance \cup {"Absent"} => s.worker = None /\ s.result = None
    /\ s.phase \in Working => s.worker # None /\ s.result = None
    /\ s.phase \in Sealed => s.worker # None /\ s.result # None

WellFormed(j) == j.ok => \A t \in Tasks : Shape(j.states[t])

\* The replayed form of a state in memory: its heartbeat may lag behind.
SameButHeartbeat(s, r) == s = [r EXCEPT !.heartbeat = s.heartbeat]

\* d remembers what is settled in j: its tasks, its ends and its results.
Extends(j, d) ==
    \A t \in Tasks :
        /\ j.states[t].phase # "Absent" => d.states[t].phase # "Absent"
        /\ j.states[t].phase \in Terminal => d.states[t] = j.states[t]
        /\ j.states[t].result # None => d.states[t].result = j.states[t].result

\* A journal a process opens with something in it.
Resolved(d) == d.ok /\ ~Unresolved(d) /\ d # EmptyJournal

\* The acknowledged journal j and the journals D the file may be read back as.
\* At most one of them can be opened with something in it.  While a delegation
\* is unresolved, what the file reads back as extends what was acknowledged.
FileInv(j, D) ==
    /\ j \in Journal /\ j.ok /\ WellFormed(j)
    /\ D \subseteq Journal /\ \A d \in D : WellFormed(d)
    /\ \A c, d \in D \cup {j} : Resolved(c) /\ Resolved(d) => c = d
    /\ Unresolved(j) => \A d \in D : d.ok => Extends(j, d)

\* When no append has failed, it is just that.
CleanInv(j, D) == Unresolved(j) => D = {j}

\* The permits P are those of publications that j records, and that every
\* other journal the file may be read back as records too.
PermitInv(P, j, D) ==
    /\ \A p \in P : /\ Backed(p, j)
                     /\ \A d \in D : d.ok /\ d # EmptyJournal => Backed(p, d)
    /\ \A p, q \in P : p.task = q.task => p = q

\* The inductive invariant.
IInv ==
    /\ TypeOK
    /\ LiveMatchesReplay
    /\ FileInv(journal, disk)
    /\ ~dirty => CleanInv(journal, disk)
    /\ PermitInv(permits, journal, disk)

--------------------------------------------------------------------------------
(* Replay.                                                                   *)

\* The constant journals are journals.
LEMMA ConstantJournals ==
    /\ Absent \in State
    /\ EmptyJournal \in Journal
    /\ CorruptJournal \in Journal
    /\ WellFormed(EmptyJournal)
    /\ WellFormed(CorruptJournal)
  BY Zenon DEF Absent, State, EmptyJournal, CorruptJournal, Journal, WellFormed, Shape, NoTime,
     BeforeAcceptance, Working, Sealed, Phase

\* A replayed record yields a state of the right type and shape.
LEMMA ReplayStateType ==
    ASSUME NEW s \in State, NEW ev \in Event, validate_replayed_event(ev),
           ev.phase # "Prepared" => s.token = ev.token
    PROVE  ReplayState(s, ev) \in State /\ Shape(ReplayState(s, ev))
  <1>1. CASE ev.phase = "Prepared"
    BY <1>1, NoneAssumption, ZenonT(40) DEF ReplayState, PreparedState, Absent, State, Event, Shape, Phase,
       BeforeAcceptance, Working, Sealed, Terminal, validate_replayed_event, NoTime
  <1>2. CASE ev.phase # "Prepared"
    <2> DEFINE r == ReplayState(s, ev)
    <2>1. r \in State
      BY <1>2 DEF ReplayState, State, Event, Phase, NoTime
    <2>2. r.phase = ev.phase /\ r.worker = ev.worker /\ r.result = ev.result /\ r.token = ev.token
      BY <1>2 DEF ReplayState, State
    <2>3. ev.phase # "Absent"
      BY DEF Event, Phase, Terminal
    <2> QED BY <2>1, <2>2, <2>3 DEF Shape, validate_replayed_event
  <1> QED BY <1>1, <1>2

\* replay maps a well-formed journal to a well-formed journal.
LEMMA ReplayType ==
    ASSUME NEW j \in Journal, WellFormed(j), NEW ev \in Event
    PROVE  replay(j, ev) \in Journal /\ WellFormed(replay(j, ev))
  <1>1. CASE ~Replayable(j, ev)
    BY <1>1, ConstantJournals DEF replay
  <1>2. CASE Replayable(j, ev)
    <2> DEFINE s == j.states[ev.task]
               r == ReplayState(s, ev)
               n == IF ev.phase = "Prepared" THEN ev.token ELSE j.next
    <2>1. ev.task \in Tasks /\ s \in State
      BY DEF Journal, Event
    <2>2. r \in State /\ Shape(r)
      BY <1>2, <2>1, ReplayStateType DEF Replayable, Follows
    <2>3. replay(j, ev) = [ok |-> j.ok, next |-> n, states |-> [j.states EXCEPT ![ev.task] = r]]
      BY <1>2, Zenon DEF replay, Journal
    <2>4. n \in Nat
      BY DEF Journal, Event
    <2>5. [j.states EXCEPT ![ev.task] = r] \in [Tasks -> State]
      BY <2>2, Zenon DEF Journal
    <2>6. replay(j, ev) \in Journal
      BY <2>3, <2>4, <2>5 DEF Journal
    <2>7. \A t \in Tasks : Shape([j.states EXCEPT ![ev.task] = r][t])
      BY <1>2, <2>2, Zenon DEF Journal, WellFormed, Replayable
    <2> QED BY <2>3, <2>6, <2>7 DEF WellFormed
  <1> QED BY <1>1, <1>2

\* The record of a transition: what a state looks like after it, given the
\* state before it, whatever the heartbeat.
Carries(s, after, at) ==
    /\ after.token = s.token
    /\ IF after.phase = "Accepted" THEN after.worker \in Workers ELSE after.worker = s.worker
    /\ IF after.phase = "ResultSealed" THEN after.result \in Results ELSE after.result = s.result
    /\ after.offered_at = IF after.phase = "Offered" THEN at ELSE s.offered_at
    /\ after.persisted = IF after.phase \in {"Published", "Renewed"} THEN at ELSE s.persisted
    /\ after.terminal_at = IF after.phase \in Terminal THEN at ELSE s.terminal_at

RecordOf(t, after, at) ==
    [task |-> t, phase |-> after.phase, token |-> after.token,
     worker |-> after.worker, result |-> after.result, at |-> at]

\* Two states that differ in their heartbeat only, field by field.
LEMMA SameFields ==
    ASSUME NEW s \in State, NEW r \in State
    PROVE  SameButHeartbeat(s, r) <=>
             /\ s.phase = r.phase /\ s.token = r.token
             /\ s.worker = r.worker /\ s.result = r.result
             /\ s.offered_at = r.offered_at /\ s.persisted = r.persisted
             /\ s.terminal_at = r.terminal_at
  BY DEF SameButHeartbeat, State

\* What a transition starts from, and what replaying its record gives.
Moves(j, t, s, after, at) ==
    /\ j \in Journal /\ j.ok /\ WellFormed(j) /\ t \in Tasks
    /\ s \in State /\ after \in State /\ at \in Nat
    /\ SameButHeartbeat(s, j.states[t]) /\ s.phase # "Absent"
    /\ after.phase \in Phase \ {"Prepared"}
    /\ valid_transition(s.phase, after.phase) /\ Carries(s, after, at)

Replays(j, t, after, ev) ==
    LET r == replay(j, ev) IN
      /\ ev \in Event /\ Replayable(j, ev) /\ r.ok /\ r.next = j.next
      /\ r.states[t] = ReplayState(j.states[t], ev)
      /\ SameButHeartbeat(after, r.states[t])
      /\ \A u \in Tasks \ {t} : r.states[u] = j.states[u]

\* Replay accepts the record of a valid transition of a delegation whose
\* replayed state is its state in memory, and rebuilds the state after it.
LEMMA MoveReplays ==
    ASSUME NEW j, NEW t, NEW s, NEW after, NEW at, Moves(j, t, s, after, at)
    PROVE  Replays(j, t, after, RecordOf(t, after, at))
  <1>0. /\ j \in Journal /\ j.ok /\ WellFormed(j) /\ t \in Tasks
        /\ s \in State /\ after \in State /\ at \in Nat
        /\ SameButHeartbeat(s, j.states[t]) /\ s.phase # "Absent"
        /\ after.phase \in Phase \ {"Prepared"}
        /\ valid_transition(s.phase, after.phase) /\ Carries(s, after, at)
    BY DEF Moves
  <1> USE <1>0
  <1> DEFINE ev == RecordOf(t, after, at)
             q == j.states[t]
             r == replay(j, ev)
  <1>1. /\ ev \in Event
        /\ ev.task = t /\ ev.phase = after.phase /\ ev.token = after.token
        /\ ev.worker = after.worker /\ ev.result = after.result /\ ev.at = at
    BY DEF RecordOf, Event, State
  <1>2. q \in State
    BY DEF Journal
  <1>3. /\ s.phase = q.phase /\ s.token = q.token
        /\ s.worker = q.worker /\ s.result = q.result
        /\ s.offered_at = q.offered_at /\ s.persisted = q.persisted
        /\ s.terminal_at = q.terminal_at
    BY <1>2, SameFields
  <1>4. Shape(q)
    BY DEF WellFormed
  <1>5. validate_replayed_event(ev)
    <2>1. ev.token > 0
      BY <1>1, <1>3, <1>4 DEF Shape, Carries
    <2>2. ev.phase \in BeforeAcceptance => ev.worker = None /\ ev.result = None
      BY <1>1, <1>3, <1>4 DEF Shape, Carries, valid_transition, BeforeAcceptance, Terminal, Aborts
    <2>3. ev.phase \in Working => ev.worker # None /\ ev.result = None
      BY <1>1, <1>3, <1>4, NoneAssumption
         DEF Shape, Carries, valid_transition, BeforeAcceptance, Working, Terminal, Aborts
    <2>4. ev.phase \in Sealed => ev.worker # None /\ ev.result # None
      BY <1>1, <1>3, <1>4, NoneAssumption
         DEF Shape, Carries, valid_transition, BeforeAcceptance, Working, Sealed, Terminal, Aborts
    <2> QED BY <2>1, <2>2, <2>3, <2>4 DEF validate_replayed_event
  <1>6. Follows(q, ev)
    <2>1. q.worker = None => ev.phase = "Accepted" \/ ev.worker = None
      BY <1>1, <1>3 DEF Carries
    <2>2. q.worker # None => ev.worker = q.worker
      BY <1>1, <1>3, <1>4 DEF Carries, Shape, valid_transition, BeforeAcceptance, Aborts
    <2>3. q.result = None => ev.phase = "ResultSealed" \/ ev.result = None
      BY <1>1, <1>3 DEF Carries
    <2>4. q.result # None => ev.result = q.result
      BY <1>1, <1>3, <1>4 DEF Carries, Shape, valid_transition, Working, Aborts
    <2> QED BY <1>1, <1>3, <2>1, <2>2, <2>3, <2>4 DEF Follows, Carries
  <1>7. Replayable(j, ev)
    BY <1>1, <1>5, <1>6 DEF Replayable
  <1>8. /\ r.ok /\ r.next = j.next
        /\ r.states = [j.states EXCEPT ![t] = ReplayState(q, ev)]
    BY <1>1, <1>7 DEF replay, Journal
  <1>9. SameButHeartbeat(after, ReplayState(q, ev))
    <2>1. ReplayState(q, ev) \in State
      BY <1>1, <1>2, <1>5, <1>6, ReplayStateType DEF Follows
    <2>2. /\ after.phase = ReplayState(q, ev).phase
          /\ after.token = ReplayState(q, ev).token
          /\ after.worker = ReplayState(q, ev).worker
          /\ after.result = ReplayState(q, ev).result
          /\ after.offered_at = ReplayState(q, ev).offered_at
          /\ after.persisted = ReplayState(q, ev).persisted
          /\ after.terminal_at = ReplayState(q, ev).terminal_at
      BY <1>1, <1>3, ZenonT(40) DEF ReplayState, Carries
    <2> QED BY <2>1, <2>2, SameFields
  <1>10. r.states[t] = ReplayState(q, ev) /\ \A u \in Tasks \ {t} : r.states[u] = j.states[u]
    BY <1>8 DEF Journal
  <1> QED BY <1>1, <1>7, <1>8, <1>9, <1>10 DEF Replays

\* What an accepted record leaves of the journal: only the state of its task
\* changes, and the state follows the one before.
LEMMA ReplayEffect ==
    ASSUME NEW j \in Journal, NEW ev \in Event, replay(j, ev).ok
    PROVE  /\ Replayable(j, ev) /\ ev.task \in Tasks
           /\ replay(j, ev).states[ev.task] = ReplayState(j.states[ev.task], ev)
           /\ \A u \in Tasks \ {ev.task} : replay(j, ev).states[u] = j.states[u]
  <1>1. Replayable(j, ev)
    BY DEF replay, CorruptJournal, EmptyJournal
  <1> QED BY <1>1 DEF replay, Journal, Event

\* replay settles nothing anew.
LEMMA ReplayExtends ==
    ASSUME NEW j \in Journal, WellFormed(j), NEW ev \in Event, replay(j, ev).ok
    PROVE  Extends(j, replay(j, ev))
  <1> DEFINE q == j.states[ev.task]
             r == replay(j, ev).states[ev.task]
  <1>1. /\ Replayable(j, ev) /\ ev.task \in Tasks
        /\ r = ReplayState(q, ev)
        /\ \A u \in Tasks \ {ev.task} : replay(j, ev).states[u] = j.states[u]
    BY ReplayEffect
  <1>2. CASE ev.phase = "Prepared"
    <2>1. q.phase = "Absent"
      BY <1>1, <1>2 DEF Replayable
    <2>2. q.result # None => r.result = q.result
      BY <1>1, <2>1 DEF WellFormed, Shape, Replayable
    <2> QED BY <1>1, <2>1, <2>2 DEF Extends, Terminal
  <1>3. CASE ev.phase # "Prepared"
    <2>1. Follows(q, ev) /\ r.phase = ev.phase /\ r.result = ev.result
      BY <1>1, <1>3 DEF Replayable, ReplayState
    <2>2. r.phase # "Absent" /\ q.phase \notin Terminal
      BY <2>1 DEF Follows, valid_transition, Event, Phase, Terminal
    <2>3. q.result # None => r.result = q.result
      BY <2>1 DEF Follows
    <2> QED BY <1>1, <2>2, <2>3 DEF Extends
  <1> QED BY <1>2, <1>3

\* replay keeps the publications the journal records.
LEMMA ReplayBacks ==
    ASSUME NEW j \in Journal, NEW ev \in Event, replay(j, ev).ok,
           NEW p \in Permit, Backed(p, j)
    PROVE  Backed(p, replay(j, ev))
  <1> DEFINE q == j.states[ev.task]
             r == replay(j, ev).states[ev.task]
  <1>1. /\ Replayable(j, ev) /\ ev.task \in Tasks
        /\ r = ReplayState(q, ev)
        /\ \A u \in Tasks \ {ev.task} : replay(j, ev).states[u] = j.states[u]
    BY ReplayEffect
  <1>2. CASE p.task # ev.task
    BY <1>1, <1>2 DEF Backed, Permit
  <1>3. CASE p.task = ev.task
    <2>1. ev.phase # "Prepared"
      BY <1>1, <1>3 DEF Replayable, Backed, AfterPublication, Sealed, Aborts
    <2>2. Follows(q, ev) /\ r.phase = ev.phase /\ r.token = q.token /\ r.worker = ev.worker
      BY <1>1, <2>1 DEF Replayable, ReplayState
    <2>3. r.worker # None /\ r.token = p.fence
      BY <1>3, <2>2 DEF Follows, Backed
    <2>4. r.phase \in AfterPublication \cup {"ResultApplied"}
      BY <1>3, <2>2 DEF Follows, Backed, valid_transition, AfterPublication, Sealed, Aborts
    <2> QED BY <1>3, <2>3, <2>4 DEF Backed
  <1> QED BY <1>2, <1>3

\* The only record a resolved journal accepts prepares a delegation.
LEMMA ResolvedPrepares ==
    ASSUME NEW j \in Journal, NEW ev \in Event, replay(j, ev).ok, ~Unresolved(j)
    PROVE  Unresolved(replay(j, ev))
  <1>1. /\ Replayable(j, ev) /\ ev.task \in Tasks
        /\ replay(j, ev).states[ev.task] = ReplayState(j.states[ev.task], ev)
    BY ReplayEffect
  <1>2. ev.phase = "Prepared"
    BY <1>1 DEF Replayable, Follows, valid_transition, Unresolved
  <1>3. ReplayState(j.states[ev.task], ev).phase = "Prepared"
    BY <1>2 DEF ReplayState, PreparedState, Absent
  <1> QED BY <1>1, <1>3 DEF Unresolved, Terminal

--------------------------------------------------------------------------------
(* The file.                                                                 *)

\* An acknowledged append leaves a file that reads back as the new journal, or
\* that does not read back at all.
LEMMA AcknowledgedFile ==
    ASSUME NEW r \in Journal, r.ok, WellFormed(r)
    PROVE  FileInv(r, {r}) /\ CleanInv(r, {r}) /\ FileInv(r, {CorruptJournal})
  <1>1. ~CorruptJournal.ok
    BY DEF CorruptJournal, EmptyJournal
  <1>2. FileInv(r, {CorruptJournal})
    BY <1>1, ConstantJournals DEF FileInv, Resolved
  <1>3. Extends(r, r)
    BY DEF Extends
  <1> QED BY <1>2, <1>3 DEF FileInv, CleanInv

\* A failed append adds at most the journal with its record, and only while
\* the file holds nothing else that was not acknowledged.
LEMMA FailedFile ==
    ASSUME NEW j, NEW D, FileInv(j, D), NEW ev \in Event
    PROVE  /\ FileInv(j, D \cup {CorruptJournal})
           /\ CleanInv(j, D) => FileInv(j, D \cup {replay(j, ev)})
  <1> DEFINE r == replay(j, ev)
             E == D \cup {r}
  <1>1. /\ j \in Journal /\ j.ok /\ WellFormed(j)
        /\ D \subseteq Journal /\ \A d \in D : WellFormed(d)
        /\ \A d, e \in D \cup {j} : Resolved(d) /\ Resolved(e) => d = e
        /\ Unresolved(j) => \A d \in D : d.ok => Extends(j, d)
    BY DEF FileInv
  <1>2. FileInv(j, D \cup {CorruptJournal})
    <2>1. ~CorruptJournal.ok
      BY DEF CorruptJournal, EmptyJournal
    <2> QED BY <1>1, <2>1, ConstantJournals DEF FileInv, Resolved
  <1>3. ASSUME CleanInv(j, D) PROVE FileInv(j, E)
    <2>1. r \in Journal /\ WellFormed(r)
      BY <1>1, ReplayType
    <2>2. r.ok => Extends(j, r)
      BY <1>1, ReplayExtends
    <2>3. \A d \in D \cup {j} : Resolved(d) /\ Resolved(r) => d = r
      <3>1. CASE Unresolved(j)
        BY <1>3, <3>1 DEF Resolved, CleanInv
      <3>2. CASE ~Unresolved(j)
        BY <1>1, <3>2, ResolvedPrepares DEF Resolved
      <3> QED BY <3>1, <3>2
    <2>4. \A d, e \in E \cup {j} : Resolved(d) /\ Resolved(e) => d = e
      BY <1>1, <2>3
    <2>5. E \subseteq Journal /\ \A d \in E : WellFormed(d)
      BY <1>1, <2>1
    <2>6. Unresolved(j) => \A d \in E : d.ok => Extends(j, d)
      BY <1>1, <2>2
    <2> HIDE DEF E
    <2> QED BY <1>1, <2>4, <2>5, <2>6 DEF FileInv
  <1> QED BY <1>2, <1>3

\* The permits survive what an append leaves in the file.
LEMMA FailedPermits ==
    ASSUME NEW j \in Journal, NEW D, NEW ev \in Event, NEW P \in SUBSET Permit, PermitInv(P, j, D)
    PROVE  /\ PermitInv(P, j, D \cup {CorruptJournal})
           /\ PermitInv(P, j, D \cup {replay(j, ev)})
  <1>1. ~CorruptJournal.ok
    BY DEF CorruptJournal, EmptyJournal
  <1>2. \A p \in P : replay(j, ev).ok => Backed(p, replay(j, ev))
    BY ReplayBacks DEF PermitInv
  <1> QED BY <1>1, <1>2 DEF PermitInv

\* The permits are backed by a file that was just acknowledged.
LEMMA AcknowledgedPermits ==
    ASSUME NEW r, NEW P, \A p \in P : Backed(p, r),
           \A p, q \in P : p.task = q.task => p = q
    PROVE  PermitInv(P, r, {r}) /\ PermitInv(P, r, {CorruptJournal})
  BY DEF PermitInv, CorruptJournal, EmptyJournal

--------------------------------------------------------------------------------
(* Steps.                                                                    *)

\* What a step leaves of the acknowledged journal.
Settles ==
    \/ Extends(journal, journal')
    \/ journal' = EmptyJournal /\ ~Unresolved(journal)

\* An append that fails, whatever its record, leaves journal and permits valid.
LEMMA FailedAppendStep ==
    ASSUME NEW j, NEW D, FileInv(j, D), ~dirty => CleanInv(j, D), dirty \in BOOLEAN,
           NEW ev \in Event, permits \in SUBSET Permit, PermitInv(permits, j, D),
           FailedAppend(replay(j, ev), D)
    PROVE  /\ FileInv(j, disk') /\ dirty' \in BOOLEAN
           /\ ~dirty' => CleanInv(j, disk')
           /\ PermitInv(permits, j, disk')
  <1> DEFINE r == replay(j, ev)
  <1>1. \/ disk' = D /\ (dirty' = dirty \/ dirty' = TRUE)
        \/ dirty' = TRUE /\ disk' = D \cup {CorruptJournal}
        \/ ~dirty /\ dirty' = TRUE /\ disk' = D \cup {r}
    BY DEF FailedAppend
  <1>2. /\ FileInv(j, D \cup {CorruptJournal})
        /\ ~dirty => FileInv(j, D \cup {r})
    BY FailedFile
  <1>3. /\ PermitInv(permits, j, D \cup {CorruptJournal})
        /\ PermitInv(permits, j, D \cup {r})
    BY FailedPermits DEF FileInv
  <1> QED BY <1>1, <1>2, <1>3, Zenon

\* An operation that writes the record of a valid transition keeps memory and
\* journal together, whether the append succeeds or fails.
LEMMA TransitionStep ==
    ASSUME IInv, mode = "open", NEW k \in Token, NEW after \in State, NEW failed \in State,
           SameButHeartbeat(failed, states[k.task]),
           after.phase \in Phase \ {"Prepared"}, Carries(states[k.task], after, now),
           transition(k, after, failed)
    PROVE  /\ states' \in [Tasks -> State]
           /\ LiveMatchesReplay'
           /\ FileInv(journal', disk')
           /\ dirty' \in BOOLEAN /\ (~dirty' => CleanInv(journal', disk'))
           /\ PermitInv(permits, journal', disk')
           /\ Settles
           /\ \/ /\ states'[k.task] = after
                 /\ SameButHeartbeat(after, journal'.states[k.task])
                 /\ disk' = IF dirty THEN {CorruptJournal} ELSE {journal'}
              \/ states'[k.task] = failed
  <1> DEFINE t == k.task
             s == states[t]
             ev == RecordOf(t, after, now)
             r == replay(journal, ev)
  <1>0. /\ t \in Tasks /\ s \in State /\ now \in Nat /\ journal \in Journal /\ journal.ok
        /\ WellFormed(journal) /\ states \in [Tasks -> State] /\ dirty \in BOOLEAN
        /\ permits \in SUBSET Permit /\ next = journal.next
        /\ \A u \in Tasks : SameButHeartbeat(states[u], journal.states[u])
    BY TimeAssumption DEF IInv, TypeOK, Token, FileInv, LiveMatchesReplay, SameButHeartbeat, Times
  <1>1. /\ s.phase # "Absent" /\ valid_transition(s.phase, after.phase)
        /\ mode' = mode /\ next' = next
        /\ append(ev, [states EXCEPT ![t] = after], [states EXCEPT ![t] = failed])
    BY DEF transition, Known, RecordOf, Carries
  <1>2. /\ ev \in Event /\ r.ok /\ r.next = journal.next
        /\ SameButHeartbeat(after, r.states[t])
        /\ \A u \in Tasks \ {t} : r.states[u] = journal.states[u]
    <2>1. Moves(journal, t, s, after, now)
      BY <1>0, <1>1 DEF Moves
    <2>2. Replays(journal, t, after, ev)
      BY <2>1, MoveReplays
    <2> QED BY <2>2 DEF Replays
  <1>3. r \in Journal /\ WellFormed(r) /\ Extends(journal, r)
    BY <1>0, <1>2, ReplayType, ReplayExtends
  <1>4. \A p \in permits : Backed(p, r)
    BY <1>0, <1>2, ReplayBacks DEF IInv, PermitInv
  <1>5. CASE Acknowledged(r) /\ states' = [states EXCEPT ![t] = after]
    <2>1. journal' = r /\ disk' = (IF dirty THEN {CorruptJournal} ELSE {r}) /\ dirty' = dirty
      BY <1>5 DEF Acknowledged
    <2>2. FileInv(journal', disk') /\ (~dirty' => CleanInv(journal', disk'))
      BY <1>0, <1>2, <1>3, <2>1, AcknowledgedFile, Zenon
    <2>3. PermitInv(permits, journal', disk')
      <3>1. \A p, q \in permits : p.task = q.task => p = q
        BY DEF IInv, PermitInv
      <3> QED BY <1>4, <2>1, <3>1, AcknowledgedPermits
    <2>4. states' \in [Tasks -> State] /\ states'[t] = after
      BY <1>0, <1>5
    <2>5. \A u \in Tasks : SameButHeartbeat(states'[u], journal'.states[u])
      BY <1>0, <1>2, <1>5, <2>1
    <2>6. LiveMatchesReplay'
      BY <1>0, <1>1, <1>2, <2>1, <2>5, Zenon DEF LiveMatchesReplay, SameButHeartbeat
    <2> QED BY <1>0, <1>2, <1>3, <2>1, <2>2, <2>3, <2>4, <2>6 DEF Settles
  <1>6. CASE FailedAppend(r, disk) /\ states' = [states EXCEPT ![t] = failed] /\ journal' = journal
    <2>1. /\ FileInv(journal, disk) /\ (~dirty => CleanInv(journal, disk))
          /\ PermitInv(permits, journal, disk)
      BY DEF IInv
    <2>2. /\ FileInv(journal, disk') /\ dirty' \in BOOLEAN
          /\ ~dirty' => CleanInv(journal, disk')
          /\ PermitInv(permits, journal, disk')
      BY <1>0, <1>2, <1>6, <2>1, FailedAppendStep
    <2>4. states' \in [Tasks -> State] /\ states'[t] = failed
      BY <1>0, <1>6
    <2>5. \A u \in Tasks : SameButHeartbeat(states'[u], journal'.states[u])
      <3>1. SameButHeartbeat(failed, journal.states[t])
        <4>1. journal.states[t] \in State
          BY <1>0 DEF Journal
        <4> QED BY <1>0, <4>1, SameFields
      <3> QED BY <1>0, <1>6, <3>1
    <2>6. LiveMatchesReplay'
      BY <1>0, <1>1, <1>6, <2>5 DEF LiveMatchesReplay, SameButHeartbeat
    <2> QED BY <1>6, <2>2, <2>4, <2>6 DEF Settles, Extends
  <1> QED BY <1>1, <1>5, <1>6 DEF append

\* The same for an operation that issues no permit.
LEMMA TransitionKeeps ==
    ASSUME IInv, mode = "open", NEW k \in tokens, NEW after \in State, NEW failed \in State,
           SameButHeartbeat(failed, states[k.task]),
           after.phase \in Phase \ {"Prepared"}, Carries(states[k.task], after, now),
           transition(k, after, failed), permits' = permits
    PROVE  IInv' /\ Settles /\ mode' = mode
  <1>1. k \in Token
    BY DEF IInv, TypeOK
  <1>2. /\ states' \in [Tasks -> State] /\ LiveMatchesReplay' /\ FileInv(journal', disk')
        /\ dirty' \in BOOLEAN /\ (~dirty' => CleanInv(journal', disk'))
        /\ PermitInv(permits, journal', disk') /\ Settles
    BY <1>1, TransitionStep
  <1>3. mode' = mode /\ now' = now /\ next' = next /\ tokens' = tokens
    BY DEF transition
  <1>4. TypeOK'
    BY <1>2, <1>3 DEF IInv, TypeOK, FileInv
  <1> QED BY <1>2, <1>3, <1>4 DEF IInv

\* The states the operations leave.
LEMMA MovedFields ==
    ASSUME NEW s \in State, NEW to \in Phase, now \in Nat
    PROVE  /\ Moved(s, to) \in State
           /\ Moved(s, to).phase = to /\ Moved(s, to).token = s.token
           /\ Moved(s, to).worker = s.worker /\ Moved(s, to).result = s.result
           /\ Moved(s, to).offered_at = s.offered_at /\ Moved(s, to).persisted = s.persisted
           /\ Moved(s, to).terminal_at = IF to \in Terminal THEN now ELSE s.terminal_at
  BY Zenon DEF Moved, State

\* A state a step other than the preparation may leave of s.
Proper(s, after) ==
    after \in State /\ after.phase \in Phase \ {"Prepared"} /\ Carries(s, after, now)

\* Those states carry what the record of the step says of them.
LEMMA HolderStates ==
    ASSUME NEW s \in State, now \in Nat
    PROVE  /\ Proper(s, [Moved(s, "Offered") EXCEPT !.offered_at = now])
           /\ \A w \in Workers : Proper(s, [Moved(s, "Accepted") EXCEPT !.worker = w])
           /\ Proper(s, [Moved(s, "Running") EXCEPT !.heartbeat = now])
           /\ \A r \in Results : Proper(s, [Moved(s, "ResultSealed") EXCEPT !.result = r])
           /\ \A to \in {"ResultApplied"} \cup Terminal : Proper(s, Moved(s, to))
  <1>1. Proper(s, [Moved(s, "Offered") EXCEPT !.offered_at = now])
    <2> DEFINE m == Moved(s, "Offered")
               after == [m EXCEPT !.offered_at = now]
    <2>1. /\ m \in State /\ m.phase = "Offered" /\ m.token = s.token
          /\ m.worker = s.worker /\ m.result = s.result /\ m.offered_at = s.offered_at
          /\ m.persisted = s.persisted /\ m.terminal_at = s.terminal_at
      BY MovedFields DEF Phase, Terminal
    <2> HIDE DEF m
    <2>2. /\ after \in State
          /\ after.phase = m.phase /\ after.token = m.token /\ after.worker = m.worker /\ after.result = m.result
          /\ after.offered_at = now /\ after.persisted = m.persisted /\ after.terminal_at = m.terminal_at
      BY <2>1 DEF State
    <2> HIDE DEF after
    <2>3. Proper(s, after)
      BY <2>1, <2>2 DEF Proper, Carries, Phase, Terminal
    <2> QED BY <2>3 DEF after, m
  <1>2. ASSUME NEW w \in Workers PROVE Proper(s, [Moved(s, "Accepted") EXCEPT !.worker = w])
    <2> DEFINE m == Moved(s, "Accepted")
               after == [m EXCEPT !.worker = w]
    <2>1. /\ m \in State /\ m.phase = "Accepted" /\ m.token = s.token
          /\ m.worker = s.worker /\ m.result = s.result /\ m.offered_at = s.offered_at
          /\ m.persisted = s.persisted /\ m.terminal_at = s.terminal_at
      BY MovedFields DEF Phase, Terminal
    <2> HIDE DEF m
    <2>2. /\ after \in State
          /\ after.phase = m.phase /\ after.token = m.token /\ after.worker = w /\ after.result = m.result
          /\ after.offered_at = m.offered_at /\ after.persisted = m.persisted /\ after.terminal_at = m.terminal_at
      BY <2>1 DEF State
    <2> HIDE DEF after
    <2>3. Proper(s, after)
      BY <2>1, <2>2 DEF Proper, Carries, Phase, Terminal
    <2> QED BY <2>3 DEF after, m
  <1>3. Proper(s, [Moved(s, "Running") EXCEPT !.heartbeat = now])
    <2> DEFINE m == Moved(s, "Running")
               after == [m EXCEPT !.heartbeat = now]
    <2>1. /\ m \in State /\ m.phase = "Running" /\ m.token = s.token
          /\ m.worker = s.worker /\ m.result = s.result /\ m.offered_at = s.offered_at
          /\ m.persisted = s.persisted /\ m.terminal_at = s.terminal_at
      BY MovedFields DEF Phase, Terminal
    <2> HIDE DEF m
    <2>2. /\ after \in State
          /\ after.phase = m.phase /\ after.token = m.token /\ after.worker = m.worker /\ after.result = m.result
          /\ after.offered_at = m.offered_at /\ after.persisted = m.persisted /\ after.terminal_at = m.terminal_at
      BY <2>1 DEF State
    <2> HIDE DEF after
    <2>3. Proper(s, after)
      BY <2>1, <2>2 DEF Proper, Carries, Phase, Terminal
    <2> QED BY <2>3 DEF after, m
  <1>4. ASSUME NEW r \in Results PROVE Proper(s, [Moved(s, "ResultSealed") EXCEPT !.result = r])
    <2> DEFINE m == Moved(s, "ResultSealed")
               after == [m EXCEPT !.result = r]
    <2>1. /\ m \in State /\ m.phase = "ResultSealed" /\ m.token = s.token
          /\ m.worker = s.worker /\ m.result = s.result /\ m.offered_at = s.offered_at
          /\ m.persisted = s.persisted /\ m.terminal_at = s.terminal_at
      BY MovedFields DEF Phase, Terminal
    <2> HIDE DEF m
    <2>2. /\ after \in State
          /\ after.phase = m.phase /\ after.token = m.token /\ after.worker = m.worker /\ after.result = r
          /\ after.offered_at = m.offered_at /\ after.persisted = m.persisted /\ after.terminal_at = m.terminal_at
      BY <2>1 DEF State
    <2> HIDE DEF after
    <2>3. Proper(s, after)
      BY <2>1, <2>2 DEF Proper, Carries, Phase, Terminal
    <2> QED BY <2>3 DEF after, m
  <1>5. ASSUME NEW to \in {"ResultApplied"} \cup Terminal PROVE Proper(s, Moved(s, to))
    <2> DEFINE m == Moved(s, to)
    <2>1. to \in Phase \ {"Prepared", "Offered", "Accepted", "Published", "Renewed", "ResultSealed"}
      BY DEF Phase, Terminal
    <2>2. /\ m \in State /\ m.phase = to /\ m.token = s.token
          /\ m.worker = s.worker /\ m.result = s.result /\ m.offered_at = s.offered_at
          /\ m.persisted = s.persisted
          /\ m.terminal_at = IF to \in Terminal THEN now ELSE s.terminal_at
      BY <2>1, MovedFields
    <2> HIDE DEF m
    <2>3. Proper(s, m)
      BY <2>1, <2>2 DEF Proper, Carries
    <2> QED BY <2>3 DEF m
  <1> QED BY <1>1, <1>2, <1>3, <1>4, <1>5

\* What an operation of an open authority starts from.
LEMMA OpenFacts ==
    ASSUME IInv, mode = "open"
    PROVE  /\ now \in Nat /\ journal \in Journal /\ permits \in SUBSET Permit /\ dirty \in BOOLEAN
           /\ states \in [Tasks -> State] /\ next = journal.next
           /\ \A u \in Tasks : /\ states[u] \in State /\ journal.states[u] \in State
                               /\ SameButHeartbeat(states[u], journal.states[u])
           /\ \A k \in tokens : k \in Token /\ k.task \in Tasks /\ k.fence \in Nat
  <1>1. /\ now \in Times /\ journal \in Journal /\ permits \in SUBSET Permit /\ dirty \in BOOLEAN
        /\ states \in [Tasks -> State] /\ tokens \subseteq Token
    BY DEF IInv, TypeOK
  <1>2. now \in Nat
    BY <1>1, TimeAssumption DEF Times
  <1>3. \A u \in Tasks : states[u] \in State /\ journal.states[u] \in State
    BY <1>1 DEF Journal
  <1>4. next = journal.next /\ \A u \in Tasks : SameButHeartbeat(states[u], journal.states[u])
    BY DEF IInv, LiveMatchesReplay, SameButHeartbeat
  <1>5. \A k \in Token : k.task \in Tasks /\ k.fence \in Nat
    BY DEF Token
  <1> QED BY <1>1, <1>2, <1>3, <1>4, <1>5

\* The operations of a token's holder, publication apart.
LEMMA HolderStep ==
    ASSUME IInv, mode = "open", NEW k \in tokens,
           \/ offered(k)
           \/ \E w \in Workers : accepted(k, w)
           \/ running(k)
           \/ \E r \in Results : result_sealed(k, r)
           \/ result_applied(k)
           \/ complete(k)
           \/ abort(k)
    PROVE  IInv' /\ Settles /\ mode' = mode
  <1> DEFINE s == states[k.task]
  <1>0. s \in State /\ now \in Nat /\ SameButHeartbeat(s, s)
    BY OpenFacts, SameFields
  <1>1. CASE offered(k)
    <2> DEFINE after == [Moved(s, "Offered") EXCEPT !.offered_at = now]
    <2>1. after \in State /\ after.phase \in Phase \ {"Prepared"} /\ Carries(s, after, now)
      BY <1>0, HolderStates, Zenon DEF Proper
    <2> QED BY <1>0, <1>1, <2>1, TransitionKeeps, Zenon DEF offered
  <1>2. ASSUME NEW w \in Workers, accepted(k, w) PROVE IInv' /\ Settles /\ mode' = mode
    <2> DEFINE after == [Moved(s, "Accepted") EXCEPT !.worker = w]
    <2>1. after \in State /\ after.phase \in Phase \ {"Prepared"} /\ Carries(s, after, now)
      BY <1>0, HolderStates, Zenon DEF Proper
    <2> QED BY <1>0, <1>2, <2>1, TransitionKeeps, Zenon DEF accepted
  <1>3. CASE running(k)
    <2> DEFINE after == [Moved(s, "Running") EXCEPT !.heartbeat = now]
    <2>1. after \in State /\ after.phase \in Phase \ {"Prepared"} /\ Carries(s, after, now)
      BY <1>0, HolderStates, Zenon DEF Proper
    <2> QED BY <1>0, <1>3, <2>1, TransitionKeeps, Zenon DEF running
  <1>4. ASSUME NEW r \in Results, result_sealed(k, r) PROVE IInv' /\ Settles /\ mode' = mode
    <2> DEFINE after == [Moved(s, "ResultSealed") EXCEPT !.result = r]
    <2>1. after \in State /\ after.phase \in Phase \ {"Prepared"} /\ Carries(s, after, now)
      BY <1>0, HolderStates, Zenon DEF Proper
    <2> QED BY <1>0, <1>4, <2>1, TransitionKeeps, Zenon DEF result_sealed
  <1>5. ASSUME NEW to \in {"ResultApplied", "Completed", "FailedClosed", "Revoked", "Cancelled"},
               move(k, to)
        PROVE  IInv' /\ Settles /\ mode' = mode
    <2> DEFINE after == Moved(s, to)
    <2>1. after \in State /\ after.phase \in Phase \ {"Prepared"} /\ Carries(s, after, now)
      BY <1>0, HolderStates, Zenon DEF Proper, Terminal
    <2> QED BY <1>0, <1>5, <2>1, TransitionKeeps, Zenon DEF move
  <1> QED BY <1>1, <1>2, <1>3, <1>4, <1>5 DEF result_applied, complete, abort

\* publish: a delegation in Accepted has no permit yet, and the permit is
\* issued when its record has been acknowledged.
LEMMA PublishStep ==
    ASSUME IInv, mode = "open", NEW k \in tokens, publish(k)
    PROVE  IInv' /\ Settles /\ mode' = mode
  <1> DEFINE t == k.task
             s == states[t]
             after == [Moved(s, "Published") EXCEPT !.heartbeat = now, !.persisted = now]
             p == [task |-> t, fence |-> k.fence, expires |-> now + ActiveLeaseExpiry]
  <1>0. /\ s \in State /\ now \in Nat /\ SameButHeartbeat(s, s) /\ k \in Token /\ t \in Tasks
        /\ k.fence \in Nat /\ journal.states[t] \in State /\ SameButHeartbeat(s, journal.states[t])
        /\ permits \subseteq Permit
    <2>1. SameButHeartbeat(s, s)
      BY OpenFacts, SameFields
    <2> QED BY <2>1, OpenFacts
  <1>1. /\ after \in State /\ after.phase = "Published" /\ after.phase \in Phase \ {"Prepared"}
        /\ Carries(s, after, now)
    <2> DEFINE m == Moved(s, "Published")
    <2>1. /\ m \in State /\ m.phase = "Published" /\ m.token = s.token
          /\ m.worker = s.worker /\ m.result = s.result
          /\ m.offered_at = s.offered_at /\ m.terminal_at = s.terminal_at
      BY <1>0, MovedFields DEF Phase, Terminal
    <2> HIDE DEF m
    <2>2. /\ after \in State /\ after.phase = m.phase /\ after.token = m.token
          /\ after.worker = m.worker /\ after.result = m.result
          /\ after.offered_at = m.offered_at /\ after.terminal_at = m.terminal_at
          /\ after.persisted = now
      BY <1>0, <2>1, Zenon DEF State, m
    <2> HIDE DEF after
    <2> QED BY <2>1, <2>2 DEF Carries, Phase, Terminal
  <1>2. transition(k, after, s)
    BY DEF publish
  <1>3. /\ states' \in [Tasks -> State] /\ LiveMatchesReplay' /\ FileInv(journal', disk')
        /\ dirty' \in BOOLEAN /\ (~dirty' => CleanInv(journal', disk'))
        /\ PermitInv(permits, journal', disk') /\ Settles
        /\ \/ /\ states'[t] = after
              /\ SameButHeartbeat(after, journal'.states[t])
              /\ disk' = IF dirty THEN {CorruptJournal} ELSE {journal'}
           \/ states'[t] = s
    BY <1>0, <1>1, <1>2, TransitionStep, Zenon
  <1>4. /\ mode' = mode /\ now' = now /\ next' = next /\ tokens' = tokens
        /\ s.phase = "Accepted" /\ s.token = k.fence
    BY <1>1, <1>2 DEF transition, Known, valid_transition, Aborts
  <1>5. permits' \subseteq Permit
    BY <1>0, TimeAssumption DEF publish, Permit
  <1>6. TypeOK'
    BY <1>3, <1>4, <1>5 DEF IInv, TypeOK, FileInv
  <1>7. PermitInv(permits', journal', disk')
    <2>1. CASE permits' = permits
      BY <1>3, <2>1
    <2>2. CASE permits' # permits
      <3>1. permits' = permits \cup {p} /\ states'[t].phase = "Published"
        BY <2>2 DEF publish
      <3>2. /\ SameButHeartbeat(after, journal'.states[t])
            /\ disk' = IF dirty THEN {CorruptJournal} ELSE {journal'}
        BY <1>3, <1>4, <3>1
      <3>3. \A q \in permits : q.task # t
        <4>1. journal.states[t].phase = "Accepted"
          BY <1>0, <1>4, SameFields
        <4> QED BY <4>1 DEF IInv, PermitInv, Backed, AfterPublication, Sealed, Aborts
      <3>4. Backed(p, journal')
        <4>1. journal'.states[t] \in State /\ Shape(journal'.states[t])
          BY <1>0, <1>3 DEF FileInv, Journal, WellFormed
        <4>2. journal'.states[t].phase = "Published" /\ journal'.states[t].token = k.fence
          BY <1>1, <1>4, <3>2, <4>1, SameFields, Zenon DEF Carries
        <4> QED BY <4>1, <4>2 DEF Backed, Shape, Working, AfterPublication
      <3>5. \A q \in permits' : Backed(q, journal')
        BY <1>3, <3>1, <3>4 DEF PermitInv
      <3>6. \A q, r \in permits' : q.task = r.task => q = r
        BY <1>3, <3>1, <3>3 DEF PermitInv
      <3>7. /\ PermitInv(permits', journal', {journal'})
            /\ PermitInv(permits', journal', {CorruptJournal})
        BY <3>5, <3>6, AcknowledgedPermits
      <3> QED BY <3>2, <3>7
    <2> QED BY <2>1, <2>2
  <1> QED BY <1>3, <1>4, <1>6, <1>7 DEF IInv

\* heartbeat: a beat that is only noted changes the heartbeat in memory.
LEMMA HeartbeatStep ==
    ASSUME IInv, mode = "open", NEW k \in tokens, heartbeat(k)
    PROVE  IInv' /\ Settles /\ mode' = mode
  <1> DEFINE t == k.task
             s == states[t]
             beaten == [s EXCEPT !.heartbeat = now]
             after == [Moved(beaten, "Renewed") EXCEPT !.persisted = now]
  <1>0. /\ s \in State /\ now \in Nat /\ t \in Tasks
        /\ states \in [Tasks -> State] /\ journal \in Journal
        /\ \A u \in Tasks : SameButHeartbeat(states[u], journal.states[u])
    BY OpenFacts
  <1>1. beaten \in State /\ SameButHeartbeat(beaten, s)
    BY <1>0 DEF State, SameButHeartbeat
  <1>2. CASE transition(k, after, beaten) /\ permits' = permits
    <2>1. after \in State /\ after.phase \in Phase \ {"Prepared"} /\ Carries(beaten, after, now)
      <3> DEFINE m == Moved(beaten, "Renewed")
      <3> HIDE DEF beaten
      <3>1. /\ m \in State /\ m.phase = "Renewed" /\ m.token = beaten.token
            /\ m.worker = beaten.worker /\ m.result = beaten.result
            /\ m.offered_at = beaten.offered_at /\ m.terminal_at = beaten.terminal_at
        BY <1>0, <1>1, MovedFields DEF Phase, Terminal
      <3> HIDE DEF m
      <3>2. /\ after \in State /\ after.phase = m.phase /\ after.token = m.token
            /\ after.worker = m.worker /\ after.result = m.result
            /\ after.offered_at = m.offered_at /\ after.terminal_at = m.terminal_at
            /\ after.persisted = now
        BY <1>0, <3>1 DEF State, m
      <3> HIDE DEF after
      <3> QED BY <3>1, <3>2 DEF Carries, Phase, Terminal
    <2>2. Carries(s, after, now)
      BY <1>0, <1>1, <2>1, SameFields DEF Carries
    <2> QED BY <1>1, <1>2, <2>1, <2>2, TransitionKeeps, Zenon
  <1>3. CASE /\ states' = [states EXCEPT ![t] = beaten]
             /\ UNCHANGED <<mode, now, next, tokens, permits, file>>
    <2>1. states' \in [Tasks -> State]
      BY <1>0, <1>1, <1>3
    <2>2. \A u \in Tasks : SameButHeartbeat(states'[u], journal.states[u])
      <3>1. SameButHeartbeat(beaten, journal.states[t])
        <4>1. journal.states[t] \in State
          BY <1>0 DEF Journal
        <4> QED BY <1>0, <1>1, <4>1, SameFields
      <3> QED BY <1>0, <1>3, <3>1
    <2>3. LiveMatchesReplay'
      BY <1>3, <2>2 DEF IInv, LiveMatchesReplay, SameButHeartbeat, file
    <2>4. TypeOK'
      BY <1>3, <2>1 DEF IInv, TypeOK, file
    <2> QED BY <1>3, <2>3, <2>4 DEF IInv, file, Settles, Extends
  <1> QED BY <1>2, <1>3 DEF heartbeat

\* prepare: the record of a new delegation is always accepted.
LEMMA PrepareStep ==
    ASSUME IInv, mode = "open", NEW t \in Tasks, prepare(t)
    PROVE  IInv' /\ Settles /\ mode' = mode
  <1> DEFINE token == next + 1
             ev == [task |-> t, phase |-> "Prepared", token |-> token,
                    worker |-> None, result |-> None, at |-> now]
             r == replay(journal, ev)
             new == PreparedState(token, now)
  <1>0. /\ now \in Nat /\ journal \in Journal /\ journal.ok /\ WellFormed(journal)
        /\ states \in [Tasks -> State] /\ next \in Nat /\ dirty \in BOOLEAN
        /\ permits \in SUBSET Permit /\ next = journal.next
        /\ \A u \in Tasks : SameButHeartbeat(states[u], journal.states[u])
    BY TimeAssumption DEF IInv, TypeOK, FileInv, LiveMatchesReplay, SameButHeartbeat, Times
  <1>1. states[t].phase = "Absent" /\ mode' = mode /\ now' = now /\ permits' = permits
    BY DEF prepare
  <1>2. /\ ev \in Event /\ ev.task = t /\ ev.phase = "Prepared" /\ ev.token = token /\ ev.at = now
        /\ ev.worker = None /\ ev.result = None
    BY <1>0 DEF Event, Phase
  <1> HIDE DEF ev
  <1>3. Replayable(journal, ev)
    <2>1. journal.states[t].phase = "Absent"
      BY <1>0, <1>1, SameFields DEF Journal
    <2>2. validate_replayed_event(ev)
      BY <1>0, <1>2 DEF validate_replayed_event, BeforeAcceptance, Working, Sealed
    <2> QED BY <1>0, <1>2, <2>1, <2>2 DEF Replayable
  <1>4. r.ok /\ r.next = token /\ r.states = [journal.states EXCEPT ![t] = new]
    BY <1>0, <1>2, <1>3 DEF replay, Journal, ReplayState
  <1>5. r \in Journal /\ WellFormed(r) /\ Extends(journal, r)
    BY <1>0, <1>2, <1>4, ReplayType, ReplayExtends
  <1>6. CASE /\ Acknowledged(r) /\ next' = token
             /\ states' = [states EXCEPT ![t] = new]
             /\ tokens' = tokens \cup {[task |-> t, fence |-> token]}
    <2>1. journal' = r /\ disk' = (IF dirty THEN {CorruptJournal} ELSE {r}) /\ dirty' = dirty
      BY <1>6 DEF Acknowledged
    <2>2. FileInv(journal', disk') /\ (~dirty' => CleanInv(journal', disk'))
      BY <1>4, <1>5, <2>1, AcknowledgedFile
    <2>3. PermitInv(permits, journal', disk')
      <3>1. \A p \in permits : Backed(p, r)
        BY <1>0, <1>2, <1>4, ReplayBacks DEF IInv, PermitInv
      <3>2. \A p, q \in permits : p.task = q.task => p = q
        BY DEF IInv, PermitInv
      <3> QED BY <2>1, <3>1, <3>2, AcknowledgedPermits
    <2>4. new \in State
      BY <1>0, <1>4, <1>5 DEF Journal
    <2>5. SameButHeartbeat(new, new)
      BY <2>4, SameFields
    <2>6. \A u \in Tasks : SameButHeartbeat(states'[u], journal'.states[u])
      BY <1>0, <1>4, <1>6, <2>1, <2>5 DEF Journal
    <2>7. LiveMatchesReplay'
      BY <1>4, <1>6, <2>1, <2>6 DEF LiveMatchesReplay, SameButHeartbeat
    <2>8. TypeOK'
      BY <1>0, <1>1, <1>5, <1>6, <2>1, <2>2, <2>4 DEF IInv, TypeOK, FileInv, Token
    <2> QED BY <1>1, <1>5, <2>1, <2>2, <2>3, <2>7, <2>8 DEF IInv, Settles
  <1>7. CASE FailedAppend(r, disk) /\ UNCHANGED <<journal, next, states, tokens>>
    <2>1. /\ FileInv(journal, disk) /\ (~dirty => CleanInv(journal, disk))
          /\ PermitInv(permits, journal, disk)
      BY DEF IInv
    <2>2. /\ FileInv(journal, disk') /\ dirty' \in BOOLEAN
          /\ ~dirty' => CleanInv(journal, disk')
          /\ PermitInv(permits, journal, disk')
      BY <1>0, <1>2, <1>7, <2>1, FailedAppendStep
    <2>3. TypeOK' /\ LiveMatchesReplay'
      BY <1>1, <1>7, <2>2 DEF IInv, TypeOK, FileInv, LiveMatchesReplay
    <2> QED BY <1>1, <1>7, <2>2, <2>3 DEF IInv, Settles, Extends
  <1> QED BY <1>6, <1>7 DEF prepare, ev

\* expire_stale: replay accepts the expiry of each stale delegation, and as
\* the records are of different tasks their order does not matter.
LEMMA ExpireStep ==
    ASSUME IInv, mode = "open", expire_stale
    PROVE  IInv' /\ Settles /\ mode' = mode
  <1> DEFINE J == journal
             R(t) == replay(J, ExpiryRecord(t))
             after(t) == Moved(states[t], "Expired")
  <1>0. /\ now \in Nat /\ J \in Journal /\ J.ok /\ WellFormed(J)
        /\ states \in [Tasks -> State] /\ next = J.next /\ dirty \in BOOLEAN
        /\ permits \in SUBSET Permit /\ Stale \subseteq Tasks
        /\ \A u \in Tasks : SameButHeartbeat(states[u], J.states[u])
    BY OpenFacts, Zenon DEF IInv, FileInv, Stale
  <1>1. ASSUME NEW t \in Stale
        PROVE  /\ after(t) \in State /\ ExpiryRecord(t) \in Event
               /\ Replayable(J, ExpiryRecord(t)) /\ R(t).ok
               /\ R(t).states[t] = ReplayState(J.states[t], ExpiryRecord(t))
               /\ SameButHeartbeat(after(t), R(t).states[t])
    <2>1. states[t] \in State /\ states[t].phase \in {"Published", "Running", "Renewed"}
      BY <1>0 DEF Stale
    <2>2. /\ after(t) \in State /\ after(t).phase = "Expired"
          /\ Carries(states[t], after(t), now)
      BY <1>0, <2>1, HolderStates, MovedFields, ZenonT(40) DEF Proper, Phase, Terminal
    <2>3. ExpiryRecord(t) = RecordOf(t, after(t), now)
      BY <1>0, <2>1, MovedFields DEF ExpiryRecord, RecordOf, Phase, Terminal
    <2>4. valid_transition(states[t].phase, after(t).phase)
      BY <2>1, <2>2 DEF valid_transition, Terminal, Aborts
    <2> HIDE DEF after
    <2>5. /\ t \in Tasks /\ SameButHeartbeat(states[t], J.states[t]) /\ states[t].phase # "Absent"
          /\ after(t).phase \in Phase \ {"Prepared"}
      BY <1>0, <2>1, <2>2 DEF Phase, Terminal
    <2>6. Moves(J, t, states[t], after(t), now)
      BY <1>0, <2>1, <2>2, <2>4, <2>5 DEF Moves
    <2>7. Replays(J, t, after(t), ExpiryRecord(t))
      BY <2>3, <2>6, MoveReplays
    <2> QED BY <2>2, <2>7 DEF Replays
  <1>2. PICK E \in SUBSET Stale :
          LET rest == Stale \ E
              written == ReplayExpiries(E)
              readable == IF E = {} THEN disk ELSE {IF dirty THEN CorruptJournal ELSE written}
          IN  /\ states' = [t \in Tasks |-> IF t \in E THEN after(t) ELSE states[t]]
              /\ IF rest = {}
                 THEN Acknowledged(written)
                 ELSE \E failing \in rest :
                        /\ FailedAppend(replay(written, ExpiryRecord(failing)), readable)
                        /\ journal' = written
              /\ UNCHANGED <<mode, now, next, tokens, permits>>
    BY DEF expire_stale, ExpireMemory
  <1> DEFINE w == ReplayExpiries(E)
             D == IF E = {} THEN disk ELSE {IF dirty THEN CorruptJournal ELSE w}
             F == [t \in Tasks |-> IF t \in E THEN R(t).states[t] ELSE J.states[t]]
  <1>3. w = [ok |-> J.ok, next |-> J.next, states |-> F]
    BY <1>0, <1>1, Zenon DEF ReplayExpiries
  <1>4. ASSUME NEW t \in E
        PROVE  /\ t \in Tasks /\ R(t) \in Journal /\ R(t).states[t] \in State /\ Shape(R(t).states[t])
               /\ Extends(J, R(t)) /\ \A p \in permits : Backed(p, R(t))
    <2>1. t \in Tasks /\ ExpiryRecord(t) \in Event /\ R(t).ok
      BY <1>0, <1>1
    <2>2. R(t) \in Journal /\ WellFormed(R(t)) /\ Extends(J, R(t))
      BY <1>0, <2>1, ReplayType, ReplayExtends
    <2>3. \A p \in permits : Backed(p, R(t))
      BY <1>0, <2>1, ReplayBacks DEF IInv, PermitInv
    <2> QED BY <2>1, <2>2, <2>3 DEF WellFormed, Journal
  <1> HIDE DEF R
  <1>5. /\ w.ok /\ w.next = J.next /\ w \in Journal
        /\ \A t \in Tasks : w.states[t] = IF t \in E THEN R(t).states[t] ELSE J.states[t]
    <2>1. F \in [Tasks -> State]
      BY <1>0, <1>4 DEF Journal
    <2> QED BY <1>0, <1>3, <2>1 DEF Journal
  <1> HIDE DEF w
  <1>6. WellFormed(w)
    BY <1>0, <1>4, <1>5, Zenon DEF WellFormed
  <1>7. Extends(J, w)
    <2>1. ASSUME NEW t \in Tasks, t \in E PROVE w.states[t] = R(t).states[t] /\ Extends(J, R(t))
      BY <1>4, <1>5, <2>1
    <2>2. ASSUME NEW t \in Tasks, t \notin E PROVE w.states[t] = J.states[t]
      BY <1>5, <2>2
    <2> SUFFICES ASSUME NEW t \in Tasks
                 PROVE  /\ J.states[t].phase # "Absent" => w.states[t].phase # "Absent"
                        /\ J.states[t].phase \in Terminal => w.states[t] = J.states[t]
                        /\ J.states[t].result # None => w.states[t].result = J.states[t].result
      BY Zenon DEF Extends
    <2>3. CASE t \in E
      BY <2>1, <2>3 DEF Extends
    <2>4. CASE t \notin E
      BY <2>2, <2>4
    <2> QED BY <2>3, <2>4
  <1>8. \A p \in permits : Backed(p, w)
    <2> SUFFICES ASSUME NEW p \in permits PROVE Backed(p, w)
      OBVIOUS
    <2>1. p.task \in Tasks /\ Backed(p, J)
      BY <1>0 DEF Permit, IInv, PermitInv
    <2>2. CASE p.task \in E
      <3>1. w.states[p.task] = R(p.task).states[p.task] /\ Backed(p, R(p.task))
        BY <1>4, <1>5, <2>1, <2>2
      <3> QED BY <3>1 DEF Backed
    <2>3. CASE p.task \notin E
      <3>1. w.states[p.task] = J.states[p.task]
        BY <1>5, <2>1, <2>3
      <3> QED BY <2>1, <3>1 DEF Backed
    <2> QED BY <2>2, <2>3
  <1>9. E = {} => w = J
    <2>1. E = {} => F = J.states
      BY <1>0 DEF Journal
    <2> QED BY <1>0, <1>3, <2>1 DEF Journal
  <1>10. \A p, q \in permits : p.task = q.task => p = q
    BY DEF IInv, PermitInv
  <1>11. /\ FileInv(w, {w}) /\ CleanInv(w, {w}) /\ FileInv(w, {CorruptJournal})
         /\ PermitInv(permits, w, {w}) /\ PermitInv(permits, w, {CorruptJournal})
    BY <1>5, <1>6, <1>8, <1>10, AcknowledgedFile, AcknowledgedPermits, Zenon
  <1>12. /\ journal' = w /\ FileInv(w, disk') /\ dirty' \in BOOLEAN
         /\ ~dirty' => CleanInv(w, disk')
         /\ PermitInv(permits, w, disk')
    <2>1. CASE Stale \ E = {}
      BY <1>0, <1>2, <1>11, <2>1 DEF Acknowledged, w
    <2>2. CASE Stale \ E # {}
      <3>1. PICK failing \in Stale \ E :
               FailedAppend(replay(w, ExpiryRecord(failing)), D) /\ journal' = w
        BY <1>2, <2>2 DEF w
      <3>2. ExpiryRecord(failing) \in Event
        BY <1>1
      <3>3. FileInv(w, D) /\ (~dirty => CleanInv(w, D)) /\ PermitInv(permits, w, D)
        BY <1>9, <1>11 DEF IInv
      <3> HIDE DEF D
      <3> QED BY <1>0, <3>1, <3>2, <3>3, FailedAppendStep
    <2> QED BY <2>1, <2>2
  <1>13. states' \in [Tasks -> State]
    BY <1>0, <1>1, <1>2, Zenon
  <1>14. \A u \in Tasks : SameButHeartbeat(states'[u], w.states[u])
    BY <1>0, <1>1, <1>2, <1>5, Zenon DEF R
  <1>15. LiveMatchesReplay'
    BY <1>0, <1>2, <1>5, <1>12, <1>14 DEF LiveMatchesReplay, SameButHeartbeat
  <1>16. TypeOK'
    BY <1>2, <1>12, <1>13 DEF IInv, TypeOK, FileInv
  <1> QED BY <1>2, <1>7, <1>12, <1>15, <1>16 DEF IInv, Settles

\* Compaction happens when every delegation has ended; a reset that fails
\* leaves a file that reads back as it did or as empty.
LEMMA CompactStep ==
    ASSUME IInv, mode = "open", compact_expired_terminal_tombstones
    PROVE  IInv' /\ Settles /\ mode' = mode
  <1>0. mode' = mode /\ now' = now /\ tokens' = tokens
    BY DEF compact_expired_terminal_tombstones
  <1>1. ~Unresolved(journal)
    <2>2. \A t \in Tasks : states[t].phase = journal.states[t].phase
      BY OpenFacts, SameFields
    <2> QED BY <2>2 DEF Unresolved, compact_expired_terminal_tombstones, Compactable
  <1>2. CASE /\ journal' = EmptyJournal /\ disk' = {EmptyJournal} /\ dirty' = FALSE
             /\ states' = NoDelegations /\ next' = 0 /\ permits' = {}
    <2>1. EmptyJournal.ok /\ EmptyJournal.next = 0 /\ EmptyJournal.states = NoDelegations
      BY DEF EmptyJournal, NoDelegations
    <2>2. FileInv(EmptyJournal, {EmptyJournal}) /\ CleanInv(EmptyJournal, {EmptyJournal})
      BY <2>1, ConstantJournals, AcknowledgedFile, Zenon
    <2>3. NoDelegations \in [Tasks -> State] /\ \A t \in Tasks : NoDelegations[t] = Absent
      BY ConstantJournals DEF NoDelegations
    <2>4. Absent = [Absent EXCEPT !.heartbeat = Absent.heartbeat]
      BY DEF Absent
    <2>5. LiveMatchesReplay'
      BY <1>2, <2>1, <2>3, <2>4 DEF LiveMatchesReplay
    <2>6. TypeOK'
      BY <1>0, <1>2, <2>3, ConstantJournals, Zenon DEF IInv, TypeOK
    <2>7. PermitInv(permits', journal', disk')
      BY <1>2 DEF PermitInv
    <2> QED BY <1>0, <1>1, <1>2, <2>2, <2>5, <2>6, <2>7 DEF IInv, Settles
  <1>3. CASE /\ disk' = disk \cup {EmptyJournal} /\ dirty' = TRUE
             /\ UNCHANGED <<journal, states, next, permits>>
    <2>1. FileInv(journal, disk')
      BY <1>1, <1>3, ConstantJournals DEF IInv, FileInv, Resolved
    <2>2. PermitInv(permits, journal, disk')
      BY <1>3 DEF IInv, PermitInv
    <2>3. TypeOK' /\ LiveMatchesReplay'
      BY <1>0, <1>3, <2>1 DEF IInv, TypeOK, LiveMatchesReplay, FileInv
    <2> QED BY <1>0, <1>3, <2>1, <2>2, <2>3 DEF IInv, Settles, Extends
  <1> QED BY <1>2, <1>3, Zenon DEF compact_expired_terminal_tombstones

\* Recovery takes one of the journals the file may be read back as.
LEMMA RecoverStep ==
    ASSUME IInv, recover
    PROVE  /\ IInv' /\ Settles
           /\ mode' = "open" => ~Unresolved(journal')
  <1>0. now' = now /\ mode = "down"
    BY DEF recover
  <1>1. PICK d \in disk :
          IF ~d.ok \/ Unresolved(d)
          THEN mode' \in {"down", "quarantined"} /\ UNCHANGED <<memory, permits, file>>
          ELSE /\ mode' = "open" /\ states' = d.states /\ next' = d.next
               /\ permits' = IF d = EmptyJournal THEN {} ELSE permits
               /\ journal' = d /\ dirty' = FALSE
               /\ UNCHANGED <<tokens, disk>>
    BY DEF recover
  <1>2. CASE ~d.ok \/ Unresolved(d)
    <2>1. mode' \in {"down", "quarantined"} /\ UNCHANGED <<memory, permits, file>>
      BY <1>1, <1>2
    <2>2. TypeOK' /\ LiveMatchesReplay'
      BY <1>0, <2>1 DEF IInv, TypeOK, LiveMatchesReplay, memory, file
    <2> QED BY <2>1, <2>2 DEF IInv, Settles, Extends, file
  <1>3. CASE d.ok /\ ~Unresolved(d)
    <2>1. /\ mode' = "open" /\ states' = d.states /\ next' = d.next
          /\ permits' = IF d = EmptyJournal THEN {} ELSE permits
          /\ journal' = d /\ dirty' = FALSE /\ tokens' = tokens /\ disk' = disk
      BY <1>1, <1>3
    <2>2. d \in Journal /\ WellFormed(d) /\ disk \subseteq Journal
      BY DEF IInv, FileInv
    <2>3. FileInv(d, disk) /\ CleanInv(d, disk)
      BY <1>3, <2>2 DEF IInv, FileInv, CleanInv
    <2>4. PermitInv(permits', d, disk)
      BY <1>3, <2>1 DEF IInv, PermitInv
    <2>5. LiveMatchesReplay'
      <3>1. \A t \in Tasks : d.states[t] \in State
        BY <2>2 DEF Journal
      <3>2. \A t \in Tasks : SameButHeartbeat(d.states[t], d.states[t])
        BY <3>1, SameFields, Zenon
      <3> QED BY <1>3, <2>1, <3>2 DEF LiveMatchesReplay, SameButHeartbeat
    <2>6. TypeOK'
      BY <1>0, <2>1, <2>2, Zenon DEF IInv, TypeOK, Journal
    <2>7. Settles
      <3>1. CASE Unresolved(journal)
        BY <1>3, <2>1, <3>1 DEF IInv, FileInv, Settles
      <3>2. CASE ~Unresolved(journal) /\ d = EmptyJournal
        BY <2>1, <3>2 DEF Settles
      <3>3. CASE journal = EmptyJournal
        <4>1. \A t \in Tasks : journal.states[t] = Absent
          BY <3>3, Zenon DEF EmptyJournal
        <4>2. Absent.phase = "Absent" /\ Absent.result = None
          BY DEF Absent
        <4> QED BY <4>1, <4>2 DEF Settles, Extends, Terminal
      <3>4. CASE ~Unresolved(journal) /\ d # EmptyJournal /\ journal # EmptyJournal
        <4>1. journal = d
          BY <1>3, <3>4 DEF IInv, FileInv, Resolved
        <4> QED BY <2>1, <4>1 DEF Settles, Extends
      <3> QED BY <3>1, <3>2, <3>3, <3>4
    <2> QED BY <1>3, <2>1, <2>3, <2>4, <2>5, <2>6, <2>7 DEF IInv
  <1> QED BY <1>2, <1>3

\* Every step keeps the inductive invariant, settles what was settled, and
\* opens the journal only when it is resolved.
LEMMA StepLemma ==
    ASSUME IInv, [Next]_vars
    PROVE  /\ IInv' /\ Settles
           /\ mode = "down" /\ mode' = "open" => ~Unresolved(journal')
  <1>1. CASE Operation
    <2>1. mode = "open"
      BY <1>1 DEF Operation
    <2>2. IInv' /\ Settles /\ mode' = mode
      BY <1>1, PrepareStep, HolderStep, PublishStep, HeartbeatStep, ExpireStep, CompactStep
         DEF Operation
    <2> QED BY <2>1, <2>2
  <1>2. CASE clock
    <2>1. UNCHANGED <<mode, states, next, tokens, permits, journal, disk, dirty>> /\ now' \in Times
      BY <1>2 DEF clock, memory, file
    <2>2. TypeOK' /\ LiveMatchesReplay'
      BY <2>1 DEF IInv, TypeOK, LiveMatchesReplay
    <2> QED BY <2>1, <2>2 DEF IInv, Settles, Extends
  <1>3. CASE crash
    <2>1. /\ UNCHANGED <<now, permits, journal, disk, dirty>> /\ mode' = "down"
          /\ states' = NoDelegations /\ next' = 0 /\ tokens' = {}
      BY <1>3 DEF crash, file
    <2>2. NoDelegations \in [Tasks -> State]
      BY ConstantJournals DEF NoDelegations
    <2>3. TypeOK' /\ LiveMatchesReplay'
      BY <2>1, <2>2 DEF IInv, TypeOK, LiveMatchesReplay
    <2> QED BY <2>1, <2>3 DEF IInv, Settles, Extends
  <1>4. CASE recover
    BY <1>4, RecoverStep
  <1>5. CASE UNCHANGED vars
    <2>1. UNCHANGED <<mode, now, states, next, tokens, permits, journal, disk, dirty>>
      BY <1>5 DEF vars
    <2>2. TypeOK' /\ LiveMatchesReplay'
      BY <2>1 DEF IInv, TypeOK, LiveMatchesReplay
    <2> QED BY <2>1, <2>2 DEF IInv, Settles, Extends
  <1> QED BY <1>1, <1>2, <1>3, <1>4, <1>5 DEF Next

\* The invariant holds of a new journal.
LEMMA InitLemma == Init => IInv
  <1> SUFFICES ASSUME Init PROVE IInv
    OBVIOUS
  <1>1. EmptyJournal.ok /\ EmptyJournal.next = 0 /\ EmptyJournal.states = NoDelegations
    BY DEF EmptyJournal, NoDelegations
  <1>2. FileInv(journal, disk) /\ CleanInv(journal, disk)
    BY <1>1, ConstantJournals, AcknowledgedFile, Zenon DEF Init
  <1>3. NoDelegations \in [Tasks -> State] /\ \A t \in Tasks : NoDelegations[t] = Absent
    BY ConstantJournals DEF NoDelegations
  <1>4. Absent = [Absent EXCEPT !.heartbeat = Absent.heartbeat]
    BY DEF Absent
  <1>5. LiveMatchesReplay
    BY <1>1, <1>3, <1>4 DEF LiveMatchesReplay, Init
  <1>6. TypeOK
    <2>1. 0 \in Times
      BY TimeAssumption DEF Times
    <2>2. journal \in Journal /\ disk \subseteq Journal
      BY ConstantJournals DEF Init
    <2>3. states \in [Tasks -> State]
      BY <1>3 DEF Init
    <2> QED BY <2>1, <2>2, <2>3, Zenon DEF TypeOK, Init
  <1>7. PermitInv(permits, journal, disk)
    BY DEF PermitInv, Init
  <1> QED BY <1>2, <1>5, <1>6, <1>7 DEF IInv

--------------------------------------------------------------------------------
(* Theorems.                                                                 *)

\* The inductive invariant holds in every reachable state.
LEMMA Inductive == Spec => []IInv
  <1>1. IInv /\ [Next]_vars => IInv'
    BY StepLemma
  <1> QED BY <1>1, InitLemma, PTL DEF Spec

\* The state of the authority and of its journal is always well typed.
THEOREM TypeCorrect == Spec => []TypeOK
  <1>1. IInv => TypeOK
    BY DEF IInv
  <1> QED BY <1>1, Inductive, PTL

\* Replaying the acknowledged records always succeeds and yields the
\* delegations in memory, heartbeats apart.
THEOREM LiveMatches == Spec => []LiveMatchesReplay
  <1>1. IInv => LiveMatchesReplay
    BY DEF IInv
  <1> QED BY <1>1, Inductive, PTL

\* A permit exists only for a publication that survives every crash, and a
\* task is published at most once.
THEOREM PermitsDurable == Spec => []PermitIsDurable
  <1>1. IInv => PermitIsDurable
    BY DEF IInv, PermitInv, PermitIsDurable
  <1> QED BY <1>1, Inductive, PTL

\* An acknowledged end of a delegation is never revised, across restarts.
THEOREM TerminalFinal == Spec => TerminalIsFinal
  <1> DEFINE A == \A t \in Tasks :
                    journal.states[t].phase \in Terminal =>
                        \/ journal'.states[t] = journal.states[t]
                        \/ journal' = EmptyJournal /\ ~Unresolved(journal)
  <1>1. IInv /\ [Next]_vars => [A]_vars
    BY StepLemma DEF Settles, Extends
  <1> QED BY <1>1, Inductive, PTL DEF Spec, TerminalIsFinal

\* An acknowledged result is never replaced, across restarts.
THEOREM SealedFinal == Spec => SealedResultIsFinal
  <1> DEFINE A == \A t \in Tasks :
                    journal.states[t].result # None /\ journal'.states[t].phase # "Absent" =>
                        journal'.states[t].result = journal.states[t].result
  <1>1. IInv /\ [Next]_vars => [A]_vars
    <2> SUFFICES ASSUME IInv, [Next]_vars PROVE A
      OBVIOUS
    <2>1. CASE Extends(journal, journal')
      BY <2>1 DEF Extends
    <2>2. CASE journal' = EmptyJournal
      BY <2>2 DEF EmptyJournal, Absent
    <2> QED BY <2>1, <2>2, StepLemma DEF Settles
  <1> QED BY <1>1, Inductive, PTL DEF Spec, SealedResultIsFinal

\* No restart resumes a delegation that had not ended.
THEOREM NeverResumes == Spec => NoResume
  <1> DEFINE A == mode = "down" /\ mode' = "open" =>
                    /\ ~Unresolved(journal')
                    /\ \A t \in Tasks :
                         journal.states[t].phase \notin Terminal \cup {"Absent"} =>
                             journal'.states[t].phase \in Terminal
  <1>1. IInv /\ [Next]_vars => [A]_vars
    BY StepLemma DEF Settles, Extends, Unresolved
  <1> QED BY <1>1, Inductive, PTL DEF Spec, NoResume

================================================================================
