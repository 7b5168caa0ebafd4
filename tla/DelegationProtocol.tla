--------------------------- MODULE DelegationProtocol ---------------------------
(***************************************************************************)
(* The phases of a delegation, the records of its journal and their replay *)
(* (crates/clearra-core-executor/src/resource/durable_delegation_journal.rs).*)
(*                                                                         *)
(* A journal belongs to one job, so a task identifies a delegation: the    *)
(* identity and the budget of a record are functions of its task.  The     *)
(* reservation digest travels with the worker and the worker's reply       *)
(* digest with the result, so each pair is one value here.                 *)
(***************************************************************************)
EXTENDS Integers

CONSTANTS
    Tasks,      \* the task ids of the job, numbered in the map's key order
    Workers,    \* worker ids
    Results,    \* digests a result may have
    None        \* Option::None for a worker or a result

ASSUME TasksAssumption == Tasks \subseteq Nat

ASSUME NoneAssumption == None \notin Workers /\ None \notin Results

NoTime == -1    \* Option::None for a timestamp

Terminal == {"Completed", "Revoked", "Expired", "Cancelled", "FailedClosed"}

Phase == {"Prepared", "Offered", "Accepted", "Published", "Running", "Renewed",
          "ResultSealed", "ResultApplied"} \cup Terminal

Aborts == {"Revoked", "Expired", "Cancelled", "FailedClosed"}

\* Fault: an ended delegation may be aborted again.
valid_transition_from_terminal(from, to) ==
    \/ to \in Aborts
    \/ <<from, to>> \in
         {<<"Prepared", "Offered">>, <<"Offered", "Accepted">>,
          <<"Accepted", "Published">>, <<"Published", "Running">>,
          <<"Running", "ResultSealed">>,
          <<"ResultSealed", "ResultApplied">>, <<"ResultApplied", "Completed">>}

valid_transition(from, to) ==
    /\ from \notin Terminal
    /\ \/ to \in Aborts
       \/ <<from, to>> \in
            {<<"Prepared", "Offered">>, <<"Offered", "Accepted">>,
             <<"Accepted", "Published">>, <<"Published", "Running">>,
             <<"Running", "Renewed">>, <<"Renewed", "Renewed">>,
             <<"Running", "ResultSealed">>, <<"Renewed", "ResultSealed">>,
             <<"ResultSealed", "ResultApplied">>, <<"ResultApplied", "Completed">>}

\* DelegationEvent.  Its sequence number and hash link are its position.
Event ==
    [task : Tasks, phase : Phase, token : Nat, worker : Workers \cup {None},
     result : Results \cup {None}, at : Nat]

\* DelegationState; a task that is not a key of `states` is Absent.
State ==
    [phase : Phase \cup {"Absent"}, token : Nat, worker : Workers \cup {None},
     result : Results \cup {None}, offered_at : Nat \cup {NoTime},
     heartbeat : Nat, persisted : Nat, terminal_at : Nat \cup {NoTime}]

Absent ==
    [phase |-> "Absent", token |-> 0, worker |-> None, result |-> None,
     offered_at |-> NoTime, heartbeat |-> 0, persisted |-> 0, terminal_at |-> NoTime]

PreparedState(token, at) ==
    [Absent EXCEPT !.phase = "Prepared", !.token = token,
                   !.heartbeat = at, !.persisted = at]

--------------------------------------------------------------------------------
(* Replay.  A replayed journal is what recovery has rebuilt from a prefix of *)
(* the records: the states, the last fencing token, and whether every record *)
(* was accepted.                                                             *)

Journal == [ok : BOOLEAN, next : Nat, states : [Tasks -> State]]

EmptyJournal == [ok |-> TRUE, next |-> 0, states |-> [t \in Tasks |-> Absent]]

CorruptJournal == [EmptyJournal EXCEPT !.ok = FALSE]

BeforeAcceptance == {"Prepared", "Offered"}

Working == {"Accepted", "Published", "Running", "Renewed"}

Sealed == {"ResultSealed", "ResultApplied", "Completed"}

validate_replayed_event(ev) ==
    /\ ev.token > 0
    /\ ev.phase \in BeforeAcceptance => ev.worker = None /\ ev.result = None
    /\ ev.phase \in Working => ev.worker # None /\ ev.result = None
    /\ ev.phase \in Sealed => ev.worker # None /\ ev.result # None

\* What replay demands of a record that follows the state s of its task.
Follows(s, ev) ==
    /\ s.phase # "Absent"
    /\ s.token = ev.token
    /\ valid_transition(s.phase, ev.phase)
    /\ IF s.worker = None THEN ev.phase = "Accepted" \/ ev.worker = None
                          ELSE ev.worker = s.worker
    /\ IF s.result = None THEN ev.phase = "ResultSealed" \/ ev.result = None
                          ELSE ev.result = s.result

Replayable(j, ev) ==
    /\ j.ok
    /\ validate_replayed_event(ev)
    /\ IF ev.phase = "Prepared"
       THEN j.states[ev.task].phase = "Absent" /\ ev.token > j.next
       ELSE Follows(j.states[ev.task], ev)

ReplayState(s, ev) ==
    IF ev.phase = "Prepared"
    THEN PreparedState(ev.token, ev.at)
    ELSE [phase |-> ev.phase,
          token |-> s.token,
          worker |-> ev.worker,
          result |-> ev.result,
          offered_at |-> IF ev.phase = "Offered" THEN ev.at ELSE s.offered_at,
          heartbeat |-> IF ev.phase \in {"Published", "Running", "Renewed"} THEN ev.at ELSE s.heartbeat,
          persisted |-> IF ev.phase \in {"Published", "Renewed"} THEN ev.at ELSE s.persisted,
          terminal_at |-> IF ev.phase \in Terminal THEN ev.at ELSE s.terminal_at]

replay(j, ev) ==
    IF Replayable(j, ev)
    THEN [j EXCEPT !.next = IF ev.phase = "Prepared" THEN ev.token ELSE @,
                   !.states[ev.task] = ReplayState(@, ev)]
    ELSE CorruptJournal

Unresolved(j) == \E t \in Tasks : j.states[t].phase \notin Terminal \cup {"Absent"}

================================================================================
