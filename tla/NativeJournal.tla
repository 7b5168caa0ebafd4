----------------------------- MODULE NativeJournal -----------------------------
(***************************************************************************)
(* The JSON Lines file of one job, NativeJsonlDelegationJournal in         *)
(* crates/clearra-core-executor/src/resource/durable_delegation_journal.rs, *)
(* as the system calls of several processes see it: the process that owns  *)
(* the job, and processes whose start recovers the journals they find      *)
(* (crates/clearra-app/src/native_build_probability_host_runtime.rs).      *)
(*                                                                         *)
(* A file is an inode with a content and the content last synced.  Bytes   *)
(* are chunks: the header line, an event line, or bytes without a newline. *)
(* An event line keeps its sequence number and whether, with it, some      *)
(* delegation is unresolved; the hash chain of one writer adds nothing to  *)
(* the sequence number.  Names are durable at once; a power loss keeps at  *)
(* least what was synced.                                                  *)
(***************************************************************************)
EXTENDS Integers, Sequences

CONSTANTS
    Owner,          \* the process that runs the job
    Recoverers,     \* processes that start while the file may exist
    MaxInodes,      \* bound on the files created under the job's name
    MaxChunks       \* bound on the chunks of a file

ASSUME ProcsAssumption == Owner \notin Recoverers /\ MaxInodes \in Nat /\ MaxChunks \in Nat

Procs == {Owner} \cup Recoverers

VARIABLES
    path,       \* the inode under the journal's name, or 0
    marker,     \* the .quarantined marker exists
    archive,    \* inodes under a .quarantine-<digest> name
    content,    \* per inode: its chunks
    synced,     \* per inode: the chunks last synced
    pc,         \* where a process is
    fd,         \* the inode a process has open, or 0
    locked,     \* the inode a process has locked, or 0
    records,    \* NativeJsonlDelegationJournal.records of a process
    moved,      \* the inode a process has moved to quarantine, or 0
    acked,      \* the event lines acknowledged since the last reset
    home,       \* the inode the owner opened, or 0
    orphan,     \* processes that started after the owner's end
    overlap     \* two recovering processes were at work at the same time

names == <<path, marker, archive>>
data == <<content, synced>>
procs == <<pc, fd, locked, records, moved>>
history == <<acked, home, orphan, overlap>>
vars == <<names, data, procs, history>>

Header == <<"header", 0, FALSE>>
Torn == <<"torn", 0, FALSE>>
Line(n, live) == <<"line", n, live>>

Init ==
    /\ path = 0 /\ marker = FALSE /\ archive = {}
    /\ content = <<>> /\ synced = <<>>
    /\ pc = [p \in Procs |-> "start"]
    /\ fd = [p \in Procs |-> 0]
    /\ locked = [p \in Procs |-> 0]
    /\ records = [p \in Procs |-> <<>>]
    /\ moved = [p \in Procs |-> 0]
    /\ acked = <<>> /\ home = 0 /\ orphan = {} /\ overlap = FALSE

--------------------------------------------------------------------------------
(* Reading a file.                                                          *)

\* Sequence t begins with s.
Begins(s, t) == Len(s) <= Len(t) /\ SubSeq(t, 1, Len(s)) = s

\* Some delegation is unresolved after these event lines.
Unresolved(lines) == lines # <<>> /\ lines[Len(lines)][3]

\* parse_native_header_parts finds the canonical header line.
HeaderOk(c) == c # <<>> /\ Head(c) = Header

\* recover_jsonl: the event lines are read up to the last newline; bytes after
\* it are a torn append.
Events(c) ==
    LET ends == {n \in DOMAIN c : c[n] # Torn}
    IN  SubSeq(c, 2, CHOOSE n \in ends : \A k \in ends : k <= n)

\* Every line up to there is whole and in sequence.
Recovers(c) ==
    /\ HeaderOk(c)
    /\ \A n \in DOMAIN Events(c) : Events(c)[n][1] = "line" /\ Events(c)[n][2] = n

--------------------------------------------------------------------------------
(* Steps of a process.                                                      *)

Goto(p, l) == pc' = [pc EXCEPT ![p] = l]

\* The process drops its file, and with it the lock.
Close(p) ==
    /\ fd' = [fd EXCEPT ![p] = 0]
    /\ locked' = [locked EXCEPT ![p] = 0]

\* Opening returned an error.
Fail(p) == Goto(p, "failed") /\ Close(p) /\ UNCHANGED <<records, moved>>

\* The file was quarantined before: the owner's job fails, recovery goes on.
Skip(p) == Goto(p, IF p = Owner THEN "failed" ELSE "registered")

Write(f, chunks) == content' = [content EXCEPT ![f] = chunks]

Sync(f, chunks) == Write(f, chunks) /\ synced' = [synced EXCEPT ![f] = chunks]

\* open_for_job by the owner; a recovering process lists the directory and
\* looks at the marker of the name it finds.
start(p) ==
    /\ pc[p] = "start"
    /\ IF p = Owner THEN Goto(p, "check") /\ UNCHANGED orphan
       ELSE /\ IF path = 0 \/ marker THEN Skip(p) ELSE Goto(p, "peek")
            /\ orphan' = IF pc[Owner] \in {"dead", "failed"} THEN orphan \cup {p} ELSE orphan \ {p}
    /\ overlap' = (overlap \/ \E q \in Recoverers : p # Owner /\ pc[q] \notin {"start", "registered", "failed"})
    /\ UNCHANGED <<names, data, fd, locked, records, moved, acked, home>>

\* open_existing_job_for_recovery reads the header before anything is locked
\* and quarantines a file whose header is not whole.
peek(p) ==
    /\ pc[p] = "peek"
    /\ Goto(p, IF path = 0 THEN "failed" ELSE IF HeaderOk(content[path]) THEN "check" ELSE "rename")
    /\ UNCHANGED <<names, data, fd, locked, records, moved, history>>

check(p) ==
    /\ pc[p] = "check"
    /\ IF marker THEN Skip(p) ELSE Goto(p, "open")
    /\ UNCHANGED <<names, data, fd, locked, records, moved, history>>

\* OpenOptions::create: a recovering process, too, creates a missing file.
open(p) ==
    /\ pc[p] = "open"
    /\ IF path = 0
       THEN /\ Len(content) < MaxInodes
            /\ content' = Append(content, <<>>)
            /\ synced' = Append(synced, <<>>)
            /\ path' = Len(content')
       ELSE UNCHANGED <<data, path>>
    /\ fd' = [fd EXCEPT ![p] = path']
    /\ home' = IF p = Owner THEN path' ELSE home
    /\ Goto(p, "lock")
    /\ UNCHANGED <<marker, archive, locked, records, moved, acked, orphan, overlap>>

\* Fault: a lock that is held does not stop a second writer.
lock_ignored(p) ==
    /\ pc[p] = "lock"
    /\ Goto(p, "read")
    /\ locked' = [locked EXCEPT ![p] = fd[p]]
    /\ UNCHANGED <<names, data, fd, records, moved, history>>

lock(p) ==
    /\ pc[p] = "lock"
    /\ IF \E q \in Procs : locked[q] = fd[p]
       THEN Fail(p)
       ELSE /\ Goto(p, "read")
            /\ locked' = [locked EXCEPT ![p] = fd[p]]
            /\ UNCHANGED <<fd, records, moved>>
    /\ UNCHANGED <<names, data, history>>

\* A whole file is loaded; a corrupt one is unlocked and quarantined.
read(p) ==
    LET c == content[fd[p]] IN
    /\ pc[p] = "read"
    /\ CASE c = <<>> -> Goto(p, "header") /\ UNCHANGED <<fd, locked, records>>
         [] c # <<>> /\ ~Recovers(c) -> Goto(p, "rename") /\ Close(p) /\ UNCHANGED records
         [] c # <<>> /\ Recovers(c) ->
              /\ Goto(p, IF c[Len(c)] = Torn THEN "truncate" ELSE "ready")
              /\ records' = [records EXCEPT ![p] = Events(c)]
              /\ UNCHANGED <<fd, locked>>
    /\ UNCHANGED <<names, data, moved, history>>

\* The header of a new file, and the cut of a torn tail: written and synced,
\* or the error is returned with the bytes in any state on the way.
header(p) ==
    /\ pc[p] = "header"
    /\ \/ Sync(fd[p], <<Header>>) /\ Goto(p, "ready") /\ UNCHANGED <<fd, locked, records, moved>>
       \/ /\ \E c \in {<<>>, <<Torn>>, <<Header>>} : Write(fd[p], c)
          /\ UNCHANGED synced
          /\ Fail(p)
    /\ UNCHANGED <<names, history>>

truncate(p) ==
    LET c == content[fd[p]]
        valid == <<Header>> \o Events(c)
    IN  /\ pc[p] = "truncate"
        /\ \/ Sync(fd[p], valid) /\ Goto(p, "ready") /\ UNCHANGED <<fd, locked, records, moved>>
           \/ Write(fd[p], valid) /\ UNCHANGED synced /\ Fail(p)
           \/ UNCHANGED data /\ Fail(p)
        /\ UNCHANGED <<names, history>>

--------------------------------------------------------------------------------
(* The owner's job.                                                         *)

\* Fault: the record is acknowledged before it is synced.
append_unsynced(p) ==
    LET line == Line(Len(records[p]) + 1, TRUE) IN
    /\ p = Owner /\ pc[p] = "ready"
    /\ Len(content[fd[p]]) < MaxChunks
    /\ Write(fd[p], Append(content[fd[p]], line))
    /\ records' = [records EXCEPT ![p] = Append(@, line)]
    /\ acked' = Append(acked, line)
    /\ UNCHANGED <<names, synced, pc, fd, locked, moved, home, orphan, overlap>>

\* A record is written and synced, and acknowledged; or the error is returned
\* with none, part or all of its line written, and the writer goes on.  Only
\* a record that ends an unresolved delegation can leave none unresolved.
append(p) ==
    /\ p = Owner /\ pc[p] = "ready"
    /\ Len(content[fd[p]]) < MaxChunks
    /\ \E live \in {TRUE, ~Unresolved(records[p])} :
         LET line == Line(Len(records[p]) + 1, live)
             c == content[fd[p]]
         IN  \/ /\ Sync(fd[p], Append(c, line))
                /\ records' = [records EXCEPT ![p] = Append(@, line)]
                /\ acked' = Append(acked, line)
             \/ /\ \E chunk \in {line, Torn} : Write(fd[p], Append(c, chunk))
                /\ UNCHANGED <<synced, records, acked>>
    /\ UNCHANGED <<names, pc, fd, locked, moved, home, orphan, overlap>>

\* The job returns, with or without an error, and the journal is dropped.
finish(p) ==
    /\ p = Owner /\ pc[p] = "ready"
    /\ Goto(p, "dead") /\ Close(p)
    /\ UNCHANGED <<names, data, records, moved, history>>

--------------------------------------------------------------------------------
(* A recovering process: DurableDelegationAuthority::recover, then           *)
(* compaction.                                                               *)

\* reset_if_head, when every tombstone has expired.  What was acknowledged is
\* given up when the process found no delegation unresolved.
reset(p) ==
    /\ records[p] # <<>>
    /\ acked' = IF fd[p] = home /\ ~Unresolved(records[p]) THEN <<>> ELSE acked
    /\ \/ Sync(fd[p], <<Header>>) /\ Goto(p, "registered") /\ Close(p) /\ UNCHANGED <<records, moved>>
       \/ Write(fd[p], <<Header>>) /\ UNCHANGED synced /\ Fail(p)
       \/ UNCHANGED data /\ Fail(p)

\* Fault: unresolved delegations are kept like ended ones.
recover_unresolved(p) ==
    /\ p # Owner /\ pc[p] = "ready"
    /\ Goto(p, "registered") /\ Close(p)
    /\ UNCHANGED <<names, data, records, moved, history>>

\* Unresolved delegations and records of another build lead to quarantine;
\* otherwise the file is kept, or compacted.
recover(p) ==
    /\ p # Owner /\ pc[p] = "ready"
    /\ \/ /\ records[p] # <<>>
          /\ Goto(p, "release")
          /\ UNCHANGED <<data, fd, locked, records, moved, acked>>
       \/ /\ ~Unresolved(records[p])
          /\ \/ reset(p)
             \/ Goto(p, "registered") /\ Close(p) /\ UNCHANGED <<data, records, moved, acked>>
    /\ UNCHANGED <<names, home, orphan, overlap>>

\* What a process does after a quarantine that succeeded or failed.  Recovery
\* of an unresolved journal only looks whether the name is gone.
Ends(p, ok) ==
    \/ Unresolved(records[p]) /\ Goto(p, IF path' = 0 THEN "registered" ELSE "failed")
    \/ IF ok THEN Skip(p) ELSE Goto(p, "failed")

\* quarantine(): the file is synced and unlocked before it is moved.
release(p) ==
    /\ pc[p] = "release"
    /\ UNCHANGED <<names, records, moved, history>>
    /\ Close(p)
    /\ \/ Sync(fd[p], content[fd[p]]) /\ Goto(p, "rename")
       \/ UNCHANGED data /\ Ends(p, FALSE)

\* Fault: the file is removed, not moved.
rename_removes(p) ==
    /\ pc[p] = "rename"
    /\ path' = 0
    /\ Goto(p, "mark")
    /\ UNCHANGED <<marker, archive, data, fd, locked, records, moved, history>>

\* quarantine_native_path moves whatever has the name now.
rename(p) ==
    /\ pc[p] = "rename"
    /\ \/ /\ path # 0
          /\ moved' = [moved EXCEPT ![p] = path]
          /\ archive' = archive \cup {path}
          /\ path' = 0
          /\ Goto(p, "mark")
       \/ UNCHANGED <<path, archive, moved>> /\ Ends(p, FALSE)
    /\ UNCHANGED <<marker, data, fd, locked, records, history>>

\* The marker is created, or, when that fails or one exists, the file is
\* moved back over whatever has the name; the marker may be left behind, and
\* moving back may fail too.
mark(p) ==
    /\ pc[p] = "mark"
    /\ \/ /\ ~marker
          /\ marker' = TRUE
          /\ UNCHANGED <<path, archive>>
          /\ Ends(p, TRUE)
       \/ /\ marker' \in {marker, TRUE}
          /\ \/ path' = moved[p] /\ archive' = archive \ {moved[p]}
             \/ UNCHANGED <<path, archive>>
          /\ Ends(p, FALSE)
    /\ moved' = [moved EXCEPT ![p] = 0]
    /\ UNCHANGED <<data, fd, locked, records, history>>

--------------------------------------------------------------------------------
(* Ends and new starts of processes.                                         *)

\* A process dies; another recovering process may start in its place.
Restart(p) == IF p = Owner THEN IF pc[p] = "start" THEN "start" ELSE "dead" ELSE "start"

crash(p) ==
    /\ pc[p] # "dead" /\ Restart(p) # pc[p]
    /\ Goto(p, Restart(p)) /\ Close(p)
    /\ records' = [records EXCEPT ![p] = <<>>]
    /\ moved' = [moved EXCEPT ![p] = 0]
    /\ UNCHANGED <<names, data, history>>

\* What may be left of a file when the machine loses power: what was synced,
\* and of what was written since, a part that may end within a line.
Survivors(f) ==
    LET c == content[f]
        kept == IF Begins(synced[f], c) THEN Len(synced[f]) ELSE Len(c)
        cuts == {SubSeq(c, 1, n) : n \in kept..Len(c)}
    IN  {synced[f]} \cup cuts \cup {Append(d, Torn) : d \in cuts \ {c}}

power_loss ==
    /\ content # synced
    /\ content' \in {d \in [DOMAIN content -> UNION {Survivors(f) : f \in DOMAIN content}] :
                       \A f \in DOMAIN content : d[f] \in Survivors(f)}
    /\ synced' = content'
    /\ pc' = [p \in Procs |-> Restart(p)]
    /\ fd' = [p \in Procs |-> 0]
    /\ locked' = [p \in Procs |-> 0]
    /\ records' = [p \in Procs |-> <<>>]
    /\ moved' = [p \in Procs |-> 0]
    /\ UNCHANGED <<names, history>>

Step(p) ==
    \/ start(p) \/ peek(p) \/ check(p) \/ open(p) \/ lock(p) \/ read(p)
    \/ header(p) \/ truncate(p) \/ append(p) \/ finish(p)
    \/ recover(p) \/ release(p) \/ rename(p) \/ mark(p) \/ crash(p)

Next == (\E p \in Procs : Step(p)) \/ power_loss

Spec == Init /\ [][Next]_vars

--------------------------------------------------------------------------------
(* Properties.                                                              *)

\* An acknowledged record is never silently lost: whatever a crash or a power
\* loss leaves of the owner's file, recovery refuses it or finds every record
\* acknowledged since the last reset, and only resolved journals are reset.
AckedSurvives ==
    home # 0 =>
        \A c \in Survivors(home) \cup {content[home]} :
            Recovers(c) => Begins(acked, Events(c))

\* The journal of unresolved work keeps a name, its own or a quarantine name:
\* no rename, in whatever order the owner and recovering processes make them,
\* drops it, as long as two of the latter are not at work at once.
UnresolvedIsKept == Unresolved(acked) /\ ~overlap => home = path \/ home \in archive

\* Two processes never have the journal open for writing.
SingleWriter == \A p, q \in Procs : pc[p] = "ready" /\ pc[q] = "ready" /\ fd[p] = fd[q] => p = q

\* A process that started after the owner's end completes its registration
\* only when the owner's journal is quarantined, on its way there, or whole
\* with every delegation ended; again for processes that recover in turn.
RecoveryQuarantines ==
    [][\A p \in orphan :
         pc[p] # "registered" /\ pc'[p] = "registered" =>
             \/ overlap \/ marker'
             \/ home = 0 \/ path' # home
             \/ Recovers(content'[home]) /\ ~Unresolved(Events(content'[home]))]_vars

\* Quarantine is read-only: nothing is acknowledged into a quarantined file.
QuarantineIsReadOnly == [][Len(acked') > Len(acked) => home \notin archive]_vars

================================================================================
