---------------------------- MODULE AcceleratorStore ----------------------------
(***************************************************************************)
(* The store of one accelerator asset of one profile on disk               *)
(* (crates/clearra-cli/src/accelerator_asset_store.rs): generations in     *)
(* directories of their own, and the activation journal whose last record  *)
(* names the one installed.  Processes of several releases share it; each  *)
(* has the generation of the catalog built into it.  A process may end     *)
(* between any two calls of the file system; what it has written stays,    *)
(* and the process that comes after it may have its id.                    *)
(*                                                                         *)
(* A payload is verified in full before it is used: "good" is one that     *)
(* passes.  The signed catalog, links, and records of another product or   *)
(* profile, which nothing writes here, are left out.                       *)
(***************************************************************************)
EXTENDS Naturals, FiniteSetsExt, Functions

CONSTANTS
    Procs,          \* processes at a time
    Pids,           \* process ids
    Generations,    \* generations the catalogs name
    Catalog,        \* the generation of the catalog of each process
    MaxRepairs,     \* repair directories at most at a time
    MaxRecords,     \* records the journal takes (MAX_JOURNAL_BYTES)
    MaxFaults       \* faults at most: ends of processes, failed calls, removals
                    \* of files among them, bad disks

ASSUME StoreAssumption ==
    /\ Catalog \in [Procs -> Generations] /\ Injection(Procs, Pids) # {}
    /\ {MaxRepairs, MaxRecords, MaxFaults} \subseteq Nat /\ Generations \subseteq Nat \ {0}

VARIABLES
    dirs,           \* what is in each generation directory
    journal,        \* the activation journal
    lock,           \* holder of store.lock, None for none
    staged,         \* the ids for which download-<pid>.tmp exists
    pid,            \* the id of each process
    pc,             \* where each process is
    name,           \* the directory it installs
    cancelled,      \* processes whose download is cancelled
    reading,        \* the directory each activation found in the journal
    resident,       \* processes with the generation of their catalog installed
    leased,         \* processes with a search that uses it
    faults          \* faults so far

files == <<dirs, journal, staged>>
runtime == <<reading, resident, leased>>
procs == <<pc, name, cancelled>>
vars == <<files, lock, pid, procs, runtime, faults>>

None == "none"
NoName == <<0, 0>>

\* generation-<g>, and generation-<g>-repair-<pid>-<n>.
Plain(g) == <<g, 0>>
Names == Generations \X (0..MaxRepairs)

NoJournal == [present |-> FALSE, last |-> NoName, torn |-> FALSE, records |-> 0]

Init ==
    /\ dirs = [d \in Names |-> "absent"] /\ journal = NoJournal
    /\ lock = None /\ staged = {} /\ pid = CHOOSE f \in Injection(Procs, Pids) : TRUE
    /\ pc = [p \in Procs |-> "idle"] /\ name = [p \in Procs |-> NoName]
    /\ cancelled = {} /\ reading = [p \in Procs |-> NoName] /\ resident = {} /\ leased = {}
    /\ faults = 0

--------------------------------------------------------------------------------

\* A journal that ends in the middle of a line, or in a line that is no record,
\* has no last activation.
read_last_activation == IF journal.present /\ ~journal.torn THEN journal.last ELSE NoName

\* The installed generation that passes verification is of this catalog.
load_active(g) ==
    /\ read_last_activation \in {g} \X (0..MaxRepairs)
    /\ dirs[read_last_activation] = "good"

Goto(p, l) == pc' = [pc EXCEPT ![p] = l]
Step(p, l, m) == pc[p] = l /\ Goto(p, m)

Fault == faults < MaxFaults /\ faults' = faults + 1

\* The operation ends; the lock goes with its handle.
Leave(p) ==
    /\ Goto(p, "idle") /\ lock' = None /\ cancelled' = cancelled \ {p}
    /\ name' = [name EXCEPT ![p] = NoName]

try_lock(p, l) ==
    /\ Step(p, "idle", l) /\ lock = None /\ lock' = p
    /\ UNCHANGED <<files, name, cancelled, runtime, faults>>

--------------------------------------------------------------------------------
(* download_observed. *)

Cancel(p) ==
    /\ lock = p /\ pc[p] \notin {"remove", "unlink", "clear"} /\ p \notin cancelled
    /\ cancelled' = cancelled \cup {p}
    /\ UNCHANGED <<files, lock, pc, name, runtime, faults>>

\* Nothing to do, or cancelled.
alreadyReady(p) ==
    /\ pc[p] = "load" /\ (p \in cancelled \/ load_active(Catalog[p]))
    /\ Leave(p)
    /\ UNCHANGED <<files, runtime, faults>>

Wanted(p) == pc[p] = "load" /\ p \notin cancelled /\ ~load_active(Catalog[p])

\* Fault: a directory that is there counts as installed.
reuse_present(p) ==
    /\ Wanted(p) /\ dirs[Plain(Catalog[p])] = "good" /\ Leave(p)
    /\ UNCHANGED <<files, runtime, faults>>

reuse(p) ==
    /\ Wanted(p) /\ dirs[Plain(Catalog[p])] = "good"
    /\ name' = [name EXCEPT ![p] = Plain(Catalog[p])] /\ Goto(p, "reused")
    /\ UNCHANGED <<files, lock, cancelled, runtime, faults>>

\* A directory that is there is left as it is: the repair is a sibling.  Its name
\* has the id of the process and a number; one that an earlier process with this
\* id has used makes create_dir fail, and the next attempt has the next number.
newDirectory(p) ==
    LET free == {n \in 0..MaxRepairs : dirs[<<Catalog[p], n>>] = "absent"}
    IN  free # {} /\ name' = [name EXCEPT ![p] = <<Catalog[p], Min(free)>>]

stage(p) ==
    /\ Wanted(p) /\ dirs[Plain(Catalog[p])] # "good" /\ newDirectory(p)
    /\ pid[p] \notin staged
    /\ staged' = staged \cup {pid[p]} /\ Goto(p, "transfer")
    /\ UNCHANGED <<dirs, journal, lock, cancelled, runtime, faults>>

\* create_new(true): a staging file left under this id is in the way, and nothing
\* ever removes it.
stageRefused(p) ==
    /\ Wanted(p) /\ dirs[Plain(Catalog[p])] # "good"
    /\ pid[p] \in staged /\ Leave(p)
    /\ UNCHANGED <<files, runtime, faults>>

\* The staging file is removed, or is left: the result is ignored.
unstage(p) ==
    \/ staged' = staged \ {pid[p]} /\ UNCHANGED faults
    \/ Fault /\ UNCHANGED staged

\* The transfer, its length, its digest and its qualification.
transferred(p) ==
    /\ Step(p, "transfer", "publish") /\ p \notin cancelled
    /\ UNCHANGED <<files, lock, name, cancelled, runtime, faults>>

transferCancelled(p) ==
    /\ pc[p] = "transfer" /\ p \in cancelled /\ unstage(p) /\ Leave(p)
    /\ UNCHANGED <<dirs, journal, runtime>>

transferFailed(p) ==
    /\ pc[p] = "transfer" /\ Fault /\ staged' \in {staged, staged \ {pid[p]}} /\ Leave(p)
    /\ UNCHANGED <<dirs, journal, runtime>>

\* publish_verified_generation.
create_dir(p) ==
    /\ Step(p, "publish", "rename") /\ dirs[name[p]] = "absent"
    /\ dirs' = [dirs EXCEPT ![name[p]] = "empty"]
    /\ UNCHANGED <<journal, staged, lock, name, cancelled, runtime, faults>>

rename(p) ==
    /\ Step(p, "rename", "published")
    /\ dirs' = [dirs EXCEPT ![name[p]] = "good"] /\ staged' = staged \ {pid[p]}
    /\ UNCHANGED <<journal, lock, name, cancelled, runtime, faults>>

\* The staging file goes, and the directory made for it, each if it can be removed.
publishFailed(p) ==
    /\ pc[p] \in {"publish", "rename"} /\ Leave(p) /\ Fault
    /\ staged' \in {staged, staged \ {pid[p]}}
    /\ dirs' \in {dirs} \cup (IF pc[p] = "rename" THEN {[dirs EXCEPT ![name[p]] = "absent"]} ELSE {})
    /\ UNCHANGED <<journal, runtime>>

notCancelled(p) ==
    /\ pc[p] \in {"reused", "published"} /\ p \notin cancelled /\ Goto(p, "append")
    /\ UNCHANGED <<files, lock, name, cancelled, runtime, faults>>

\* A cancellation takes back what this download has published, payload first,
\* as far as it can be removed, and leaves alone what was there.
rollBack(p) ==
    /\ p \in cancelled
    /\ \/ /\ pc[p] = "published" /\ Goto(p, "undo") /\ UNCHANGED <<lock, cancelled, name>>
          /\ dirs' = [dirs EXCEPT ![name[p]] = "empty"]
       \/ /\ pc[p] = "undo" /\ Leave(p)
          /\ dirs' = [dirs EXCEPT ![name[p]] = "absent"]
       \/ pc[p] = "reused" /\ Leave(p) /\ UNCHANGED dirs
    /\ UNCHANGED <<journal, staged, runtime, faults>>

rollBackFails(p) ==
    /\ p \in cancelled /\ pc[p] \in {"published", "undo"} /\ Leave(p) /\ Fault
    /\ UNCHANGED <<files, runtime>>

\* A record written behind half a line makes one line with it.
Appended(d) ==
    [present |-> TRUE, last |-> IF journal.torn THEN NoName ELSE d, torn |-> FALSE,
     records |-> journal.records + 1]

append_activation(p) ==
    /\ Step(p, "append", "clean") /\ journal.records < MaxRecords
    /\ journal' = Appended(name[p])
    /\ UNCHANGED <<dirs, staged, lock, name, cancelled, runtime, faults>>

append_refused(p) ==
    /\ pc[p] = "append" /\ journal.records >= MaxRecords /\ Leave(p)
    /\ UNCHANGED <<files, runtime, faults>>

\* Fault: the journal is written anew.
append_failed_anew(p) ==
    /\ pc[p] = "append" /\ journal.records < MaxRecords /\ Leave(p) /\ Fault
    /\ journal' \in {[NoJournal EXCEPT !.present = TRUE], Appended(name[p])}
    /\ UNCHANGED <<dirs, staged, runtime>>

\* The journal is created and nothing written, or the record is written and not
\* synced, or half of it is.  What was published stays.
append_failed(p) ==
    /\ pc[p] = "append" /\ journal.records < MaxRecords /\ Leave(p) /\ Fault
    /\ \/ journal' \in {[journal EXCEPT !.present = TRUE], Appended(name[p])}
       \/ journal' = [journal EXCEPT !.present = TRUE, !.torn = TRUE]
    /\ UNCHANGED <<dirs, staged, runtime>>

--------------------------------------------------------------------------------
(* cleanup_inactive_generations, after a download and in a removal. *)

Inactive(p) == {d \in Names : dirs[d] # "absent" /\ ~(pc[p] = "clean" /\ d = name[p])}

removeInactive(p, d) ==
    /\ pc[p] \in {"clean", "clear"} /\ d \in Inactive(p)
    /\ dirs' = [dirs EXCEPT ![d] = IF @ = "empty" THEN "absent" ELSE "empty"]
    /\ UNCHANGED <<journal, staged, lock, procs, runtime, faults>>

\* All are gone, or one cannot be removed.
cleanedUp(p) ==
    /\ pc[p] \in {"clean", "clear"} /\ Leave(p)
    /\ IF Inactive(p) = {} THEN UNCHANGED faults ELSE Fault
    /\ UNCHANGED <<files, runtime>>

--------------------------------------------------------------------------------
(* remove, activate_installed and the searches. *)

\* A search that uses the generation keeps it installed.
remove_active(p) ==
    /\ pc[p] = "remove"
    /\ IF p \in leased THEN Leave(p) /\ UNCHANGED resident
       ELSE resident' = resident \ {p} /\ Goto(p, "unlink") /\ UNCHANGED <<lock, cancelled, name>>
    /\ UNCHANGED <<files, reading, leased, faults>>

remove_journal(p) ==
    /\ Step(p, "unlink", "clear") /\ journal' = NoJournal
    /\ UNCHANGED <<dirs, staged, lock, name, cancelled, runtime, faults>>

removeFailed(p) ==
    /\ pc[p] = "unlink" /\ Leave(p) /\ Fault
    /\ UNCHANGED <<files, runtime>>

\* activate_installed takes no lock: it reads the journal, then the payload.
readJournal(p) ==
    /\ p \notin resident /\ reading[p] = NoName
    /\ read_last_activation \in {Catalog[p]} \X (0..MaxRepairs)
    /\ reading' = [reading EXCEPT ![p] = read_last_activation]
    /\ UNCHANGED <<files, lock, procs, resident, leased, faults>>

readPayload(p) ==
    /\ reading[p] # NoName /\ reading' = [reading EXCEPT ![p] = NoName]
    /\ resident' = (IF dirs[reading[p]] = "good" THEN resident \cup {p} ELSE resident)
    /\ UNCHANGED <<files, lock, procs, leased, faults>>

Search(p) ==
    /\ leased' = (IF p \in leased THEN leased \ {p} ELSE leased \cup ({p} \cap resident))
    /\ UNCHANGED <<files, lock, procs, reading, resident, faults>>

\* A process ends; its lock goes, its staging file stays.  The next in its place
\* has another id or one that was in use before.
Exit(p) ==
    /\ Fault
    /\ Goto(p, "idle") /\ cancelled' = cancelled \ {p} /\ name' = [name EXCEPT ![p] = NoName]
    /\ lock' = (IF lock = p THEN None ELSE lock)
    /\ reading' = [reading EXCEPT ![p] = NoName]
    /\ resident' = resident \ {p} /\ leased' = leased \ {p}
    /\ \E n \in Pids \ {pid[q] : q \in Procs \ {p}} : pid' = [pid EXCEPT ![p] = n]
    /\ UNCHANGED files

Corrupt(d) ==
    /\ dirs[d] = "good" /\ Fault /\ dirs' = [dirs EXCEPT ![d] = "bad"]
    /\ UNCHANGED <<journal, staged, lock, procs, runtime>>

--------------------------------------------------------------------------------

Download(p) ==
    \/ alreadyReady(p) \/ reuse(p) \/ stage(p) \/ stageRefused(p) \/ transferred(p)
    \/ transferCancelled(p) \/ create_dir(p) \/ rename(p) \/ notCancelled(p) \/ rollBack(p)
    \/ append_activation(p) \/ append_refused(p)

Cleanup(p) == cleanedUp(p) \/ \E d \in Names : removeInactive(p, d)

Remove(p) == remove_active(p) \/ remove_journal(p)

Fails(p) ==
    transferFailed(p) \/ publishFailed(p) \/ rollBackFails(p) \/ append_failed(p) \/ removeFailed(p)

\* Every step but the end of a process, which alone changes an id.
Lives ==
    \/ \E p \in Procs : \/ try_lock(p, "load") \/ try_lock(p, "remove") \/ Cancel(p)
                        \/ Download(p) \/ Fails(p) \/ Cleanup(p) \/ Remove(p)
                        \/ readJournal(p) \/ readPayload(p) \/ Search(p)
    \/ \E d \in Names : Corrupt(d)

Next == (Lives /\ UNCHANGED pid) \/ \E p \in Procs : Exit(p)

Spec == Init /\ [][Next]_vars

\* An operation goes on, and its transfer ends.
LiveSpec == Spec /\ \A p \in Procs : WF_vars((Download(p) \/ Cleanup(p) \/ Remove(p)) /\ UNCHANGED pid)

--------------------------------------------------------------------------------
(* Properties. *)

\* An installed generation stays installed until a record is appended to the
\* journal, whole or in part, or it is removed, or the disk goes bad: a removal
\* takes the record first, and no download that fails, is cancelled or ends
\* half-way takes away what the journal names (download_observed, remove).
ActivationKept ==
    [][\A g \in Generations : load_active(g) =>
          \/ load_active(g)' \/ journal'.records > journal.records \/ journal'.torn \/ ~journal'.present
          \/ \E d \in Names : dirs[d] = "good" /\ dirs'[d] = "bad"]_vars

\* However a download was broken off, downloads that are tried again and again,
\* and no longer cancelled, by processes in whose name no staging file was left,
\* install a generation in the end, unless the journal, or the bound on
\* directories, is full.  A staging file that could not be removed, or that an
\* earlier process left under the same id, stops every download of its process
\* (create_new in download_observed_with_transport), and of no other.
Heals ==
    []<>(\E p \in Procs : pc[p] = "load" /\ pid[p] \notin staged) /\ <>[](cancelled = {}) =>
        \/ []<>(\E g \in Generations : load_active(g))
        \/ <>[](journal.records >= MaxRecords)
        \/ <>[](\E g \in Generations : \A n \in 0..MaxRepairs : dirs[<<g, n>>] # "absent")

================================================================================
