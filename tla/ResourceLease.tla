----------------------------- MODULE ResourceLease -----------------------------
(***************************************************************************)
(* The shared resource lease authority of                                  *)
(* crates/clearra-core-domain/src/resource/shared_resource_lease.rs.       *)
(*                                                                         *)
(* A pool of compute units and memory is handed out as root leases; a      *)
(* lease may delegate part of its own grant to child leases, to any depth. *)
(* Every operation runs under one mutex, so each is one step here.  A call *)
(* that returns an error before it changes anything is a stuttering step   *)
(* and has no action of its own.                                           *)
(***************************************************************************)
EXTENDS Integers, FiniteSets, Functions

CONSTANTS
    Owners,         \* ResourceLeaseOwnerId values
    Capacity,       \* the authority's ResourceLeaseCapacity, [cu, mb]
    Requests,       \* the ResourceLeaseRequest values callers ask for
    MaxEpoch        \* stands for u64::MAX, where next_epoch fails

Amount == [cu : Nat, mb : Nat]

ASSUME CapacityAssumption == Capacity \in Amount /\ Capacity.cu > 0

ASSUME RequestsAssumption == Requests \subseteq {r \in Amount : r.cu > 0}

ASSUME MaxEpochAssumption == MaxEpoch \in Nat

VARIABLES
    used,           \* AuthorityState.used
    next_epoch,     \* AuthorityState.next_epoch
    allocations,    \* AuthorityState.allocations: epoch -> Allocation
    leases          \* epochs whose ResourceLease handle exists, not released

vars == <<used, next_epoch, allocations, leases>>

NoParent == 0       \* parent_epoch = None: epochs start at 1

Zero == [cu |-> 0, mb |-> 0]

\* Fault: memory is not accounted.
PlusComputeOnly(a, b) == [cu |-> a.cu + b.cu, mb |-> a.mb]

Plus(a, b) == [cu |-> a.cu + b.cu, mb |-> a.mb + b.mb]

Minus(a, b) == [cu |-> a.cu - b.cu, mb |-> a.mb - b.mb]

Fits(a, b) == a.cu <= b.cu /\ a.mb <= b.mb

Epochs == 1..MaxEpoch

Init ==
    /\ used = Zero
    /\ next_epoch = 0
    /\ allocations = <<>>
    /\ leases = {}

Insert(allocs, e, a) == [x \in DOMAIN allocs \cup {e} |-> IF x = e THEN a ELSE allocs[x]]

NewAllocation(o, p, r) ==
    [owner |-> o, parent |-> p, grant |-> r,
     remaining |-> r, child_count |-> 0, release_pending |-> FALSE]

--------------------------------------------------------------------------------
(* Acquiring.  The request must fit what is left of the pool (or of the     *)
(* parent's grant), and the epoch counter must not be exhausted; nothing is *)
(* accounted before both hold.                                              *)

try_acquire(o, r) ==
    /\ Fits(r, Minus(Capacity, used))
    /\ next_epoch < MaxEpoch
    /\ next_epoch' = next_epoch + 1
    /\ used' = Plus(used, r)
    /\ allocations' = Insert(allocations, next_epoch + 1, NewAllocation(o, NoParent, r))
    /\ leases' = leases \cup {next_epoch + 1}

\* Fault: the parent does not count its child.
try_child_uncounted(p, o, r) ==
    /\ p \in DOMAIN allocations
    /\ Fits(r, allocations[p].remaining)
    /\ next_epoch < MaxEpoch
    /\ next_epoch' = next_epoch + 1
    /\ allocations' = Insert([allocations EXCEPT ![p].remaining = Minus(@, r)],
                             next_epoch + 1, NewAllocation(o, p, r))
    /\ leases' = leases \cup {next_epoch + 1}
    /\ UNCHANGED used

\* A child is asked of a handle that is still held; its allocation must be
\* present (try_acquire_child answers CapabilityUnavailable otherwise).
try_child(p, o, r) ==
    /\ p \in DOMAIN allocations
    /\ Fits(r, allocations[p].remaining)
    /\ next_epoch < MaxEpoch
    /\ next_epoch' = next_epoch + 1
    /\ allocations' =
         Insert([allocations EXCEPT ![p].remaining = Minus(@, r),
                                    ![p].child_count = @ + 1],
                next_epoch + 1, NewAllocation(o, p, r))
    /\ leases' = leases \cup {next_epoch + 1}
    /\ UNCHANGED used

--------------------------------------------------------------------------------
(* Releasing.  release_ready_allocation is a loop that walks up the parents *)
(* for as long as the release of a child makes an abandoned parent whole    *)
(* again.  One iteration maps the loop's state to the next; an error leaves *)
(* what earlier iterations did in place.                                    *)

Ready(a) == a.child_count = 0 /\ a.remaining = a.grant

\* Fault: a parent whose handle is held is released with its last child.
CascadesAlways(a) == Ready(a)

\* The release goes on with a parent that was abandoned and is whole again.
Cascades(a) == a.release_pending /\ Ready(a)

ReleaseStep(s) ==
    LET a == s.allocations[s.epoch]
        gone == Restrict(s.allocations, DOMAIN s.allocations \ {s.epoch})
        parent == s.allocations[a.parent]
        returned == Plus(parent.remaining, a.grant)
        whole == [parent EXCEPT !.remaining = returned, !.child_count = @ - 1]
    IN  CASE s.epoch \notin DOMAIN s.allocations ->
               [s EXCEPT !.result = "StaleEpoch"]
          [] s.epoch \in DOMAIN s.allocations /\ ~Ready(a) ->
               [s EXCEPT !.result = "ChildrenActive"]
          [] s.epoch \in DOMAIN s.allocations /\ Ready(a) /\ a.parent = NoParent ->
               IF Fits(a.grant, s.used)
               THEN [s EXCEPT !.result = "ok", !.allocations = gone,
                              !.used = Minus(s.used, a.grant)]
               ELSE [s EXCEPT !.result = "AccountingInvariantViolated"]
          [] OTHER ->
               IF a.parent \notin DOMAIN s.allocations
                  \/ parent.child_count = 0
                  \/ ~Fits(returned, parent.grant)
               THEN [s EXCEPT !.result = "AccountingInvariantViolated"]
               ELSE [s EXCEPT !.allocations = Insert(gone, a.parent, whole),
                              !.epoch = a.parent,
                              !.result = IF Cascades(whole)
                                         THEN "continue" ELSE "ok"]

release_ready_allocation(e) ==
    LET loop[n \in Nat] ==
          IF n = 0
          THEN [allocations |-> allocations, used |-> used,
                epoch |-> e, result |-> "continue"]
          ELSE LET prev == loop[n - 1] IN
                 IF prev.result = "continue" THEN ReleaseStep(prev) ELSE prev
    IN  loop[Cardinality(DOMAIN allocations) + 1]

validate_release(e, o) == e \in DOMAIN allocations /\ allocations[e].owner = o

\* release_as by the lease's own owner.  A foreign owner, a released handle
\* and active children are refused without a change, so the handle stays.
release_as(e, o) ==
    /\ validate_release(e, o)
    /\ Ready(allocations[e])
    /\ LET done == release_ready_allocation(e) IN
         /\ allocations' = done.allocations
         /\ used' = done.used
         /\ leases' = IF done.result = "ok" THEN leases \ {e} ELSE leases
    /\ UNCHANGED next_epoch

\* Fault: an abandoned parent is not marked.
drop_unmarked(e) ==
    /\ leases' = leases \ {e}
    /\ IF e \in DOMAIN allocations /\ Ready(allocations[e])
       THEN LET done == release_ready_allocation(e) IN
              allocations' = done.allocations /\ used' = done.used
       ELSE UNCHANGED <<allocations, used>>
    /\ UNCHANGED next_epoch

\* Drop of a handle: abandon_token releases a ready allocation and turns one
\* with live children into a tombstone that the last child's release frees.
drop(e) ==
    /\ leases' = leases \ {e}
    /\ IF e \in DOMAIN allocations /\ Ready(allocations[e])
       THEN LET done == release_ready_allocation(e) IN
              allocations' = done.allocations /\ used' = done.used
       ELSE /\ allocations' = IF e \in DOMAIN allocations
                              THEN [allocations EXCEPT ![e].release_pending = TRUE]
                              ELSE allocations
            /\ UNCHANGED used
    /\ UNCHANGED next_epoch

\* Handles: a released one only answers errors, and is dropped without effect.
Next ==
    \/ \E o \in Owners, r \in Requests : try_acquire(o, r)
    \/ \E p \in leases, o \in Owners, r \in Requests : try_child(p, o, r)
    \/ \E e \in leases, o \in Owners : release_as(e, o)
    \/ \E e \in leases : drop(e)

Spec == Init /\ [][Next]_vars

--------------------------------------------------------------------------------
(* Properties.                                                              *)

Children(p) == {e \in DOMAIN allocations : allocations[e].parent = p}

TotalGrant(S) ==
    [cu |-> SumFunctionOnSet([e \in S |-> allocations[e].grant.cu], S),
     mb |-> SumFunctionOnSet([e \in S |-> allocations[e].grant.mb], S)]

\* No compute unit or byte is created or lost: the pool's `used` is what the
\* root leases were granted, and every lease's grant is what it still has
\* plus what its children were granted, tombstones included.
Conservation ==
    /\ used = TotalGrant(Children(NoParent))
    /\ Fits(used, Capacity)
    /\ \A p \in DOMAIN allocations :
         /\ allocations[p].grant = Plus(allocations[p].remaining, TotalGrant(Children(p)))
         /\ allocations[p].child_count = Cardinality(Children(p))

\* Whatever order parents and children are dropped in, once no handle is left
\* the whole capacity is back: no tombstone outlives its last descendant.
NoLeak == leases = {} => allocations = <<>> /\ used = Zero

\* The cascade of a release never meets the conditions that the code reports
\* as AccountingInvariantViolated, StaleEpoch or (further up) ChildrenActive.
ReleaseNeverFaults ==
    \A e \in DOMAIN allocations :
        Ready(allocations[e]) => release_ready_allocation(e).result = "ok"

\* A handle in the hands of its holder is always backed by its allocation:
\* nobody else's release or drop frees it or marks it for release.
HeldLeaseIsBacked ==
    \A e \in leases : e \in DOMAIN allocations /\ ~allocations[e].release_pending

================================================================================
