---------------------------- MODULE MCResourceLease ----------------------------
(* Instance of ResourceLease for TLC: a pool that two root leases exhaust in *)
(* compute or in memory, and enough epochs for a lease, a child and a        *)
(* grandchild beside other leases.                                           *)
EXTENDS ResourceLease

MCCapacity == [cu |-> 3, mb |-> 2]

\* One unit without memory, one unit with all the memory, two units with half.
MCRequests == {r \in [cu : 1..2, mb : 0..2] : r.cu + r.mb \in {1, 3}}

================================================================================
