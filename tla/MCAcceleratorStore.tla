------------------------- MODULE MCAcceleratorStore -------------------------
(* Two processes, of two releases. *)
EXTENDS AcceleratorStore

MCTwoReleases == [p \in Procs |-> IF p = "old" THEN 1 ELSE 2]
=============================================================================
