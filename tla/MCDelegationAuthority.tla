------------------------- MODULE MCDelegationAuthority -------------------------
(* One task under an arbitrary clock. *)
EXTENDS DelegationAuthority

MCTasks == {1}

================================================================================
