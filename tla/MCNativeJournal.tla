---------------------------- MODULE MCNativeJournal ----------------------------
(* An instance of NativeJournal for TLC: the owner and recovering processes  *)
(* that are interchangeable.                                                 *)
EXTENDS NativeJournal, TLC

RecoverersAlike == Permutations(Recoverers)

================================================================================
