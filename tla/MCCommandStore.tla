--------------------------- MODULE MCCommandStore ---------------------------
(* Instances of CommandStore for TLC. *)
EXTENDS CommandStore, TLC

\* Commands, meanings and details are each only compared for equality.
StoreSymmetry ==
  Permutations(Commands) \cup Permutations(Meanings) \cup Permutations(Details)
=============================================================================
