--------------------------- MODULE MCMissionCore ----------------------------
(* Instances of MissionCore for TLC. *)
EXTENDS MissionCore, TLC

\* Commands are only compared for equality.
CommandSymmetry == Permutations(Commands)
=============================================================================
