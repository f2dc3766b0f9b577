--------------------------- MODULE MCMissionNode ----------------------------
(* Instances of MissionNode for TLC. *)
EXTENDS MissionNode, TLC

\* Commands are only compared for equality.
CommandSymmetry == Permutations(Commands)
=============================================================================
