SPECIFICATION FairTargetsSpec
CONSTANTS
  Ids = {1, 2}
  Places = {0, 1}
  MaxTime = 4
  MaxResets = 1
  Wait = 2
  Policies = {"LEAF_PILE", "ANY"}
  Batches <- MCBatches
  NoTarget = NoTarget
  NoPose = NoPose
INVARIANTS
  TargetsTypeOK
  RegistryHoldsNewest
  NoTargetIsMissed
PROPERTIES
  GoalIsCurrent
  WaitEnds
