SPECIFICATION NodeSpec
CONSTANTS
  c1 = c1
  c2 = c2
  c3 = c3
  Commands = {c1, c2, c3}
  NoCommand = NoCommand
  QueueCapacity = 1
  MaxExecutions = 3
  MaxGeneration = 2
SYMMETRY CommandSymmetry
CHECK_DEADLOCK FALSE
INVARIANTS
  ShownStatusIsCurrent
  OneMissionShownRunning
PROPERTIES
  FinishedMissionIsShown
  ShownFinalIsFinal
