SPECIFICATION CoreSpec
CONSTANTS
  c1 = c1
  c2 = c2
  c3 = c3
  c4 = c4
  c5 = c5
  Commands = {c1, c2, c3, c4, c5}
  NoCommand = NoCommand
  QueueCapacity = 3
  MaxExecutions = 5
  MaxGeneration = 2
SYMMETRY CommandSymmetry
CHECK_DEADLOCK FALSE
INVARIANTS
  OneStory
  CoreIInv
PROPERTIES
  QueueContinues
  FinalStatusIsFinal
  StopDecidesOutcome
  SuccessIsEarned
  LatchSurvivesCleanup
  FirstInFirstOut
  ImplementsLifecycle
