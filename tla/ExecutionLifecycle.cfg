SPECIFICATION FairSpec
CONSTANTS
  MaxExecutions = 2
  MaxGeneration = 2
INVARIANTS
  OnlyOwnedGoalMoves
  OnlyActiveOwnsLease
  QuietAtRest
  DrivesUnderLease
PROPERTIES
  EndsOnlyWhenReleased
  SubmitsOneAtATime
  FailedCleanupSticks
  StartupSettles
  CancellationSettles
