SPECIFICATION FairPhysicalSpec
CONSTANTS
  Handles = {h1, h2}
  NoHandle = NoHandle
  FuturesMayRaise = TRUE
CHECK_DEADLOCK FALSE
INVARIANTS
  CompletionIsEarned
PROPERTIES
  ImplementsContract
  CancelIsAnswered
  EndIsReported
  KeepsPromise
  ReachedGoalSucceeds
