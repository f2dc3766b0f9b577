SPECIFICATION FairHilSpec
CONSTANTS
  Requests = {r1, r2}
  None = None
  HistorySize = 2
  ProcessedSize = 1
  MaxEvents = 3
  MaxLate = 1
  MaxRestarts = 1
CHECK_DEADLOCK FALSE
INVARIANTS
  ResultIsEarned
  OneAnswerPerGoal
  NothingIsLost
PROPERTIES
  SubmitIsAnswered
  RunsInOrder
