SPECIFICATION StoreSpec
CONSTANTS
  Commands = {c1, c2, c3}
  Meanings = {m1, m2}
  Details = {d1, d2}
  States = {"ACCEPTED", "EMERGENCY_STOPPED", "SUCCEEDED", "CANCELED"}
  MaxEntries = 2
CHECK_DEADLOCK FALSE
SYMMETRY StoreSymmetry
INVARIANTS
  RetryTellsStory
PROPERTIES
  EndIsKept
