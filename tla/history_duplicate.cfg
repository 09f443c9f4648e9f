\* An answer of two calls, continued with two results.
SPECIFICATION Spec
CONSTANTS
  MaxTurns = 0
  MaxCalls = 0
  Calls = {c1}
  NoCall = NoCall
  MaxEvents = 0
  CallIds = {c1, c2}
  NoId = NoId
  MaxAnswers = 1
  MaxItems = 2
  MaxOutputs = 2
  MaxRead = 0
  Keys = {1, 2, 3}
  Weight <- Weights
  Half = 8
  Levels = {9}
  MaxPicks = 0
  MaxRecords = 0
  MaxSeconds = 1
INVARIANTS NoDuplicatePlaceholder
CHECK_DEADLOCK FALSE
