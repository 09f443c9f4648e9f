\* One answer with one call, and what the client sends back.
SPECIFICATION Spec
CONSTANTS
  MaxTurns = 1
  MaxCalls = 1
  Calls = {c1}
  NoCall = NoCall
  MaxEvents = 0
  CallIds = {c1, c2}
  NoId = NoId
  MaxAnswers = 0
  MaxItems = 0
  MaxOutputs = 0
  MaxRead = 0
  Keys = {1, 2, 3}
  Weight <- Weights
  Half = 8
  Levels = {9}
  MaxPicks = 0
  MaxRecords = 0
  MaxSeconds = 1
INVARIANTS ResultsFollowCalls
CHECK_DEADLOCK FALSE
