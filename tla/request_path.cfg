\* Two turns of two calls, six stream events, two input items, four
\* output items, eight events read, three keys.
SPECIFICATION Spec
SYMMETRY CallSymmetry
CONSTANTS
  MaxTurns = 2
  MaxCalls = 2
  Calls = {c1, c2}
  NoCall = NoCall
  MaxEvents = 6
  CallIds = {c1, c2}
  NoId = NoId
  MaxAnswers = 1
  MaxItems = 2
  MaxOutputs = 4
  MaxRead = 8
  Keys = {1, 2, 3}
  Weight <- Weights
  Half = 8
  Levels = {9, 10}
  MaxPicks = 8
  MaxRecords = 3
  MaxSeconds = 2
INVARIANTS TypeOK TextsKept AnswersComeBack TakeTurns CallsAnnounced PiecesKept TextStreamsWellFormed ReasonTold CallsAnsweredAtOnce HistoryThenInput LastCallNotDoubled EventsRead FragmentsNameTheirCall SharesFair
PROPERTIES QuotaRespected
\* Each part stops at its bounds.
CHECK_DEADLOCK FALSE
