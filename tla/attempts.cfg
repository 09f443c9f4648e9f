\* Two requests and one admin over a configured and an added key; two
\* parallel calls and three upstream events.
SPECIFICATION SpecAttempts
CONSTANTS
  KeyIds = {k1, k2}
  NoKey = NoKey
  ConfigKeys = {k1}
  ConfigDisabled = {}
  r1 = r1
  r2 = r2
  RouteOf <- ConvertedAndResponses
  Requests = {r1, r2}
  Admins = {a1}
  FailoverEnabled = TRUE
  MaxRetries = 1
  CoolDown = 1
  TicksPerSecond = 1
  CallIndexes = {x0, x1}
  MaxDeltas = 3
INVARIANTS AttemptsTypeOK ReloadedFromDatabase EndsOnce AnnouncedInOrder DeltasMakeTheResponse NothingLost
PROPERTIES PicksEnabledKey RestartKeepsRows
\* A stream ends.
CHECK_DEADLOCK FALSE
