\* Two requests, no admin: a retry may get the key that just failed.
SPECIFICATION Spec
CONSTANTS
  KeyIds = {k1, k2}
  NoKey = NoKey
  ConfigKeys = {k1, k2}
  ConfigDisabled = {}
  r1 = r1
  r2 = r2
  RouteOf <- ConvertedAndResponses
  Requests = {r1, r2}
  Admins = {}
  FailoverEnabled = TRUE
  MaxRetries = 1
  CoolDown = 1
  TicksPerSecond = 1

PROPERTIES RetrySwitchesKey
