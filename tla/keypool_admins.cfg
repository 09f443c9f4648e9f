\* Two admins at once.
SPECIFICATION Spec
CONSTANTS
  KeyIds = {k1, k2}
  NoKey = NoKey
  ConfigKeys = {k1}
  ConfigDisabled = {}
  r1 = r1
  r2 = r2
  RouteOf <- OneForward
  Requests = {r1}
  Admins = {a1, a2}
  FailoverEnabled = TRUE
  MaxRetries = 1
  CoolDown = 1
  TicksPerSecond = 1
INVARIANTS ReloadedFromDatabase

