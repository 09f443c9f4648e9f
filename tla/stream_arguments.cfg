\* One call, two upstream events.
SPECIFICATION Spec
CONSTANTS
  CallIndexes = {x0}
  MaxDeltas = 2
INVARIANTS ArgumentsComplete
CHECK_DEADLOCK FALSE
