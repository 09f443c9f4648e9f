\* Reasoning, then text.
SPECIFICATION Spec
CONSTANTS
  CallIndexes = {x0}
  MaxDeltas = 2
INVARIANTS EveryItemClosed
CHECK_DEADLOCK FALSE
