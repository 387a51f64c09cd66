SPECIFICATION Spec
CONSTANTS
  Settle = 2
INVARIANT AcceptedRanAfterBegin
CHECK_DEADLOCK FALSE
