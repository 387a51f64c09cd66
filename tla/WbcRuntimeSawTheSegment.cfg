SPECIFICATION Spec
CONSTANTS
  Settle = 2
INVARIANT AcceptedSawTheSegment
CHECK_DEADLOCK FALSE
