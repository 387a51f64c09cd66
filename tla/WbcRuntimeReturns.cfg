SPECIFICATION Spec
CONSTANTS
  Settle = 2
INVARIANT UpdateReturns
CHECK_DEADLOCK FALSE
