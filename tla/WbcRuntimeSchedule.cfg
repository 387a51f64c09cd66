SPECIFICATION Spec
CONSTANTS
  Settle = 2
INVARIANT RetiledScheduleSurvives
CHECK_DEADLOCK FALSE
