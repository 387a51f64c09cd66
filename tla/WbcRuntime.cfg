SPECIFICATION FairSpec
CONSTANTS
  Settle = 2
INVARIANT ConsistentPolicy
INVARIANT HoldOutlastsReset
PROPERTY FreshStays
PROPERTY HoldEnds
CHECK_DEADLOCK FALSE
