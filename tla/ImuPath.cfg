SPECIFICATION Spec
CONSTANTS
  MaxErrors = 3
  RetryPeriod = 2
  Samples = 3
  MaxGap = 3
  Latency = 1
  FreshFor = 4
INVARIANT BiasIsOfStillness
INVARIANT AttitudeIsRecent
PROPERTY ImuComesBack
