SPECIFICATION FbSpec
CONSTANTS
  Joint = {0, 1}
  TelemetryTimeout = 2
  TopicTimeout = 2
  FbLatency = 1
  InFlight = 1
INVARIANT NoFakeFeedback
