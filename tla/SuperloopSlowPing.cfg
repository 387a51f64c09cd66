SPECIFICATION LoopSpec
CONSTANTS
  Joint = {0}
  TelemetryTimeout = 4
  MaxAge = 5
  Faults = {}
  CmdTimeout = 8
  SpinBudget = 4
  MaxCmdAge = 12
INVARIANT OnlyFaultsLatch
