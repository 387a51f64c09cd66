SPECIFICATION LoopSpec
CONSTANTS
  Joint = {0}
  TelemetryTimeout = 2
  MaxAge = 3
  Faults = {"txfull"}
  CmdTimeout = 4
  SpinBudget = 2
  MaxCmdAge = 7
INVARIANT WatchdogReleasesForce
