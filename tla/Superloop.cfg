SPECIFICATION FairLoopSpec
CONSTANTS
  Joint = {0, 9}
  TelemetryTimeout = 2
  MaxAge = 2
  Faults = {"rxloss", "busoff"}
  CmdTimeout = 3
  SpinBudget = 1
  MaxCmdAge = 4
INVARIANT ForceIsTracked
INVARIANT BeliefMatchesDriver
INVARIANT WatchdogReleasesForce
INVARIANT NoForceWhileReconnecting
INVARIANT ForceIsBounded
PROPERTY WatchdogOnlyWhenLost
PROPERTY LatchedIsServed
