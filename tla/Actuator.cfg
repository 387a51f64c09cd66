SPECIFICATION Spec
CONSTANTS
  Joint = {0, 1}
  TelemetryTimeout = 2
  MaxAge = 2
  Faults = {"txfull", "busoff", "hotplug", "rxloss"}
INVARIANT LatchConsistent
INVARIANT NoStaleForce
INVARIANT LatchedIsOwed
PROPERTY OfflineGainsNoForce
PROPERTY RestartNeverLatches
