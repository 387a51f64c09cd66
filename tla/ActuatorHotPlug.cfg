SPECIFICATION Spec
CONSTANTS
  Joint = {0}
  TelemetryTimeout = 2
  MaxAge = 3
  Faults = {"hotplug"}
INVARIANT ForceOnlyIfCalibrated
