SPECIFICATION Spec
CONSTANTS
  Joint = {0, 3}
  TelemetryTimeout = 2
  MaxAge = 3
  Faults = {"busoff"}
PROPERTY BusOffLatchIsLocal
