SPECIFICATION Spec
CONSTANTS
  Bytes = {b1, b2}
  RingSize = 4
  MaxRead = 2
PROPERTY ImplementsQueue
PROPERTY DropsOnlyWhenFull
PROPERTY CallsReturn
