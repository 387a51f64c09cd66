SPECIFICATION Spec
CONSTANTS
  Bytes = {b1, b2}
  RingSize = 3
  MaxRead = 2
PROPERTIES CallsNeverBlock
