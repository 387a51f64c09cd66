SPECIFICATION Spec
CONSTANTS
  Joint = {0, 1, 9, 10}
  TxFifo = 5
  Tries = 2
  HomeTries = 2
  Wait = 2
  HomeWait = 1
INVARIANT TypeOK
INVARIANT BootLeavesInit
INVARIANT NoJointStarves
PROPERTY BootGainsNoForce
PROPERTY BootEnds
