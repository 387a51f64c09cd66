SPECIFICATION Spec
CONSTANTS
  SeqRange = 8
  CmdTimeout = 2
  SpinBudget = 1
  Latency = 1
  Restart = 5
  MaxSent = 10
  MaxProcess = 2
INVARIANT CountsAreExact
PROPERTY BaselineIsOfOneProcess
