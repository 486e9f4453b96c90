\* Two processes, one thread each, one tool with a retry.
CONSTANTS
  p1 = p1
  p2 = p2
  w1 = w1
  w2 = w2
  w3 = w3
  k2 = k2
  Proc <- TwoProcs
  Worker <- TwoWorkers
  ProcOf <- TwoWorkersOf
  Key <- OneKey
  Budget <- OneBudget
  MaxEpoch = 2
SPECIFICATION Spec
PROPERTY DoneIsNotRepeated
