\* One key; the reclaiming thread may live in the process of the old one.
CONSTANTS
  p1 = p1
  p2 = p2
  w1 = w1
  w2 = w2
  w3 = w3
  k2 = k2
  Proc <- TwoProcs
  Worker <- ThreeWorkers
  ProcOf <- ThreeWorkersOf
  Key <- OneKey
  Budget <- OneBudget
  MaxEpoch = 3
SPECIFICATION Spec
INVARIANTS
  TypeOK
  OneThreadPerKey
  OutcomeIsRecorded
  SuccessIsReal
PROPERTIES
  RefinesLedger
