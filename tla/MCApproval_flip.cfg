\* Operators who disagree, one after the other, on both processes; no fault.
CONSTANTS
  p1 = p1
  p2 = p2
  q1 = q1
  q2 = q2
  Proc <- TwoProcs
  Request <- OneRequest
  Home = p1
  MaxFaults = 0
SPECIFICATION Spec
PROPERTY DecisionIsFinal
CHECK_DEADLOCK FALSE
