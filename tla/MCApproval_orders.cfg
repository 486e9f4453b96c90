\* Two requests at two processes, and two faults.  Neither property speaks of an order
\* past Agreed, and Agreed never comes back, so TLC need not go on from there.
CONSTANTS
  p1 = p1
  p2 = p2
  q1 = q1
  q2 = q2
  Proc <- TwoProcs
  Request <- TwoRequests
  Home = p1
  MaxFaults = 2
SPECIFICATION Spec
SYMMETRY RequestSymmetry
CONSTRAINT Agreed
INVARIANTS
  TypeOK
PROPERTIES
  DecidedOnce
  OkMeansStored
CHECK_DEADLOCK FALSE
