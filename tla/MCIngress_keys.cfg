\* Two requests over two processes, with deaths, shutdowns, errors and lost leases.
CONSTANTS
  p1 = p1
  p2 = p2
  q1 = q1
  q2 = q2
  k1 = k1
  d1 = d1
  d2 = d2
  Proc <- TwoProcs
  Request <- TwoRequests
  Key <- OneKey
  NoKey = NoKey
  Payload <- TwoPayloads
  Incident <- Alarming
  Nobody = Nobody
  MaxRun = 2
  MaxFaults = 1
SPECIFICATION FairSpec
INVARIANTS
  TypeOK
  OneRunPerKey
  RepliesAgree
PROPERTIES
  FilteredIsFinal
  CreatedIsHandled
\* An idle system with no room for another run stops.
CHECK_DEADLOCK FALSE
