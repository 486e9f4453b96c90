\* Deaths, lost leases, retries and an approval request, in any order.
CONSTANTS
  w1 = w1
  w2 = w2
  q1 = q1
  q2 = q2
  Worker <- TwoWorkers
  Request <- OneRequest
  NoWorker = NoWorker
  RuleLevel = "B"
  MaxFaults = 2
  MaxRetries = 1
SPECIFICATION Spec
SYMMETRY SafetySymmetry
INVARIANTS
  TypeOK
  PlanCompleted
  OwnersAreNeverRefused
\* A settled run with no request open is the end of the story.
CHECK_DEADLOCK FALSE
