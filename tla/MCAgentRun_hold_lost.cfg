\* One fault between the hold and the end of the pass.
CONSTANTS
  w1 = w1
  w2 = w2
  q1 = q1
  q2 = q2
  Worker <- TwoWorkers
  Request <- NoRequests
  NoWorker = NoWorker
  RuleLevel = "A"
  MaxFaults = 1
  MaxRetries = 0
SPECIFICATION Spec
INVARIANTS
  HeldRunsWait
\* A settled run with no request open is the end of the story.
CHECK_DEADLOCK FALSE
