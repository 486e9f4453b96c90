\* Faults stop after one; workers, expiry and sweeps are fair.
CONSTANTS
  w1 = w1
  w2 = w2
  q1 = q1
  q2 = q2
  Worker <- TwoWorkers
  Request <- OneRequest
  NoWorker = NoWorker
  RuleLevel = "A"
  MaxFaults = 1
  MaxRetries = 1
SPECIFICATION FairSpec
PROPERTIES
  Converges
\* A settled run with no request open is the end of the story.
CHECK_DEADLOCK FALSE
