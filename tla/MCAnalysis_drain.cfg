\* Two pipelines over one slot, with lost leases, raising analyses and failed starts.
CONSTANTS
  p1 = p1
  p2 = p2
  Pipelines <- TwoPipelines
  MaxInflight = 1
  MaxFaults = 2
SPECIFICATION FairSpec
INVARIANTS
  TypeOK
  CallsAreBounded
  OnlyFinishedAnswersCount
  MissedLookIsReviewed
  DrainedIsQuiet
PROPERTIES
  NobodyWaitsForTheModel
\* When every pipeline has ended and shutdown has reported, a hung call is all there is.
CHECK_DEADLOCK FALSE
