\* One run, two deaths, other runs of the scope storing alarms.
CONSTANTS
  Threshold = 2
  MaxHistory = 2
  Ranked <- ThreeRanked
  Binding <- TypeBound
  MaxCitations = 2
  MaxMemoryEvents = 2
  TokenBudget = 14
  Required = 4
  Tokens <- ItemTokens
  MaxCrashes = 2
SPECIFICATION Spec
INVARIANTS
  TypeOK
  BudgetsHold
  NeverBelowTheRules
  UncertainIsHeld
  RoundsCompareAlike
  TraceIsValid
\* A run that is held or released is the end of the story.
CHECK_DEADLOCK FALSE
