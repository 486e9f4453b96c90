\* Two processes share the store; one of them serves operators, both may release.
CONSTANTS
  p1 = p1
  p2 = p2
  Proc <- Both
  OperatorProc <- OnlyOne
  ReleaseProc <- Both
  Run = {r1}
  NoOwner = NoOwner
  LeaseTime = 1
  MaxAttempt = 3
  MaxTime = 2
SPECIFICATION Spec
INVARIANTS
  TypeOK
  TokensAreUnique
  OnlyActiveRunsAreOwned
PROPERTIES
  StaleWriterNeverWins
  RefinesLifecycle
  AuditTrailIsTrue
