SPECIFICATION FairSpec
CONSTANTS
  MaxRetries = 60
INVARIANTS
  ReportsLatestAttempt
  RetriesOnlyTransient
  PausesGrow
PROPERTIES
  CallReturns
