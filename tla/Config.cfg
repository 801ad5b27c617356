SPECIFICATION Spec
CONSTANTS
  Environments <- MCEnvironments
  Absent = Absent
  Empty = Empty
  Junk = Junk
  Blank = Blank
CHECK_DEADLOCK FALSE
INVARIANTS
  ServesAsTold
  ServesProperly
  FailureExplained
