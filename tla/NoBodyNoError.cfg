SPECIFICATION Spec
CONSTANTS
  MaxRetries <- Negative
INVARIANTS
  BodyOrError
