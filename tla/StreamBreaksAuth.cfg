SPECIFICATION Spec
CONSTANTS
  NumTypes = 1
  MaxSchema = 1
  MaxValues = 2
  MaxHeaders = 0
  MaxBatches = 3
  MaxInFlight = 2
  AuthMayFail = TRUE
  LimitMayHit = FALSE
CHECK_DEADLOCK FALSE
INVARIANTS
  OkAfterRejection
