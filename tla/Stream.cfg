SPECIFICATION Spec
CONSTANTS
  NumTypes = 2
  MaxSchema = 2
  MaxValues = 2
  MaxHeaders = 1
  MaxBatches = 3
  MaxInFlight = 1
  AuthMayFail = TRUE
  LimitMayHit = TRUE
CHECK_DEADLOCK FALSE
INVARIANTS
  TypeOK
  DictionariesInStep
  OkMeansDelivered
  GoodBatchAccepted
  HeadersInStep
  OneSubStreamPerType
