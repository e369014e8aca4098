SPECIFICATION Spec
CONSTANTS
  MaxUint16 = 3
  MaxUint32 = 3
  Signal = {"traces", "logs", "metrics"}
  Batches <- MCBatches
  MaxUpdates = 0
CHECK_DEADLOCK FALSE
INVARIANT ArrivesAsSent
