SPECIFICATION Spec
CONSTANTS
  MaxUint16 = 3
  MaxUint32 = 5
  Signal = {"traces", "logs", "metrics"}
  Batches <- MCBatches
  MaxUpdates = 1
CHECK_DEADLOCK FALSE
INVARIANTS
  TypeOK
  RowsKeepAttributes
  
  
  OnlyEmptyKeysUnreadable
  FewEntitiesNeverPanic
