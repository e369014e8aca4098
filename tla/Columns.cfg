SPECIFICATION Spec
CONSTANTS
  Null = Null
  Kinds = {"SPANS", "SPAN_EVENTS", "SPAN_LINKS", "LOGS", "METRICS",
           "NUMBER_DATA_POINTS", "SUMMARY_DATA_POINTS", "HISTOGRAM_DATA_POINTS",
           "EXP_HISTOGRAM_DATA_POINTS", "EXEMPLARS", "ATTRS", "RESOURCES", "SCOPES"}
  Rows <- MCRows
  Sizes <- MCSizes
CHECK_DEADLOCK FALSE
INVARIANTS
  TypeOK
  BatchesReadBack
