SPECIFICATION FairSpec
CONSTANTS
  Signals <- MCSignals
  Exporter <- MCExporter
  Request = {r1}
  Config <- MCConfig
  Tables <- MCTables
  Codes = {"OK", "Unavailable", "InvalidArgument", "ResourceExhausted"}
  MaxTries = 2
  MaxGenerations = 2
CHECK_DEADLOCK FALSE
INVARIANTS
  TypeOK
  AnswersAreTrue
  RoutesByWeight
  StartedMeansServing
  PipelineOutlivesRequests
PROPERTIES
  StopCompletes
