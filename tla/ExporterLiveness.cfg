SPECIFICATION FairSpec
CONSTANTS
  Stream = {s1, s2}
  Request = {r1}
  NumStreams = 2
  DisableDowngrade = FALSE
  EndpointRefuses = TRUE
  CredentialsFail = FALSE
  BatchId = {0}
  StatusCode = {"OK"}
  NoStream = NoStream
  NoRequest = NoRequest
PROPERTIES
  CallReturns
  BrokenStreamFinishes
  ShutdownCompletes
