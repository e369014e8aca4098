SPECIFICATION Spec
CONSTANTS
  Stream = {s1, s2}
  Request = {r1, r2}
  NumStreams = 1
  DisableDowngrade = FALSE
  EndpointRefuses = FALSE
  CredentialsFail = TRUE
  BatchId = {0, 1}
  StatusCode = {"OK", "OTHER"}
  NoStream = NoStream
  NoRequest = NoRequest
INVARIANTS
  WaitingStreamIsFindable
