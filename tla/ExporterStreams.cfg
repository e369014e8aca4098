SPECIFICATION Spec
CONSTANTS
  Stream = {s1, s2, s3}
  Request = {r1, r2}
  NumStreams = 2
  DisableDowngrade = FALSE
  EndpointRefuses = TRUE
  CredentialsFail = FALSE
  BatchId = {0, 1}
  StatusCode = {"OK", "OTHER"}
  NoStream = NoStream
  NoRequest = NoRequest
SYMMETRY MCSymmetry
INVARIANTS
  TypeOK
  OneReplyPerCall
  ReadyNeverOverflows
  NoSendOnClosedChannel
  ReturnNeverBlocks
  WaitingStreamIsFindable
  NoStaleStreamBeforeShutdown
  ShutdownWaitsForStreams
