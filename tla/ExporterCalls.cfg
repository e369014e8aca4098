SPECIFICATION Spec
CONSTANTS
  Stream = {s1, s2}
  Request = {r1, r2, r3}
  NumStreams = 1
  DisableDowngrade = FALSE
  EndpointRefuses = TRUE
  CredentialsFail = TRUE
  BatchId = {0, 1, 2}
  StatusCode = {"OK", "UNAVAILABLE", "INVALID_ARGUMENT", "OTHER"}
  NoStream = NoStream
  NoRequest = NoRequest
SYMMETRY MCSymmetry
INVARIANTS
  HandOffNeverBlocks
  SentBatchHasItsWaiter
PROPERTIES
  NoResendAfterVerdict
  KeepsContract
