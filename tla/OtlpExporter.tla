---------------------------- MODULE OtlpExporter ----------------------------
(***************************************************************************)
(* The OTLP exporter (collector/gen/exporter/otlpexporter): it tries Arrow *)
(* first and falls back to plain OTLP, and tells the retry logic of the    *)
(* collector what to do about an error.  SendContract is what it may       *)
(* expect of the Arrow side.                                               *)
(***************************************************************************)
EXTENDS Integers

RetryableCodes ==
  {"Canceled", "DeadlineExceeded", "Aborted", "OutOfRange", "Unavailable", "DataLoss"}

\* The retry information of a status: absent, without or with a delay.
RetryInfos == {"absent", "zero", "delay"}

ShouldRetry(code, retryInfo) ==
  \/ code \in RetryableCodes
  \/ code = "ResourceExhausted" /\ retryInfo # "absent"

GetThrottleDuration(retryInfo) == retryInfo = "delay"

ProcessGRPCError(code, retryInfo) ==
  CASE code = "OK" -> "nil"
    [] code # "OK" /\ ~ShouldRetry(code, retryInfo) -> "permanent"
    [] OTHER -> IF GetThrottleDuration(retryInfo) THEN "throttle" ELSE "retry"

-----------------------------------------------------------------------------
(***************************************************************************)
(* An exporter: its connection, and its Arrow side ("none" until it is     *)
(* started or if it is disabled, "refused" after the downgrade).           *)
(***************************************************************************)

NewExporter == [conn |-> "none", arrow |-> "none"]

\* The connection is made first; credentials are only asked for Arrow.
StartExporter(e, arrowDisabled) ==
  [e EXCEPT !.conn = "open", !.arrow = IF arrowDisabled THEN "none" ELSE "up"]

\* No authenticator, or no credentials from it.
StartFailsLate(e) == [e EXCEPT !.conn = "open"]

ShutdownExporter(e) ==
  [conn  |-> IF e.conn = "none" THEN "none" ELSE "closed",
   arrow |-> IF e.arrow = "none" THEN "none" ELSE "stopped"]

\* A push: whether the batch was delivered, and what the push returns.
Outcome(delivered, result) == [delivered |-> delivered, result |-> result]

\* SendAndWait without (false, nil): the status of the batch, or the end of the
\* context, when the batch may have arrived all the same.
ArrowOutcomes(e) ==
  {Outcome(FALSE, "retry")} \cup
  (IF e.arrow = "up"
   THEN {Outcome(TRUE, "nil"), Outcome(FALSE, "permanent"), Outcome(TRUE, "retry")}
   ELSE {})

\* Export over a closed connection is cancelled.
ExportOutcomes(e, codes) ==
  {Outcome(code = "OK", ProcessGRPCError(code, info)) :
     code \in IF e.conn = "open" THEN codes ELSE {"Canceled"}, info \in RetryInfos}

\* SendAndWait returns (false, nil) after the downgrade, and during shutdown it
\* may (see ArrowExporter): then, and without Arrow, the push falls back.
PushOutcomes(e, codes) ==
  (IF e.arrow \in {"none", "refused"} THEN {} ELSE ArrowOutcomes(e)) \cup
  (IF e.arrow = "up" THEN {} ELSE ExportOutcomes(e, codes))
=============================================================================
