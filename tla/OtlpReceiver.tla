---------------------------- MODULE OtlpReceiver ----------------------------
(***************************************************************************)
(* The OTLP receiver (collector/gen/receiver/otlpreceiver), which all      *)
(* signals of a configuration share, and the wrapper that starts and stops *)
(* it once (collector/gen/internal/sharedcomponent).                       *)
(*                                                                         *)
(* A server is "none", "created", "serving", "broken" (it lost its         *)
(* listener), "closing" (it waits for the requests it has) or "stopped".   *)
(***************************************************************************)
EXTENDS Integers, FiniteSets

\* protocols of a configuration: grpc and http are booleans, arrow is "absent",
\* "disabled" or "enabled".
Configs ==
  [grpc : BOOLEAN, http : BOOLEAN, arrow : {"absent", "disabled", "enabled"},
   separate : BOOLEAN, mixed : BOOLEAN]

ValidConfig(cfg) ==
  /\ cfg.grpc \/ cfg.http
  /\ cfg.arrow = "enabled" => cfg.grpc

NewOtlpReceiver ==
  [started |-> FALSE, stopped |-> FALSE, timedOut |-> FALSE, consumers |-> {},
   grpc |-> "none", http |-> "none", services |-> {}, arrow |-> FALSE]

RegisterConsumer(r, signal) == [r EXCEPT !.consumers = @ \cup {signal}]

\* The services of the gRPC server.
Services(r, cfg) ==
  {<<"otlp", signal>> : signal \in r.consumers} \cup
  (IF cfg.arrow # "absent" /\ cfg.separate
   THEN {<<"arrow", signal>> : signal \in r.consumers} ELSE {}) \cup
  (IF cfg.arrow = "enabled" /\ cfg.mixed THEN {<<"arrow", "mixed">>} ELSE {})

\* What the gRPC part of Start may make of r: an error before there is a server,
\* from the authenticator, from the listener, or none.
GRPCFailures(r, cfg) ==
  {r, [r EXCEPT !.grpc = "created"],
   [r EXCEPT !.grpc = "created", !.arrow = (cfg.arrow = "enabled"),
             !.services = Services(r, cfg)]}

GRPCServing(r, cfg) ==
  [r EXCEPT !.grpc = "serving", !.arrow = (cfg.arrow = "enabled"),
            !.services = Services(r, cfg)]

HTTPFailures(r) == {r, [r EXCEPT !.http = "created"]}

HTTPServing(r) == [r EXCEPT !.http = "serving"]

\* Shutdown, step by step.  A server without requests stops at once; http.Server
\* may give up when its context ends; the gRPC server waits.
CloseServer(state) ==
  CASE state = "none" -> "none"
    [] state \in {"created", "stopped"} -> "stopped"
    [] OTHER -> "closing"

\* Mutant: an HTTP server that serves is left alone.
LeaveHTTP(r) == [r EXCEPT !.http = IF @ = "serving" THEN @ ELSE CloseServer(@)]

CloseHTTP(r) == [r EXCEPT !.http = CloseServer(@)]

HTTPDrained(r) == [r EXCEPT !.http = IF @ = "closing" THEN "stopped" ELSE @]

HTTPTimesOut(r) == [HTTPDrained(r) EXCEPT !.timedOut = TRUE]

CloseGRPC(r) == [r EXCEPT !.grpc = CloseServer(@)]

GRPCDrained(r) == [r EXCEPT !.grpc = IF @ = "closing" THEN "stopped" ELSE @]

\* shutdownWG.Wait: the goroutines that serve have ended.
ServersDone(r) == {r.grpc, r.http} \cap {"serving", "closing"} = {}

-----------------------------------------------------------------------------
(***************************************************************************)
(* Answers.                                                                *)
(***************************************************************************)

\* How reading an HTTP request may fail.
HTTPStatus == [method |-> "405", contentType |-> "415", body |-> "400", encoding |-> "400"]

\* The status of an error is written as it is unless it cannot be encoded.
WriteError(status) == {status, "500"}

\* The answer to a request with these errors from its consumer.
HTTPAnswers(errors) == IF errors = {} THEN {"200"} ELSE WriteError("500")

GRPCAnswer(errors) == IF errors = {} THEN "OK" ELSE "error"

ArrowAnswer(errors) ==
  IF errors = {} THEN "OK"
  ELSE IF "permanent" \in errors THEN "INVALID_ARGUMENT" ELSE "UNAVAILABLE"
=============================================================================
