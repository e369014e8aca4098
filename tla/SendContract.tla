---------------------------- MODULE SendContract ----------------------------
(***************************************************************************)
(* What Exporter.SendAndWait promises its callers, without streams: a call *)
(* is pending until it returns; its records are judged at most once, by    *)
(* the server or by the local encoder; and what it returns follows from    *)
(* the verdict, from the exporter having given up on Arrow, or from the    *)
(* caller's own context or credentials.                                    *)
(***************************************************************************)
CONSTANTS Request, StatusCode

VARIABLES
  call,     \* "idle", "pending" or "done"
  verdict,  \* what is known of the records: at most one code
  givenUp,  \* the exporter has fallen back to plain OTLP for good
  result    \* what the call returned

vars == <<call, verdict, givenUp, result>>

NoResult == [sent |-> FALSE, err |-> "none"]

Init ==
  /\ call = [r \in Request |-> "idle"]
  /\ verdict = [r \in Request |-> {}]
  /\ givenUp = FALSE
  /\ result = [r \in Request |-> NoResult]

Invoke(r) ==
  /\ call[r] = "idle"
  /\ call' = [call EXCEPT ![r] = "pending"]
  /\ UNCHANGED <<verdict, givenUp, result>>

\* One response may judge several calls; a caller that has stopped waiting
\* does not stop its records from being judged.
Judge ==
  /\ \E R \in SUBSET Request :
       /\ \A r \in R : call[r] # "idle" /\ verdict[r] = {}
       /\ \E code \in [R -> StatusCode \cup {"UNENCODABLE"}] :
            verdict' = [r \in Request |-> IF r \in R THEN {code[r]} ELSE verdict[r]]
  /\ UNCHANGED <<call, givenUp, result>>

GiveUp ==
  /\ givenUp' = TRUE
  /\ UNCHANGED <<call, verdict, result>>

Permitted(r) ==
  {[sent |-> TRUE, err |-> "nil"] : c \in verdict[r] \cap {"OK"}} \cup
  {[sent |-> TRUE, err |-> "retryable"] : c \in verdict[r] \cap {"UNAVAILABLE"}} \cup
  {[sent |-> TRUE, err |-> "permanent"] : c \in verdict[r] \ {"OK", "UNAVAILABLE"}} \cup
  {[sent |-> FALSE, err |-> "nil"] : c \in {TRUE} \cap {givenUp}} \cup
  {[sent |-> b, err |-> "ctx"] : b \in BOOLEAN} \cup
  {[sent |-> TRUE, err |-> "credentials"]}

\* A call whose records were accepted never returns (false, nil), which would
\* export them a second time over plain OTLP.
Return(r) ==
  /\ call[r] = "pending"
  /\ \E res \in Permitted(r) :
       /\ res = [sent |-> FALSE, err |-> "nil"] => verdict[r] = {}
       /\ result' = [result EXCEPT ![r] = res]
  /\ call' = [call EXCEPT ![r] = "done"]
  /\ UNCHANGED <<verdict, givenUp>>

Next == (\E r \in Request : Invoke(r) \/ Return(r)) \/ Judge \/ GiveUp

Spec == Init /\ [][Next]_vars
=============================================================================
