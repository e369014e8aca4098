-------------------------- MODULE ExporterContract --------------------------
(***************************************************************************)
(* The refinement mapping from ArrowExporter to SendContract: the          *)
(* exporter's machinery keeps the promise of Exporter.SendAndWait.         *)
(***************************************************************************)
EXTENDS ArrowExporter

\* A call is pending from its first step to its return, however often it is
\* retried on another stream.
callState ==
  [r \in Request |->
     IF rpc[r] \in {"choose", "holding", "await"} THEN "pending" ELSE rpc[r]]

Contract == INSTANCE SendContract WITH call <- callState, givenUp <- downgraded

\* Exporter.SendAndWait keeps its contract: what it returns follows from the
\* one verdict on its records, whatever streams, retries and shutdown do.
KeepsContract == Contract!Spec
=============================================================================
