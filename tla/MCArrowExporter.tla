-------------------------- MODULE MCArrowExporter --------------------------
(***************************************************************************)
(* Symmetry of stream names and calls.                                     *)
(***************************************************************************)
EXTENDS ExporterContract, TLC

MCSymmetry == Permutations(Stream) \cup Permutations(Request)
=============================================================================
