--------------------------- MODULE MCAnalysisQueue ---------------------------
(* Model-checking instance of AnalysisQueue: more jobs than places. *)
EXTENDS AnalysisQueue, TLC
=============================================================================
