--------------------------- MODULE MCOperatorMetrics ---------------------------
(***************************************************************************)
(* The instances of MCOperator, with the metrics.                          *)
(***************************************************************************)
EXTENDS MCOperator, OperatorMetrics
=============================================================================
