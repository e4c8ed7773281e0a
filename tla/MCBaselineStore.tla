--------------------------- MODULE MCBaselineStore ---------------------------
(* A long and a short report, so that one overwriting the other in place   *)
(* leaves a tail behind.                                                   *)
EXTENDS BaselineStore, TLC

CONSTANTS a, b, long, short

MCLength == long :> 2 @@ short :> 1
=============================================================================
