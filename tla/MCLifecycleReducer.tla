------------------------- MODULE MCLifecycleReducer -------------------------
(***************************************************************************)
(* Model checking LifecycleReducer: the attempt budgets 1 and 3, both      *)
(* policies of the code (bounded trial and daily mode are two of the four  *)
(* flag combinations), and generations that wrap after GenerationLimit.    *)
(***************************************************************************)
EXTENDS LifecycleReducer

MCAttemptLimits == {1, 3}
=============================================================================
