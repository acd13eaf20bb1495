--------------------------- MODULE MCEvalHarness ---------------------------
(* EvalHarness with small bounds: captures enough for a late reply to be    *)
(* taken for that of the next, and events enough to use up the reads.       *)
EXTENDS EvalHarness
=============================================================================
