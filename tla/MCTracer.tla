------------------------------ MODULE MCTracer ------------------------------
(* The instance of Tracer for TLC.  A behaviour is followed until two      *)
(* control requests overlap: every property is about what precedes that.   *)
EXTENDS Tracer

UntilCrossed == ~crossed
=============================================================================
