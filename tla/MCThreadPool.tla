---------------------------- MODULE MCThreadPool ----------------------------
(* The instance of ThreadPool for TLC: threads and connections are model   *)
(* values; no symmetry, since the run checks liveness.                     *)
EXTENDS ThreadPool
=============================================================================
