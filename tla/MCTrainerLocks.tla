--------------------------- MODULE MCTrainerLocks ---------------------------
(***************************************************************************)
(* An instance of TrainerLocks for TLC: one process, which runs in both    *)
(* lives of the console.                                                   *)
(***************************************************************************)
EXTENDS TrainerLocks

Lists == [life \in 1..2 |-> {{"game"}}]
=============================================================================
