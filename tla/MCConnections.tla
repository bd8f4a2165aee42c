--------------------------- MODULE MCConnections ---------------------------
(* Instances of Connections for TLC: descriptors and threads are model     *)
(* values, interchangeable wherever no liveness is checked.                *)
EXTENDS Connections, TLC

Symmetry == Permutations(Fds) \cup Permutations(Workers)
=============================================================================
