---------------------------- MODULE MCRateLimit ----------------------------
(* Instances of RateLimit for TLC; addresses are interchangeable. *)
EXTENDS RateLimit, TLC

Symmetry == Permutations(Peers)
=============================================================================
