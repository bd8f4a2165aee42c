---------------------------- MODULE MCReconnect ----------------------------
(***************************************************************************)
(* An instance of Reconnect for TLC: the game runs before the console      *)
(* sleeps; afterwards it runs, another process does, or none is listed.    *)
(***************************************************************************)
EXTENDS Reconnect

Lists == [life \in 1..2 |-> IF life = 1 THEN {{"game"}} ELSE {{}, {"game"}, {"shell"}}]
=============================================================================
