------------------------- MODULE ConnectionService -------------------------
(***************************************************************************)
(* What the acceptor relies on when it hands a connection to the handler   *)
(* pool (memdbg_thread_pool_enqueue): the call either refuses the          *)
(* connection, which then stays the acceptor's to close, or takes it, and  *)
(* then exactly one handler runs it to its end.  A connection that was     *)
(* taken is never forgotten: the handler is the only place that gives back *)
(* its slot in g_active_connections and in the client registry.            *)
(***************************************************************************)

CONSTANT Conns          \* the connections the acceptor may hand over

VARIABLE fate           \* what has happened to each connection

Fates == {"new", "taken", "refused", "served"}

Init == fate = [c \in Conns |-> "new"]

Take(c)   == fate[c] = "new"   /\ fate' = [fate EXCEPT ![c] = "taken"]
Refuse(c) == fate[c] = "new"   /\ fate' = [fate EXCEPT ![c] = "refused"]
Serve(c)  == fate[c] = "taken" /\ fate' = [fate EXCEPT ![c] = "served"]

Next == \E c \in Conns : Take(c) \/ Refuse(c) \/ Serve(c)

Spec == Init /\ [][Next]_fate
=============================================================================
