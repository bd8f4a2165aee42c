---------------------------- MODULE Connections ----------------------------
(***************************************************************************)
(* The life of a client connection, from accept() to the last decrement of *)
(* g_active_connections, and the supervisor that recreates everything      *)
(* around it (src/core/daemon: acceptor.c, command_handler.c,              *)
(* daemon_main.c; the scan-slot table of scanner/flashscan/session.c).     *)
(*                                                                         *)
(* Three kinds of thread share five tables that nothing ever resets: the   *)
(* counter of active connections, the registry of client descriptors, the  *)
(* HELLO sessions, the owners of the scan slots and the one debugger       *)
(* session.  Each table is guarded by its own mutex, so one locked section *)
(* is one action, and everything between two of them can interleave.  A    *)
(* descriptor number is free again as soon as it is closed, and accept()   *)
(* may return it while the handler that closed it is still at work.        *)
(*                                                                         *)
(* The handler pool is used through what ConnectionService says of it: a   *)
(* FIFO whose entries are each served once.  The allowlist and the rate    *)
(* limit (module RateLimit) drop a connection before anything is counted.  *)
(***************************************************************************)
EXTENDS Integers, Sequences, FiniteSets, FiniteSetsExt

CONSTANTS Fds,             \* descriptor numbers accept() can return
          NoFd,            \* PAL_INVALID_SOCKET, and -1 in the scan slots
          Workers,         \* the handler threads of the pool
          Peers,           \* client addresses
          SessionIds,      \* identities a HELLO can carry (0 is the legacy one)
          Commands,        \* the commands clients send in this run
          MaxConnections,  \* cfg.max_connections
          MaxClients,      \* MEMDBG_TRACKED_CLIENTS
          MaxSessions,     \* MEMDBG_TRACKED_SESSIONS
          MaxScans,        \* FLASHSCAN_MAX_SESSIONS
          PreAuthBudget,   \* MEMDBG_PRE_AUTH_CMD_BUDGET
          Faults           \* calls that may fail in this run

AllCommands == {"hello", "ping", "goodbye", "attach", "detach", "scan",
                "shutdown"}

(* MEMDBG_TRACKED_CLIENTS and MEMDBG_TRACKED_SESSIONS are both 64. *)
ASSUME ConnectionsAssumption ==
  /\ NoFd \notin Fds
  /\ IsFiniteSet(Fds) /\ IsFiniteSet(Workers)
  /\ MaxConnections \in Nat /\ MaxClients \in Nat /\ MaxSessions \in Nat
  /\ MaxScans \in Nat /\ PreAuthBudget \in Nat
  /\ MaxClients <= MaxSessions
  /\ Commands \subseteq AllCommands
  /\ Faults \subseteq {"detach", "start"}

VARIABLES stop,        \* g_stop_requested
          supervisor,  \* program counter of memdbg_daemon_run
          listener,    \* the listening socket: "open", "invalid" or "closed"
          acceptor,    \* program counter and locals of acceptor_thread
          sock,        \* kernel state of each descriptor
          peer,        \* the address at the other end
          active,      \* g_active_connections
          g_clients,   \* the client registry
          queue,       \* connections handed to the pool, not yet taken
          handler,     \* program counter and locals of each handle_client
          g_sessions,  \* the HELLO sessions
          owner,       \* g_session_owner_fd of the scan slots
          attached     \* the debugger has a session

vars == <<stop, supervisor, listener, acceptor, sock, peer, active, g_clients,
          queue, handler, g_sessions, owner, attached>>

NoPeer == "none"
NoSession == [used |-> FALSE, id |-> 0, peer |-> NoPeer, connections |-> 0]
IdleHandler == [pc |-> "idle", fd |-> NoFd, cookie |-> 0,
                budget |-> PreAuthBudget]

(* Where a handler dispatches requests, and the steps of its way out. *)
Serving == {"loop", "reading"}
Leaving == {"check", "detach", "release", "hello", "client", "close", "count"}

AcceptorRecord ==
  [pc: {"none", "accept", "counted", "registered", "refused", "stopped",
        "lost"},
   fd: Fds \cup {NoFd}, post: 0 .. MaxConnections + 1]

HandlerRecord ==
  [pc: {"idle"} \cup Serving \cup Leaving, fd: Fds \cup {NoFd},
   cookie: 0 .. MaxSessions, budget: 0 .. PreAuthBudget]

SessionRecord ==
  [used: BOOLEAN, id: SessionIds \cup {0}, peer: Peers \cup {NoPeer},
   connections: 0 .. Cardinality(Workers)]

TypeOK ==
  /\ stop \in BOOLEAN
  /\ supervisor \in {"down", "starting", "serving", "joined", "draining",
                     "lost", "reopened", "cleanup"}
  /\ listener \in {"open", "invalid", "closed"}
  /\ acceptor \in AcceptorRecord
  /\ sock \in [Fds -> {"free", "open", "shut"}]
  /\ peer \in [Fds -> Peers \cup {NoPeer}]
  /\ active \in 0 .. MaxConnections + 1
  /\ g_clients \in [1 .. MaxClients -> Fds \cup {NoFd}]
  /\ queue \in Seq(Fds)
  /\ handler \in [Workers -> HandlerRecord]
  /\ g_sessions \in [1 .. MaxSessions -> SessionRecord]
  /\ owner \in [1 .. MaxScans -> Fds \cup {NoFd}]
  /\ attached \in BOOLEAN

(* The process before memdbg_daemon_run is entered. *)
Init ==
  /\ stop = FALSE
  /\ supervisor = "down"
  /\ listener = "closed"
  /\ acceptor = [pc |-> "none", fd |-> NoFd, post |-> 0]
  /\ sock = [f \in Fds |-> "free"]
  /\ peer = [f \in Fds |-> NoPeer]
  /\ active = 0
  /\ g_clients = [i \in 1 .. MaxClients |-> NoFd]
  /\ queue = <<>>
  /\ handler = [w \in Workers |-> IdleHandler]
  /\ g_sessions = [i \in 1 .. MaxSessions |-> NoSession]
  /\ owner = [i \in 1 .. MaxScans |-> NoFd]
  /\ attached = FALSE

-----------------------------------------------------------------------------
(* The tables *)

Slots(table, x) == {i \in DOMAIN table : table[i] = x}

(* The scans from index 0 all take the first slot that fits. *)
Put(table, old, new) == [table EXCEPT ![Min(Slots(table, old))] = new]

(* Slip: the first slot in use is given back, whoever has it. *)
UnregisteredSlip(table, f) ==
  IF Slots(table, f) = {} THEN table
  ELSE [table EXCEPT ![Min(DOMAIN table \ Slots(table, NoFd))] = NoFd]

(* acceptor_unregister_client, flashscan_release_client: the first slot    *)
(* that holds the descriptor, if any.                                      *)
Unregistered(table, f) ==
  IF Slots(table, f) = {} THEN table ELSE Put(table, f, NoFd)

(* pal_socket_close: the number may be handed out again at once. *)
Closed(f) == /\ sock' = [sock EXCEPT ![f] = "free"]
             /\ peer' = [peer EXCEPT ![f] = NoPeer]

-----------------------------------------------------------------------------
(* The acceptor thread *)

Acceptor(pc, f, post) ==
  acceptor' = [pc |-> pc, fd |-> f, post |-> post]

(* The loop's test, and the one after accept() fails. *)
AcceptorStops ==
  /\ acceptor.pc = "accept" /\ stop
  /\ Acceptor("stopped", NoFd, 0)
  /\ UNCHANGED <<stop, supervisor, listener, sock, peer, active, g_clients,
                 queue, handler, g_sessions, owner, attached>>

(* accept() fails with EBADF or ENOTSOCK: the listener is gone. *)
AcceptorLosesListener ==
  /\ acceptor.pc = "accept" /\ ~stop /\ listener = "invalid"
  /\ Acceptor("lost", NoFd, 0)
  /\ UNCHANGED <<stop, supervisor, listener, sock, peer, active, g_clients,
                 queue, handler, g_sessions, owner, attached>>

(* accept(), the admission tests, and the increment whose result decides. *)
Accept(f, p) ==
  /\ acceptor.pc = "accept" /\ ~stop /\ listener = "open"
  /\ sock[f] = "free"
  /\ sock' = [sock EXCEPT ![f] = "open"]
  /\ peer' = [peer EXCEPT ![f] = p]
  /\ active' = active + 1
  /\ Acceptor("counted", f, active + 1)
  /\ UNCHANGED <<stop, supervisor, listener, g_clients, queue, handler,
                 g_sessions, owner, attached>>

(* Slip: the dropped connection is closed and stays counted. *)
AcceptorDropsSlip ==
  /\ acceptor.pc \in {"counted", "refused"}
  /\ Closed(acceptor.fd)
  /\ Acceptor("accept", NoFd, 0)
  /\ UNCHANGED <<stop, supervisor, listener, active, g_clients, queue, handler,
                 g_sessions, owner, attached>>

(* Over max_connections, out of memory, the registry is full, or the pool  *)
(* refused the connection.                                                 *)
AcceptorDrops ==
  /\ acceptor.pc \in {"counted", "refused"}
  /\ active' = active - 1
  /\ Closed(acceptor.fd)
  /\ Acceptor("accept", NoFd, 0)
  /\ UNCHANGED <<stop, supervisor, listener, g_clients, queue, handler,
                 g_sessions, owner, attached>>

Admitted(post) == post <= MaxConnections

AcceptorRegisters ==
  /\ acceptor.pc = "counted" /\ Admitted(acceptor.post)
  /\ Slots(g_clients, NoFd) # {}
  /\ g_clients' = Put(g_clients, NoFd, acceptor.fd)
  /\ acceptor' = [acceptor EXCEPT !.pc = "registered"]
  /\ UNCHANGED <<stop, supervisor, listener, sock, peer, active, queue,
                 handler, g_sessions, owner, attached>>

AcceptorEnqueues ==
  /\ acceptor.pc = "registered"
  /\ queue' = Append(queue, acceptor.fd)
  /\ Acceptor("accept", NoFd, 0)
  /\ UNCHANGED <<stop, supervisor, listener, sock, peer, active, g_clients,
                 handler, g_sessions, owner, attached>>

(* memdbg_thread_pool_enqueue refuses (no memory for its node): leave the  *)
(* registry, then drop.                                                    *)
EnqueueFails ==
  /\ acceptor.pc = "registered"
  /\ g_clients' = Unregistered(g_clients, acceptor.fd)
  /\ acceptor' = [acceptor EXCEPT !.pc = "refused"]
  /\ UNCHANGED <<stop, supervisor, listener, sock, peer, active, queue,
                 handler, g_sessions, owner, attached>>

-----------------------------------------------------------------------------
(* handle_client: the request loop *)

Goto(w, pc) == handler' = [handler EXCEPT ![w].pc = pc]

(* A pool worker takes the oldest connection. *)
HandlerStarts(w) ==
  /\ handler[w].pc = "idle" /\ queue # <<>>
  /\ handler' = [handler EXCEPT ![w] =
                   [IdleHandler EXCEPT !.pc = "loop", !.fd = Head(queue)]]
  /\ queue' = Tail(queue)
  /\ UNCHANGED <<stop, supervisor, listener, acceptor, sock, peer, active,
                 g_clients, g_sessions, owner, attached>>

LoopStops(w) ==
  /\ handler[w].pc = "loop" /\ stop
  /\ Goto(w, "check")
  /\ UNCHANGED <<stop, supervisor, listener, acceptor, sock, peer, active,
                 g_clients, queue, g_sessions, owner, attached>>

(* Bytes arrive: from here to the end of the request the handler sits in   *)
(* blocking reads and writes that only the peer or a shutdown() ends.      *)
RequestArrives(w) ==
  /\ handler[w].pc = "loop" /\ ~stop
  /\ Goto(w, "reading")
  /\ UNCHANGED <<stop, supervisor, listener, acceptor, sock, peer, active,
                 g_clients, queue, g_sessions, owner, attached>>

(* The peer closed or reset, the idle timeout, a bad header, no memory for *)
(* the body, or a socket that acceptor_shutdown_clients shut down.         *)
ClientGone(w) ==
  /\ handler[w].pc \in Serving
  /\ Goto(w, "check")
  /\ UNCHANGED <<stop, supervisor, listener, acceptor, sock, peer, active,
                 g_clients, queue, g_sessions, owner, attached>>

(* Commands charged to the budget of a connection without a session. *)
Charged(w, c) ==
  handler[w].cookie = 0 /\ c \notin {"hello", "ping", "goodbye"}

(* The handler after command c: its budget and its next stop. *)
Dispatched(w, c) ==
  [handler[w] EXCEPT !.pc = IF c = "goodbye" THEN "check" ELSE "loop",
                     !.budget = IF Charged(w, c) THEN @ - 1 ELSE @]

(* The guards of every dispatch. *)
Dispatch(w, c) ==
  /\ c \in Commands
  /\ handler[w].pc = "reading"
  /\ Charged(w, c) => handler[w].budget > 0

(* The slot acceptor_register_hello_session finds, or none. *)
HelloSlots(id, p) ==
  LET same == {i \in DOMAIN g_sessions :
                 /\ g_sessions[i].used
                 /\ g_sessions[i].id = id /\ g_sessions[i].peer = p}
      free == {i \in DOMAIN g_sessions : ~g_sessions[i].used}
  IN  IF same # {} THEN {Min(same)}
      ELSE IF free # {} THEN {Min(free)} ELSE {}

(* Slip: a second HELLO on the same connection registers again. *)
MayRegisterSlip(w) == TRUE

MayRegister(w) == handler[w].cookie = 0

(* A first HELLO joins or opens the session of its identity and address;   *)
(* it stays without one when no slot is left, and also when getpeername    *)
(* fails because the peer has just reset the connection.                   *)
Hello(w, id) ==
  LET p == peer[handler[w].fd]
      after == Dispatched(w, "hello")
  IN  /\ Dispatch(w, "hello")
      /\ \/ /\ MayRegister(w)
            /\ \E i \in HelloSlots(id, p) :
                 /\ g_sessions' = [g_sessions EXCEPT ![i] =
                      [used |-> TRUE, id |-> id, peer |-> p,
                       connections |-> @.connections + 1]]
                 /\ handler' = [handler EXCEPT ![w] =
                      [after EXCEPT !.cookie = i]]
         \/ /\ handler' = [handler EXCEPT ![w] = after]
            /\ UNCHANGED g_sessions
      /\ UNCHANGED <<stop, supervisor, listener, acceptor, sock, peer, active,
                     g_clients, queue, owner, attached>>

(* PING, and GOODBYE after which the loop ends. *)
PingOrGoodbye(w, c) ==
  /\ c \in {"ping", "goodbye"} /\ Dispatch(w, c)
  /\ handler' = [handler EXCEPT ![w] = Dispatched(w, c)]
  /\ UNCHANGED <<stop, supervisor, listener, acceptor, sock, peer, active,
                 g_clients, queue, g_sessions, owner, attached>>

(* DEBUG_ATTACH and DEBUG_DETACH, which may fail (see module Debugger). *)
DebugCommand(w, c) ==
  /\ c \in {"attach", "detach"} /\ Dispatch(w, c)
  /\ attached' \in {attached, c = "attach"}
  /\ handler' = [handler EXCEPT ![w] = Dispatched(w, c)]
  /\ UNCHANGED <<stop, supervisor, listener, acceptor, sock, peer, active,
                 g_clients, queue, g_sessions, owner>>

(* Slip: with no free slot the first one changes hands. *)
ScanSlip(w) ==
  LET f == handler[w].fd IN
  /\ Dispatch(w, "scan")
  /\ owner' = IF Slots(owner, f) # {} THEN owner
              ELSE IF Slots(owner, NoFd) = {} THEN [owner EXCEPT ![1] = f]
              ELSE Put(owner, NoFd, f)
  /\ handler' = [handler EXCEPT ![w] = Dispatched(w, "scan")]
  /\ UNCHANGED <<stop, supervisor, listener, acceptor, sock, peer, active,
                 g_clients, queue, g_sessions, attached>>

(* A quick scan: flashscan_slot_for_client finds the client's slot or the  *)
(* first free one; without either the scan is refused.                     *)
Scan(w) ==
  LET f == handler[w].fd IN
  /\ Dispatch(w, "scan")
  /\ owner' = IF Slots(owner, f) # {} \/ Slots(owner, NoFd) = {} THEN owner
              ELSE Put(owner, NoFd, f)
  /\ handler' = [handler EXCEPT ![w] = Dispatched(w, "scan")]
  /\ UNCHANGED <<stop, supervisor, listener, acceptor, sock, peer, active,
                 g_clients, queue, g_sessions, attached>>

Shutdown(w) ==
  /\ Dispatch(w, "shutdown")
  /\ stop' = TRUE
  /\ handler' = [handler EXCEPT ![w] = Dispatched(w, "shutdown")]
  /\ UNCHANGED <<supervisor, listener, acceptor, sock, peer, active,
                 g_clients, queue, g_sessions, owner, attached>>

(* Slip: the early exit jumps past flashscan_release_client. *)
BudgetExhaustedSlip(w) ==
  /\ handler[w].pc = "reading" /\ handler[w].cookie = 0
  /\ handler[w].budget = 0
  /\ Goto(w, "hello")
  /\ UNCHANGED <<stop, supervisor, listener, acceptor, sock, peer, active,
                 g_clients, queue, g_sessions, owner, attached>>

(* A charged command with nothing left: cleanup without the detach check. *)
BudgetExhausted(w) ==
  /\ handler[w].pc = "reading" /\ handler[w].cookie = 0
  /\ handler[w].budget = 0
  /\ Goto(w, "release")
  /\ UNCHANGED <<stop, supervisor, listener, acceptor, sock, peer, active,
                 g_clients, queue, g_sessions, owner, attached>>

-----------------------------------------------------------------------------
(* handle_client: the way out *)

(* g_active_connections is read without a lock. *)
LastClientCheck(w) ==
  /\ handler[w].pc = "check"
  /\ Goto(w, IF active <= 1 THEN "detach" ELSE "release")
  /\ UNCHANGED <<stop, supervisor, listener, acceptor, sock, peer, active,
                 g_clients, queue, g_sessions, owner, attached>>

(* memdbg_debugger_is_attached and memdbg_debugger_detach. *)
LastClientDetach(w) ==
  /\ handler[w].pc = "detach"
  /\ attached' \in {FALSE} \cup (IF "detach" \in Faults THEN {attached} ELSE {})
  /\ Goto(w, "release")
  /\ UNCHANGED <<stop, supervisor, listener, acceptor, sock, peer, active,
                 g_clients, queue, g_sessions, owner>>

(* Slips: the descriptor is closed before the registry forgets it; the     *)
(* registry forgets it before the session is left.                         *)
AfterCloseEarlySlip(pc) ==
  [release |-> "hello", hello |-> "close", close |-> "client",
   client |-> "count"][pc]

AfterClientEarlySlip(pc) ==
  [release |-> "client", client |-> "hello", hello |-> "close",
   close |-> "count"][pc]

(* The order of the cleanup. *)
After(pc) ==
  [release |-> "hello", hello |-> "client", client |-> "close",
   close |-> "count"][pc]

ReleaseScan(w) ==
  /\ handler[w].pc = "release"
  /\ owner' = Unregistered(owner, handler[w].fd)
  /\ Goto(w, After("release"))
  /\ UNCHANGED <<stop, supervisor, listener, acceptor, sock, peer, active,
                 g_clients, queue, g_sessions, attached>>

(* Slip: the first socket that leaves clears the entry. *)
SessionLeftSlip(s) == NoSession

(* The last connection of a session frees its entry. *)
SessionLeft(s) ==
  IF s.connections = 1 THEN NoSession
  ELSE [s EXCEPT !.connections = @ - 1]

(* acceptor_unregister_hello_session *)
LeaveSession(w) ==
  LET c == handler[w].cookie IN
  /\ handler[w].pc = "hello"
  /\ g_sessions' =
       IF c # 0 /\ g_sessions[c].used /\ g_sessions[c].connections > 0
       THEN [g_sessions EXCEPT ![c] = SessionLeft(@)] ELSE g_sessions
  /\ Goto(w, After("hello"))
  /\ UNCHANGED <<stop, supervisor, listener, acceptor, sock, peer, active,
                 g_clients, queue, owner, attached>>

UnregisterClient(w) ==
  /\ handler[w].pc = "client"
  /\ g_clients' = Unregistered(g_clients, handler[w].fd)
  /\ Goto(w, After("client"))
  /\ UNCHANGED <<stop, supervisor, listener, acceptor, sock, peer, active,
                 queue, g_sessions, owner, attached>>

CloseClient(w) ==
  /\ handler[w].pc = "close"
  /\ Closed(handler[w].fd)
  /\ Goto(w, After("close"))
  /\ UNCHANGED <<stop, supervisor, listener, acceptor, active, g_clients,
                 queue, g_sessions, owner, attached>>

(* The connection is over and the worker goes back to the queue. *)
Uncount(w) ==
  /\ handler[w].pc = "count"
  /\ active' = active - 1
  /\ handler' = [handler EXCEPT ![w] = IdleHandler]
  /\ UNCHANGED <<stop, supervisor, listener, acceptor, sock, peer, g_clients,
                 queue, g_sessions, owner, attached>>

-----------------------------------------------------------------------------
(* memdbg_daemon_run: the supervisor *)

(* daemon_entry_try_acquire lets one invocation in; a second one returns.  *)
(* Entering clears the stop flag and the scan slots, opens the listener    *)
(* and goes to the supervisor loop; a failure on the way changes nothing   *)
(* that outlives it.                                                       *)
Enter ==
  /\ supervisor = "down"
  /\ supervisor' = "starting"
  /\ stop' = FALSE
  /\ listener' = "open"
  /\ owner' = [i \in DOMAIN owner |-> NoFd]
  /\ UNCHANGED <<acceptor, sock, peer, active, g_clients, queue, handler,
                 g_sessions, attached>>

(* The pool is created and the acceptor started; not after a stop request  *)
(* that came while the listener was being recreated.                       *)
StartAcceptor ==
  /\ \/ supervisor = "starting"
     \/ supervisor = "reopened" /\ ~stop
  /\ supervisor' = "serving"
  /\ Acceptor("accept", NoFd, 0)
  /\ UNCHANGED <<stop, listener, sock, peer, active, g_clients, queue,
                 handler, g_sessions, owner, attached>>

(* No pool (the flag is left alone), or no acceptor thread (a stop). *)
StartFails ==
  /\ "start" \in Faults
  /\ \/ supervisor = "starting"
     \/ supervisor = "reopened" /\ ~stop
  /\ supervisor' = "cleanup"
  /\ stop' \in {stop, TRUE}
  /\ UNCHANGED <<listener, acceptor, sock, peer, active, g_clients, queue,
                 handler, g_sessions, owner, attached>>

JoinAcceptor ==
  /\ supervisor = "serving" /\ acceptor.pc \in {"stopped", "lost"}
  /\ supervisor' = "joined"
  /\ UNCHANGED <<stop, listener, acceptor, sock, peer, active, g_clients,
                 queue, handler, g_sessions, owner, attached>>

(* Slip: the walk over the registry ends at its first empty entry. *)
RegisteredSlip ==
  {g_clients[i] : i \in {j \in DOMAIN g_clients :
                          \A k \in 1 .. j : g_clients[k] # NoFd}}

Registered == {g_clients[i] : i \in DOMAIN g_clients} \ {NoFd}

(* acceptor_shutdown_clients wakes every handler that sits in a read. *)
ShutdownClients ==
  /\ supervisor = "joined"
  /\ supervisor' = "draining"
  /\ sock' = [f \in Fds |-> IF f \in Registered THEN "shut" ELSE sock[f]]
  /\ UNCHANGED <<stop, listener, acceptor, peer, active, g_clients, queue,
                 handler, g_sessions, owner, attached>>

(* memdbg_thread_pool_shutdown returns once every taken connection was     *)
(* served; a lost listener leads to the retry loop, anything else out.     *)
PoolDrained ==
  /\ supervisor = "draining"
  /\ queue = <<>> /\ \A w \in Workers : handler[w].pc = "idle"
  /\ \/ /\ acceptor.pc = "lost"
        /\ supervisor' = "lost" /\ listener' = "closed"
     \/ /\ acceptor.pc = "stopped"
        /\ supervisor' = "cleanup" /\ UNCHANGED listener
  /\ Acceptor("none", NoFd, 0)
  /\ UNCHANGED <<stop, sock, peer, active, g_clients, queue, handler,
                 g_sessions, owner, attached>>

(* Slip: the retry loop gives up and leaves the daemon without listener. *)
ListenerReopensSlip ==
  /\ supervisor = "lost" /\ ~stop
  /\ supervisor' = "cleanup" /\ UNCHANGED listener
  /\ UNCHANGED <<stop, acceptor, sock, peer, active, g_clients, queue,
                 handler, g_sessions, owner, attached>>

(* pal_network_init and open_debug_listener succeed. *)
ListenerReopens ==
  /\ supervisor = "lost" /\ ~stop
  /\ supervisor' = "reopened" /\ listener' = "open"
  /\ UNCHANGED <<stop, acceptor, sock, peer, active, g_clients, queue,
                 handler, g_sessions, owner, attached>>

(* A stop request ends the retry loop, or is seen right after it. *)
RecoveryStops ==
  /\ supervisor \in {"lost", "reopened"} /\ stop
  /\ supervisor' = "cleanup"
  /\ UNCHANGED <<stop, listener, acceptor, sock, peer, active, g_clients,
                 queue, handler, g_sessions, owner, attached>>

Cleanup ==
  /\ supervisor = "cleanup"
  /\ supervisor' = "down" /\ listener' = "closed"
  /\ UNCHANGED <<stop, acceptor, sock, peer, active, g_clients, queue,
                 handler, g_sessions, owner, attached>>

(* SIGINT or SIGTERM, or a SHUTDOWN request of another service. *)
StopRequested ==
  /\ supervisor # "down" /\ ~stop
  /\ stop' = TRUE
  /\ UNCHANGED <<supervisor, listener, acceptor, sock, peer, active,
                 g_clients, queue, handler, g_sessions, owner, attached>>

(* The kernel takes the listening socket away (rest mode). *)
ListenerInvalidated ==
  /\ listener = "open"
  /\ listener' = "invalid"
  /\ UNCHANGED <<stop, supervisor, acceptor, sock, peer, active, g_clients,
                 queue, handler, g_sessions, owner, attached>>

-----------------------------------------------------------------------------
AcceptorNext ==
  \/ AcceptorStops \/ AcceptorLosesListener
  \/ AcceptorDrops \/ AcceptorRegisters
  \/ AcceptorEnqueues \/ EnqueueFails
  \/ \E f \in Fds, p \in Peers : Accept(f, p)

RequestNext(w) ==
  \/ \E id \in SessionIds : Hello(w, id)
  \/ \E c \in Commands : PingOrGoodbye(w, c) \/ DebugCommand(w, c)
  \/ Scan(w) \/ Shutdown(w) \/ BudgetExhausted(w)

LeaveNext(w) ==
  \/ LastClientCheck(w) \/ LastClientDetach(w)
  \/ ReleaseScan(w) \/ LeaveSession(w) \/ UnregisterClient(w)
  \/ CloseClient(w) \/ Uncount(w)

HandlerNext(w) ==
  \/ HandlerStarts(w) \/ LoopStops(w) \/ RequestArrives(w) \/ ClientGone(w)
  \/ RequestNext(w) \/ LeaveNext(w)

SupervisorNext ==
  \/ Enter \/ StartAcceptor \/ StartFails \/ JoinAcceptor
  \/ ShutdownClients \/ PoolDrained \/ ListenerReopens \/ RecoveryStops
  \/ Cleanup

Next ==
  \/ AcceptorNext
  \/ \E w \in Workers : HandlerNext(w)
  \/ SupervisorNext
  \/ StopRequested \/ ListenerInvalidated

Spec == Init /\ [][Next]_vars

(* Every thread keeps running; a handler also leaves its loop when it sees *)
(* the stop flag (it wakes every 250 ms) and when its own socket has been  *)
(* shut down.  Nothing is assumed of clients: one that sent half a request *)
(* may never send the rest.  The network eventually comes back if it is    *)
(* retried for ever.                                                       *)
FairSpec ==
  /\ Spec
  /\ WF_vars(AcceptorStops \/ AcceptorLosesListener)
  /\ WF_vars(AcceptorDrops \/ AcceptorRegisters)
  /\ WF_vars(AcceptorEnqueues \/ EnqueueFails)
  /\ \A w \in Workers :
       /\ WF_vars(HandlerStarts(w))
       /\ WF_vars(LoopStops(w))
       /\ WF_vars(ClientGone(w) /\ sock[handler[w].fd] = "shut")
       /\ WF_vars(LeaveNext(w))
  /\ WF_vars(StartAcceptor \/ StartFails)
  /\ WF_vars(JoinAcceptor \/ ShutdownClients \/ PoolDrained)
  /\ WF_vars(RecoveryStops \/ Cleanup)
  /\ SF_vars(ListenerReopens)

-----------------------------------------------------------------------------
(* Properties *)

(* The connections that were counted and not yet uncounted. *)
Counted ==
  (IF acceptor.pc \in {"counted", "registered", "refused"} THEN 1 ELSE 0)
  + Len(queue) + Cardinality({w \in Workers : handler[w].pc # "idle"})

(* g_active_connections is exact: it counts the connection in the          *)
(* acceptor's hands, the queued ones and the ones being handled, each      *)
(* once, through every refusal, early exit and restart of the supervisor   *)
(* (nothing ever resets it, so an error would cost a connection slot for   *)
(* the life of the process).  So max_connections bounds the connections    *)
(* that reached the pool, although the counter is raised before the limit  *)
(* is tested and lowered only after the socket is closed.                  *)
(* The variables also keep their types.                                    *)
CountExact ==
  /\ TypeOK
  /\ active = Counted
  /\ Len(queue) + Cardinality({w \in Workers : handler[w].pc # "idle"})
       <= MaxConnections

(* The descriptors of connections that shutdown() must reach: registered   *)
(* by the acceptor, queued, or in a handler that has not unregistered.     *)
OnRecord ==
  {queue[i] : i \in 1 .. Len(queue)}
  \cup {handler[w].fd : w \in {v \in Workers : handler[v].pc \in
           Serving \cup {"check", "detach", "release", "hello", "client"}}}
  \cup (IF acceptor.pc = "registered" THEN {acceptor.fd} ELSE {})

(* The registry holds exactly those, each once, and every one is open:     *)
(* acceptor_shutdown_clients never misses a live client and never shuts    *)
(* down a descriptor number that now belongs to someone else.              *)
RegistryExact ==
  /\ Registered = OnRecord
  /\ \A i, j \in DOMAIN g_clients :
       g_clients[i] = g_clients[j] /\ i # j => g_clients[i] = NoFd
  /\ \A f \in OnRecord : sock[f] # "free"

(* The connections of session entry i. *)
Members(i) ==
  {w \in Workers : handler[w].cookie = i
                   /\ handler[w].pc \in Serving \cup
                        {"check", "detach", "release", "hello"}}

(* An entry of the session table counts exactly the connections that hold  *)
(* its cookie, is in use exactly while there is one, and its address is    *)
(* theirs: the four sockets of one frontend share an entry, and the first  *)
(* of them to leave does not take it away from the others.  A connection   *)
(* that may still say HELLO always finds an entry for it: there are as     *)
(* many as registrable clients, and a connection leaves its session before *)
(* it leaves the registry.                                                 *)
SessionsExact ==
  /\ \A i \in DOMAIN g_sessions :
       /\ g_sessions[i].connections = Cardinality(Members(i))
       /\ g_sessions[i].used <=> Members(i) # {}
       /\ \A w \in Members(i) : g_sessions[i].peer = peer[handler[w].fd]
  /\ \A w \in Workers : handler[w].pc \in Serving /\ handler[w].cookie = 0 =>
       \A id \in SessionIds : HelloSlots(id, peer[handler[w].fd]) # {}

(* A scan slot belongs to a connection that is still being handled, and no *)
(* connection has two: the next client that gets the same descriptor       *)
(* number does not inherit the scan state of the last one.                 *)
OwnersLive ==
  \A i \in DOMAIN owner : owner[i] # NoFd =>
    /\ \E w \in Workers : handler[w].fd = owner[i]
         /\ handler[w].pc \in Serving \cup {"check", "detach", "release"}
    /\ \A j \in DOMAIN owner : owner[j] = owner[i] => i = j

(* No step of anyone else takes the scan slot of a connection that is      *)
(* being served (flashscan_release_client goes by the descriptor number).  *)
ScanSlotKept ==
  [][\A w \in Workers, i \in DOMAIN owner :
       /\ handler[w].pc \in Serving /\ handler'[w].pc \in Serving
       /\ owner[i] = handler[w].fd
       => owner'[i] = owner[i]]_vars

(* Whenever the supervisor starts a pool, in this invocation or a later    *)
(* one, everything the last pool used has been given back.                 *)
CleanRestart ==
  supervisor \in {"down", "starting", "lost", "reopened", "cleanup"} =>
    /\ active = 0
    /\ Registered = {}
    /\ \A i \in DOMAIN g_sessions : g_sessions[i] = NoSession
    /\ \A i \in DOMAIN owner : owner[i] = NoFd
    /\ \A f \in Fds : sock[f] = "free"

(* A stop request is carried out, although a client may have stopped in    *)
(* the middle of a request and its handler sits in a read without timeout. *)
StopCompletes == stop /\ supervisor # "down" ~> supervisor = "down"

(* A lost listener is replaced: the daemon accepts again, or is stopped.   *)
(* Every connection of the old pool has to end for that.                   *)
ListenerRecovers ==
  acceptor.pc = "lost" ~> acceptor.pc = "accept" \/ stop

(* Documented: the handler logs "detaching because the last client         *)
(* disconnected", so with no client left the debugger has no session.      *)
LastClientDetaches ==
  Counted = 0 => ~attached
=============================================================================
