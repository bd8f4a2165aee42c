------------------------- MODULE ConnectionsProofs -------------------------
(***************************************************************************)
(* Proofs about Connections, for any number of descriptors, handler        *)
(* threads, clients, sessions and scan slots.                              *)
(***************************************************************************)
EXTENDS Connections, FiniteSetTheorems, WellFoundedInduction, TLAPS

(* The acceptor has a connection in its hands. *)
Busy == {"counted", "registered", "refused"}

(* How far a handler is on its way out: it may have a scan slot; it may be *)
(* in a session; the registry knows it; its descriptor is open.            *)
Inside == Serving \cup {"check", "detach", "release"}
InSession == Inside \cup {"hello"}
Known == InSession \cup {"client"}
Holding == Known \cup {"close"}

Taken == {w \in Workers : handler[w].pc # "idle"}

(* Outside "serving", "joined" and "draining" there is neither an acceptor *)
(* nor a busy pool, and from the join on the acceptor is at its end.       *)
PhaseInv ==
  /\ supervisor \in {"down", "starting", "lost", "reopened", "cleanup"} =>
       /\ acceptor.pc = "none"
       /\ queue = <<>>
       /\ \A w \in Workers : handler[w].pc = "idle"
  /\ supervisor \in {"joined", "draining"} =>
       acceptor.pc \in {"stopped", "lost"}

(* The result of the increment, on which the acceptor decides, bounds the  *)
(* counter until the decision is carried out: meanwhile others only        *)
(* decrement it.                                                           *)
CountInv ==
  /\ active = Counted
  /\ Len(queue) + Cardinality(Taken) <= MaxConnections
  /\ acceptor.pc \in Busy => active <= acceptor.post
  /\ acceptor.pc = "registered" => acceptor.post <= MaxConnections

(* An open descriptor is in one place: in the acceptor's hands, in the     *)
(* queue, or with the handler that has not closed it.                      *)
AcceptorPlace ==
  acceptor.pc \in Busy => acceptor.fd \in Fds /\ sock[acceptor.fd] # "free"

QueuePlace ==
  \A i \in 1 .. Len(queue) :
    /\ sock[queue[i]] # "free"
    /\ acceptor.pc \in Busy => queue[i] # acceptor.fd
    /\ \A j \in 1 .. Len(queue) : queue[i] = queue[j] => i = j

HandlerPlace ==
  \A w \in Workers : handler[w].pc \in Holding =>
    /\ handler[w].fd \in Fds /\ sock[handler[w].fd] # "free"
    /\ acceptor.pc \in Busy => handler[w].fd # acceptor.fd
    /\ \A i \in 1 .. Len(queue) : queue[i] # handler[w].fd
    /\ \A v \in Workers :
         handler[v].pc \in Holding /\ handler[v].fd = handler[w].fd => v = w

OpenPlace ==
  \A f \in Fds : sock[f] # "free" =>
    \/ acceptor.pc \in Busy /\ acceptor.fd = f
    \/ \E i \in 1 .. Len(queue) : queue[i] = f
    \/ \E w \in Workers : handler[w].pc \in Holding /\ handler[w].fd = f

PlaceInv == AcceptorPlace /\ QueuePlace /\ HandlerPlace /\ OpenPlace

(* OnRecord of Connections, member by member. *)
Recorded(f) ==
  \/ acceptor.pc = "registered" /\ acceptor.fd = f
  \/ \E i \in 1 .. Len(queue) : queue[i] = f
  \/ \E w \in Workers : handler[w].pc \in Known /\ handler[w].fd = f

RegistryInv ==
  /\ \A i \in 1 .. MaxClients : g_clients[i] # NoFd => Recorded(g_clients[i])
  /\ \A f \in Fds : Recorded(f) => \E i \in 1 .. MaxClients : g_clients[i] = f
  /\ \A i, j \in 1 .. MaxClients :
       g_clients[i] = g_clients[j] /\ g_clients[i] # NoFd => i = j

(* An unused entry is cleared, so that the next session starts from zero. *)
SessionInv ==
  \A i \in 1 .. MaxSessions :
    /\ g_sessions[i].connections = Cardinality(Members(i))
    /\ g_sessions[i].used <=> Members(i) # {}
    /\ ~g_sessions[i].used => g_sessions[i] = NoSession
    /\ \A w \in Members(i) : g_sessions[i].peer = peer[handler[w].fd]

OwnerInv ==
  \A i \in 1 .. MaxScans : owner[i] # NoFd =>
    /\ \E w \in Workers : handler[w].fd = owner[i] /\ handler[w].pc \in Inside
    /\ \A j \in 1 .. MaxScans : owner[j] = owner[i] => i = j

ConnInv == /\ TypeOK /\ PhaseInv /\ CountInv /\ PlaceInv
           /\ RegistryInv /\ SessionInv /\ OwnerInv

-----------------------------------------------------------------------------
(* The tables *)

(* What the scans from index 0 find is a slot that fits. *)
LEMMA MinIn ==
  ASSUME NEW S \in SUBSET Nat, S # {}
  PROVE  Min(S) \in S
  <1>1. PICK x \in S : \A y \in S : ~ (<<y, x>> \in OpToRel(<, Nat))
    BY NatLessThanWellFounded, WFMin, Zenon
  <1>2. \A y \in S : ~ (y < x)
    BY <1>1, Zenon DEF OpToRel
  <1>3. \A y \in S : x =< y
    BY <1>2
  <1> QED
    BY <1>3 DEF Min

(* Put writes one slot that held the old value. *)
LEMMA PutWrites ==
  ASSUME NEW n \in Nat, NEW table, DOMAIN table = 1 .. n, NEW old, NEW new,
         Slots(table, old) # {}
  PROVE  \E k \in 1 .. n : /\ table[k] = old
                           /\ Put(table, old, new) = [table EXCEPT ![k] = new]
  <1>1. Slots(table, old) \in SUBSET Nat
    BY DEF Slots
  <1>2. Min(Slots(table, old)) \in Slots(table, old)
    BY <1>1, MinIn
  <1> QED
    BY <1>2 DEF Slots, Put

(* Unregistered clears one slot of the descriptor, if it has one. *)
LEMMA UnregisteredWrites ==
  ASSUME NEW n \in Nat, NEW table, DOMAIN table = 1 .. n, NEW f
  PROVE  \/ /\ \A k \in 1 .. n : table[k] # f
            /\ Unregistered(table, f) = table
         \/ \E k \in 1 .. n : /\ table[k] = f
                              /\ Unregistered(table, f) = [table EXCEPT ![k] = NoFd]
  <1>1. CASE Slots(table, f) = {}
    BY <1>1 DEF Slots, Unregistered
  <1>2. CASE Slots(table, f) # {}
    <2>1. Unregistered(table, f) = Put(table, f, NoFd)
      BY <1>2 DEF Unregistered
    <2> QED
      BY <1>2, <2>1, PutWrites
  <1> QED
    BY <1>1, <1>2

-----------------------------------------------------------------------------
LEMMA InitConnInv == Init => ConnInv
  <1> SUFFICES ASSUME Init PROVE ConnInv
    OBVIOUS
  <1> USE ConnectionsAssumption
  <1>1. /\ \A w \in Workers : handler[w] = IdleHandler
        /\ IdleHandler.pc = "idle" /\ IdleHandler.cookie = 0
        /\ queue = <<>> /\ Len(queue) = 0
        /\ acceptor.pc = "none"
    BY DEF Init, IdleHandler
  <1>2. Cardinality(Workers) \in Nat
    BY FS_CardinalityType
  <1>3. TypeOK
    <2>1. IdleHandler \in HandlerRecord
      BY DEF IdleHandler, HandlerRecord
    <2>2. NoSession \in SessionRecord
      BY <1>2 DEF NoSession, SessionRecord
    <2>3. acceptor \in AcceptorRecord
      BY DEF Init, AcceptorRecord
    <2>4. /\ handler \in [Workers -> HandlerRecord]
          /\ g_sessions \in [1 .. MaxSessions -> SessionRecord]
      BY <2>1, <2>2 DEF Init
    <2>5. active \in 0 .. MaxConnections + 1
      BY DEF Init
    <2>6. queue \in Seq(Fds)
      BY DEF Init
    <2> QED
      BY <2>3, <2>4, <2>5, <2>6 DEF Init, TypeOK
  <1>4. PhaseInv
    BY <1>1 DEF Init, PhaseInv
  <1>5. CountInv
    <2>1. Taken = {}
      BY <1>1 DEF Taken
    <2>2. Cardinality(Taken) = 0
      BY <2>1, FS_EmptySet
    <2>3. active = 0
      BY DEF Init
    <2> QED
      BY <1>1, <2>2, <2>3 DEF CountInv, Counted, Taken, Busy
  <1>6. PlaceInv
    BY <1>1 DEF Init, PlaceInv, AcceptorPlace, QueuePlace, HandlerPlace,
                OpenPlace, Busy, Holding, Known, InSession, Inside, Serving
  <1>7. RegistryInv
    BY <1>1 DEF Init, RegistryInv, Recorded, Known, InSession, Inside, Serving
  <1>8. SessionInv
    <2>1. \A i \in 1 .. MaxSessions : Members(i) = {}
      BY <1>1 DEF Members, Serving
    <2>2. \A i \in 1 .. MaxSessions : Cardinality(Members(i)) = 0
      BY <2>1, FS_EmptySet
    <2>3. \A i \in 1 .. MaxSessions : g_sessions[i] = NoSession
      BY DEF Init
    <2>4. NoSession.connections = 0 /\ NoSession.used = FALSE
      BY DEF NoSession
    <2> QED
      BY <2>1, <2>2, <2>3, <2>4 DEF SessionInv
  <1>9. OwnerInv
    BY DEF Init, OwnerInv
  <1> QED
    BY <1>3, <1>4, <1>5, <1>6, <1>7, <1>8, <1>9 DEF ConnInv

-----------------------------------------------------------------------------
(* Steps that move nothing from one place to another *)

(* A handler that stays known to the registry, with its descriptor. *)
LEMMA KnownMove ==
  ASSUME ConnInv, NEW w \in Workers, NEW r \in HandlerRecord,
         handler[w].pc \in Known, r.pc \in Known, r.fd = handler[w].fd,
         handler' = [handler EXCEPT ![w] = r],
         UNCHANGED <<supervisor, acceptor, sock, active, g_clients, queue>>
  PROVE  /\ handler' \in [Workers -> HandlerRecord]
         /\ handler'[w] = r
         /\ \A v \in Workers : v # w => handler'[v] = handler[v]
         /\ \A v \in Workers : handler'[v].fd = handler[v].fd
         /\ PhaseInv' /\ CountInv' /\ PlaceInv' /\ RegistryInv'
  <1> USE DEF ConnInv
  <1>1. /\ \A v \in Workers : handler'[v] = IF v = w THEN r ELSE handler[v]
        /\ handler' \in [Workers -> HandlerRecord]
    BY DEF TypeOK
  <1>2. \A v \in Workers :
          /\ handler'[v].fd = handler[v].fd
          /\ \/ handler'[v].pc = handler[v].pc
             \/ handler[v].pc \in Known /\ handler'[v].pc \in Known
    BY <1>1
  <1>3. \A v \in Workers :
          /\ handler'[v].pc = "idle" <=> handler[v].pc = "idle"
          /\ handler'[v].pc \in Known <=> handler[v].pc \in Known
          /\ handler'[v].pc \in Holding <=> handler[v].pc \in Holding
    BY <1>2 DEF Holding, Known, InSession, Inside, Serving
  <1>4. PhaseInv'
    BY <1>3 DEF PhaseInv
  <1>5. CountInv'
    <2>1. Taken' = Taken
      BY <1>3 DEF Taken
    <2> QED
      BY <2>1 DEF CountInv, Counted, Taken
  <1>6. PlaceInv'
    <2>1. AcceptorPlace' /\ QueuePlace'
      BY DEF PlaceInv, AcceptorPlace, QueuePlace
    <2>2. HandlerPlace'
      BY <1>2, <1>3 DEF PlaceInv, HandlerPlace
    <2>3. OpenPlace'
      BY <1>2, <1>3 DEF PlaceInv, OpenPlace
    <2> QED
      BY <2>1, <2>2, <2>3 DEF PlaceInv
  <1>7. RegistryInv'
    BY <1>2, <1>3 DEF RegistryInv, Recorded
  <1> QED
    BY <1>1, <1>2, <1>4, <1>5, <1>6, <1>7

(* A handler that stays inside, with its descriptor and its session, and   *)
(* touches none of the tables.                                             *)
LEMMA InsideStep ==
  ASSUME ConnInv, NEW w \in Workers, NEW r \in HandlerRecord,
         handler[w].pc \in Inside, r.pc \in Inside,
         r.fd = handler[w].fd, r.cookie = handler[w].cookie,
         handler' = [handler EXCEPT ![w] = r],
         stop' \in BOOLEAN, attached' \in BOOLEAN,
         UNCHANGED <<supervisor, listener, acceptor, sock, peer, active,
                     g_clients, queue, g_sessions, owner>>
  PROVE  ConnInv'
  <1> USE DEF ConnInv
  <1>1. handler[w].pc \in Known /\ r.pc \in Known
    BY DEF Known, InSession
  <1>2. /\ handler' \in [Workers -> HandlerRecord]
        /\ handler'[w] = r
        /\ \A v \in Workers : v # w => handler'[v] = handler[v]
        /\ \A v \in Workers : handler'[v].fd = handler[v].fd
        /\ PhaseInv' /\ CountInv' /\ PlaceInv' /\ RegistryInv'
    BY <1>1, KnownMove
  <1>3. TypeOK'
    BY <1>2 DEF TypeOK
  <1>4. \A v \in Workers :
          /\ handler'[v].cookie = handler[v].cookie
          /\ handler'[v].pc \in Inside <=> handler[v].pc \in Inside
          /\ handler'[v].pc \in InSession <=> handler[v].pc \in InSession
    BY <1>2 DEF InSession
  <1>5. SessionInv'
    <2>1. \A i \in 1 .. MaxSessions : Members(i)' = Members(i)
      BY <1>4 DEF Members, InSession, Inside
    <2>2. \A i \in 1 .. MaxSessions : Members(i) \subseteq Workers
      BY DEF Members
    <2> QED
      BY <1>2, <2>1, <2>2 DEF SessionInv
  <1>6. OwnerInv'
    BY <1>2, <1>4 DEF OwnerInv
  <1> QED
    BY <1>2, <1>3, <1>5, <1>6

(* A step of the supervisor or of the acceptor's loop, with no connection  *)
(* in the acceptor's hands before or after it.                             *)
LEMMA QuietStep ==
  ASSUME ConnInv, TypeOK', PhaseInv',
         \/ acceptor' = acceptor
         \/ acceptor.pc \notin Busy /\ acceptor'.pc \notin Busy,
         \A f \in Fds : sock'[f] = "free" <=> sock[f] = "free",
         UNCHANGED <<peer, active, g_clients, queue, handler, g_sessions,
                     owner>>
  PROVE  ConnInv'
  <1> USE DEF ConnInv
  <1>1. /\ acceptor'.pc \in Busy <=> acceptor.pc \in Busy
        /\ acceptor'.pc = "registered" <=> acceptor.pc = "registered"
        /\ acceptor.pc \in Busy => acceptor' = acceptor
    BY DEF Busy
  <1>2. CountInv'
    BY <1>1 DEF CountInv, Counted, Taken, Busy
  <1>3. PlaceInv'
    <2>1. AcceptorPlace'
      BY <1>1 DEF PlaceInv, AcceptorPlace
    <2>2. QueuePlace'
      <3>1. \A i \in 1 .. Len(queue) : queue[i] \in Fds
        BY DEF TypeOK
      <3> QED
        BY <1>1, <3>1 DEF PlaceInv, QueuePlace
    <2>3. HandlerPlace'
      BY <1>1 DEF PlaceInv, HandlerPlace
    <2>4. OpenPlace'
      BY <1>1 DEF PlaceInv, OpenPlace
    <2> QED
      BY <2>1, <2>2, <2>3, <2>4 DEF PlaceInv
  <1>4. RegistryInv'
    <2>1. ASSUME NEW f PROVE Recorded(f)' <=> Recorded(f)
      BY <1>1 DEF Recorded, Busy
    <2> QED
      BY <2>1 DEF RegistryInv
  <1>5. SessionInv'
    BY DEF SessionInv, Members
  <1>6. OwnerInv'
    BY DEF OwnerInv
  <1> QED
    BY <1>2, <1>3, <1>4, <1>5, <1>6

(* Goto changes the program counter only. *)
LEMMA GotoRecord ==
  ASSUME TypeOK, NEW w \in Workers, NEW pc \in {"idle"} \cup Serving \cup Leaving,
         Goto(w, pc)
  PROVE  \E r \in HandlerRecord :
           /\ r.pc = pc /\ r.fd = handler[w].fd /\ r.cookie = handler[w].cookie
           /\ handler' = [handler EXCEPT ![w] = r]
  <1> DEFINE r == [handler[w] EXCEPT !.pc = pc]
  <1>1. handler[w] \in HandlerRecord
    BY DEF TypeOK
  <1>2. /\ r \in HandlerRecord
        /\ r.pc = pc /\ r.fd = handler[w].fd /\ r.cookie = handler[w].cookie
    BY <1>1 DEF HandlerRecord
  <1>3. handler' = [handler EXCEPT ![w] = r]
    BY DEF Goto
  <1> QED
    BY <1>2, <1>3

(* A command that its guards let through leaves the handler inside and is  *)
(* never charged to an empty budget.                                       *)
LEMMA DispatchedRecord ==
  ASSUME TypeOK, NEW w \in Workers, NEW c, Dispatch(w, c)
  PROVE  /\ Dispatched(w, c) \in HandlerRecord
         /\ Dispatched(w, c).pc \in {"loop", "check"}
         /\ Dispatched(w, c).pc \in Inside /\ handler[w].pc \in Inside
         /\ Dispatched(w, c).fd = handler[w].fd
         /\ Dispatched(w, c).cookie = handler[w].cookie
  <1>1. handler[w] \in HandlerRecord
    BY DEF TypeOK
  <1>2. handler[w].pc \in Inside
    BY DEF Dispatch, Inside, Serving
  <1> DEFINE b == IF Charged(w, c) THEN handler[w].budget - 1 ELSE handler[w].budget
             p == IF c = "goodbye" THEN "check" ELSE "loop"
  <1>3. b \in 0 .. PreAuthBudget
    BY <1>1, ConnectionsAssumption DEF Dispatch, HandlerRecord
  <1>4. p \in {"loop", "check"}
    OBVIOUS
  <1>5. Dispatched(w, c) = [handler[w] EXCEPT !.pc = p, !.budget = b]
    BY DEF Dispatched
  <1> HIDE DEF b, p
  <1> QED
    BY <1>1, <1>2, <1>3, <1>4, <1>5 DEF HandlerRecord, Inside, Serving, Leaving

(* The steps of a handler that stays inside. *)
LEMMA InsideActions ==
  ASSUME ConnInv, NEW w \in Workers,
         \/ LoopStops(w) \/ RequestArrives(w) \/ ClientGone(w)
         \/ \E c \in Commands : PingOrGoodbye(w, c) \/ DebugCommand(w, c)
         \/ Shutdown(w) \/ BudgetExhausted(w)
         \/ LastClientCheck(w) \/ LastClientDetach(w)
  PROVE  ConnInv'
  <1>0. TypeOK
    BY DEF ConnInv
  <1>1. ASSUME NEW pc \in {"loop", "reading", "check", "detach", "release"},
               Goto(w, pc), handler[w].pc \in Inside,
               stop' \in BOOLEAN, attached' \in BOOLEAN,
               UNCHANGED <<supervisor, listener, acceptor, sock, peer, active,
                           g_clients, queue, g_sessions, owner>>
        PROVE  ConnInv'
    <2>1. pc \in {"idle"} \cup Serving \cup Leaving /\ pc \in Inside
      BY DEF Serving, Leaving, Inside
    <2>2. PICK r \in HandlerRecord :
            /\ r.pc = pc /\ r.fd = handler[w].fd
            /\ r.cookie = handler[w].cookie
            /\ handler' = [handler EXCEPT ![w] = r]
      BY <1>0, <1>1, <2>1, GotoRecord
    <2> QED
      BY <1>1, <2>1, <2>2, InsideStep
  <1>2. ASSUME NEW c, Dispatch(w, c),
               handler' = [handler EXCEPT ![w] = Dispatched(w, c)],
               stop' \in BOOLEAN, attached' \in BOOLEAN,
               UNCHANGED <<supervisor, listener, acceptor, sock, peer, active,
                           g_clients, queue, g_sessions, owner>>
        PROVE  ConnInv'
    BY <1>0, <1>2, DispatchedRecord, InsideStep
  <1>3. CASE LoopStops(w) \/ ClientGone(w)
    BY <1>0, <1>1, <1>3 DEF LoopStops, ClientGone, TypeOK, Inside, Serving
  <1>4. CASE RequestArrives(w)
    BY <1>0, <1>1, <1>4 DEF RequestArrives, TypeOK, Inside, Serving
  <1>5. CASE \E c \in Commands : PingOrGoodbye(w, c)
    BY <1>0, <1>2, <1>5 DEF PingOrGoodbye, TypeOK
  <1>6. CASE \E c \in Commands : DebugCommand(w, c)
    <2>1. PICK c \in Commands : DebugCommand(w, c)
      BY <1>6
    <2>2. attached' \in BOOLEAN
      BY <1>0, <2>1 DEF DebugCommand, TypeOK
    <2> QED
      BY <1>0, <1>2, <2>1, <2>2 DEF DebugCommand, TypeOK
  <1>7. CASE Shutdown(w)
    BY <1>0, <1>2, <1>7 DEF Shutdown, TypeOK
  <1>8. CASE BudgetExhausted(w)
    BY <1>0, <1>1, <1>8 DEF BudgetExhausted, TypeOK, Inside, Serving
  <1>9. CASE LastClientCheck(w)
    BY <1>0, <1>1, <1>9 DEF LastClientCheck, TypeOK, Inside
  <1>10. CASE LastClientDetach(w)
    <2>1. attached' \in BOOLEAN
      BY <1>0, <1>10 DEF LastClientDetach, TypeOK
    <2> QED
      BY <1>0, <1>1, <1>10, <2>1 DEF LastClientDetach, TypeOK, Inside
  <1> QED
    BY <1>3, <1>4, <1>5, <1>6, <1>7, <1>8, <1>9, <1>10

(* The acceptor's ways out of its loop. *)
LEMMA AcceptorEnds ==
  ASSUME ConnInv, AcceptorStops \/ AcceptorLosesListener
  PROVE  ConnInv'
  <1> USE DEF ConnInv
  <1>1. /\ acceptor.pc = "accept" /\ acceptor'.pc \in {"stopped", "lost"}
        /\ acceptor' \in AcceptorRecord
        /\ UNCHANGED <<stop, supervisor, listener, sock, peer, active, g_clients,
                       queue, handler, g_sessions, owner, attached>>
    BY ConnectionsAssumption
       DEF AcceptorStops, AcceptorLosesListener, Acceptor, AcceptorRecord
  <1>2. TypeOK'
    BY <1>1 DEF TypeOK
  <1>3. PhaseInv'
    BY <1>1 DEF PhaseInv
  <1> QED
    BY <1>1, <1>2, <1>3, QuietStep DEF Busy

(* The supervisor's steps, and what comes from outside. *)
LEMMA SupervisorActions ==
  ASSUME ConnInv, SupervisorNext \/ StopRequested \/ ListenerInvalidated
  PROVE  ConnInv'
  <1> USE DEF ConnInv
  <1>1. CASE Enter
    <2>1. \A w \in Workers : handler[w].pc \notin Inside
      BY <1>1 DEF Enter, PhaseInv, Inside, Serving
    <2>2. \A i \in 1 .. MaxScans : owner[i] = NoFd
      BY <2>1 DEF OwnerInv
    <2>3. owner' = owner
      BY <1>1, <2>2 DEF Enter, TypeOK
    <2>4. TypeOK'
      BY <1>1, <2>3 DEF Enter, TypeOK
    <2>5. PhaseInv'
      BY <1>1 DEF Enter, PhaseInv
    <2> QED
      BY <1>1, <2>3, <2>4, <2>5, QuietStep DEF Enter
  <1>2. CASE StartAcceptor
    <2>1. acceptor.pc = "none" /\ acceptor'.pc = "accept"
          /\ acceptor' \in AcceptorRecord
      BY <1>2, ConnectionsAssumption
         DEF StartAcceptor, PhaseInv, Acceptor, AcceptorRecord
    <2>2. TypeOK'
      BY <1>2, <2>1 DEF StartAcceptor, TypeOK
    <2>3. PhaseInv'
      BY <1>2 DEF StartAcceptor, PhaseInv
    <2> QED
      BY <1>2, <2>1, <2>2, <2>3, QuietStep DEF StartAcceptor, Busy
  <1>3. CASE StartFails
    <2>1. TypeOK'
      BY <1>3 DEF StartFails, TypeOK
    <2>2. PhaseInv'
      BY <1>3 DEF StartFails, PhaseInv
    <2> QED
      BY <1>3, <2>1, <2>2, QuietStep DEF StartFails
  <1>4. CASE JoinAcceptor
    <2>1. TypeOK'
      BY <1>4 DEF JoinAcceptor, TypeOK
    <2>2. PhaseInv'
      BY <1>4 DEF JoinAcceptor, PhaseInv
    <2> QED
      BY <1>4, <2>1, <2>2, QuietStep DEF JoinAcceptor
  <1>5. CASE ShutdownClients
    <2>1. \A f \in Registered : f \in Fds /\ sock[f] # "free"
      <3>1. ASSUME NEW f \in Registered PROVE f \in Fds /\ sock[f] # "free"
        <4>1. PICK i \in 1 .. MaxClients : g_clients[i] = f /\ f # NoFd
          BY <3>1 DEF Registered, TypeOK
        <4>2. f \in Fds /\ Recorded(f)
          BY <4>1 DEF RegistryInv, TypeOK
        <4>3. CASE acceptor.pc = "registered" /\ acceptor.fd = f
          BY <4>2, <4>3 DEF PlaceInv, AcceptorPlace, Busy
        <4>4. CASE \E j \in 1 .. Len(queue) : queue[j] = f
          BY <4>2, <4>4 DEF PlaceInv, QueuePlace
        <4>5. CASE \E w \in Workers : handler[w].pc \in Known /\ handler[w].fd = f
          BY <4>2, <4>5 DEF PlaceInv, HandlerPlace, Holding
        <4> QED
          BY <4>2, <4>3, <4>4, <4>5 DEF Recorded
      <3> QED
        BY <3>1
    <2>2. \A f \in Fds : sock'[f] = "free" <=> sock[f] = "free"
      BY <1>5, <2>1 DEF ShutdownClients
    <2>3. TypeOK'
      BY <1>5 DEF ShutdownClients, TypeOK
    <2>4. PhaseInv'
      BY <1>5 DEF ShutdownClients, PhaseInv
    <2> QED
      BY <1>5, <2>2, <2>3, <2>4, QuietStep DEF ShutdownClients
  <1>6. CASE PoolDrained
    <2>1. acceptor.pc \notin Busy /\ acceptor'.pc = "none"
          /\ acceptor' \in AcceptorRecord
      BY <1>6, ConnectionsAssumption DEF PoolDrained, Acceptor, AcceptorRecord, Busy
    <2>2. TypeOK'
      BY <1>6, <2>1 DEF PoolDrained, TypeOK
    <2>3. PhaseInv'
      BY <1>6, <2>1 DEF PoolDrained, PhaseInv
    <2> QED
      BY <1>6, <2>1, <2>2, <2>3, QuietStep DEF PoolDrained, Busy
  <1>7. CASE ListenerReopens
    <2>1. TypeOK'
      BY <1>7 DEF ListenerReopens, TypeOK
    <2>2. PhaseInv'
      BY <1>7 DEF ListenerReopens, PhaseInv
    <2> QED
      BY <1>7, <2>1, <2>2, QuietStep DEF ListenerReopens
  <1>8. CASE RecoveryStops \/ Cleanup
    <2>1. TypeOK'
      BY <1>8 DEF RecoveryStops, Cleanup, TypeOK
    <2>2. PhaseInv'
      BY <1>8 DEF RecoveryStops, Cleanup, PhaseInv
    <2> QED
      BY <1>8, <2>1, <2>2, QuietStep DEF RecoveryStops, Cleanup
  <1>9. CASE StopRequested \/ ListenerInvalidated
    <2>1. TypeOK'
      BY <1>9 DEF StopRequested, ListenerInvalidated, TypeOK
    <2>2. PhaseInv'
      BY <1>9 DEF StopRequested, ListenerInvalidated, PhaseInv
    <2> QED
      BY <1>9, <2>1, <2>2, QuietStep DEF StopRequested, ListenerInvalidated
  <1> QED
    BY <1>1, <1>2, <1>3, <1>4, <1>5, <1>6, <1>7, <1>8, <1>9 DEF SupervisorNext

-----------------------------------------------------------------------------
(* The acceptor's connection *)

(* The number of handlers at work, and how it moves. *)
LEMMA TakenCount ==
  /\ IsFiniteSet(Taken) /\ Cardinality(Taken) \in Nat
  /\ Cardinality(Taken) <= Cardinality(Workers)
  /\ \A w \in Taken : Cardinality(Taken) > 0
  <1>1. Taken \in SUBSET Workers
    BY DEF Taken
  <1>2. IsFiniteSet(Taken) /\ Cardinality(Taken) <= Cardinality(Workers)
    BY <1>1, ConnectionsAssumption, FS_Subset
  <1>3. Cardinality(Taken) \in Nat
    BY <1>2, FS_CardinalityType
  <1>4. Taken # {} => Cardinality(Taken) # 0
    BY <1>2, FS_EmptySet
  <1> QED
    BY <1>2, <1>3, <1>4

LEMMA AcceptStep ==
  ASSUME ConnInv, NEW f \in Fds, NEW p \in Peers, Accept(f, p)
  PROVE  ConnInv'
  <1> USE DEF ConnInv
  <1>1. /\ acceptor.pc = "accept" /\ sock[f] = "free"
        /\ acceptor'.pc = "counted" /\ acceptor'.fd = f
        /\ acceptor'.post = active + 1
        /\ active' = active + 1
        /\ acceptor'.pc \in Busy /\ acceptor.pc \notin Busy
        /\ UNCHANGED <<supervisor, g_clients, queue, handler, g_sessions,
                       owner>>
    BY DEF Accept, Acceptor, Busy
  <1>2. Len(queue) \in Nat /\ active \in Nat
    BY ConnectionsAssumption DEF TypeOK
  <1>3. active = Len(queue) + Cardinality(Taken) /\ active <= MaxConnections
    BY <1>1, <1>2, TakenCount DEF CountInv, Counted, Taken
  <1>4. TypeOK'
    <2>1. active + 1 \in 0 .. MaxConnections + 1
      BY <1>2, <1>3, ConnectionsAssumption
    <2>2. acceptor' \in AcceptorRecord
      BY <2>1 DEF Accept, Acceptor, AcceptorRecord
    <2> QED
      BY <1>1, <2>1, <2>2 DEF TypeOK, Accept
  <1>5. PhaseInv'
    BY <1>1 DEF PhaseInv
  <1>6. CountInv'
    <2>1. Taken' = Taken
      BY <1>1 DEF Taken
    <2> QED
      BY <1>1, <1>2, <1>3, <2>1, TakenCount DEF CountInv, Counted, Taken, Busy
  <1>7. PlaceInv'
    <2>1. /\ sock'[f] = "open"
          /\ \A g \in Fds : g # f => sock'[g] = sock[g]
      BY DEF Accept, TypeOK
    <2>2. \A i \in 1 .. Len(queue) : queue[i] \in Fds /\ queue[i] # f
      BY <1>1 DEF TypeOK, PlaceInv, QueuePlace
    <2>3. \A w \in Workers : handler[w].pc \in Holding => handler[w].fd # f
      BY <1>1 DEF PlaceInv, HandlerPlace
    <2>4. AcceptorPlace'
      BY <1>1, <2>1 DEF AcceptorPlace
    <2>5. QueuePlace'
      BY <1>1, <2>1, <2>2 DEF PlaceInv, QueuePlace
    <2>6. HandlerPlace'
      BY <1>1, <2>1, <2>3 DEF PlaceInv, HandlerPlace
    <2>7. OpenPlace'
      BY <1>1, <2>1 DEF PlaceInv, OpenPlace
    <2> QED
      BY <2>4, <2>5, <2>6, <2>7 DEF PlaceInv
  <1>8. RegistryInv'
    BY <1>1 DEF RegistryInv, Recorded
  <1>9. SessionInv'
    <2>1. \A i \in 1 .. MaxSessions : Members(i)' = Members(i)
      BY <1>1 DEF Members
    <2>2. \A i \in 1 .. MaxSessions : \A w \in Members(i) :
            w \in Workers /\ handler[w].pc \in Holding
      BY DEF Members, Holding, Known, InSession, Inside
    <2>3. \A i \in 1 .. MaxSessions : \A w \in Members(i) :
            peer'[handler[w].fd] = peer[handler[w].fd]
      BY <1>1, <2>2 DEF Accept, TypeOK, PlaceInv, HandlerPlace
    <2> QED
      BY <1>1, <2>1, <2>3 DEF SessionInv
  <1>10. OwnerInv'
    BY <1>1 DEF OwnerInv
  <1> QED
    BY <1>4, <1>5, <1>6, <1>7, <1>8, <1>9, <1>10

(* The connection in the acceptor's hands is dropped. *)
LEMMA DropStep ==
  ASSUME ConnInv, AcceptorDrops
  PROVE  ConnInv'
  <1> USE DEF ConnInv
  <1> DEFINE f == acceptor.fd
  <1>1. /\ acceptor.pc \in {"counted", "refused"}
        /\ acceptor.pc \in Busy /\ acceptor'.pc \notin Busy
        /\ acceptor'.pc = "accept"
        /\ acceptor' \in AcceptorRecord
        /\ active' = active - 1
        /\ UNCHANGED <<stop, supervisor, listener, g_clients, queue, handler,
                       g_sessions, owner, attached>>
    BY ConnectionsAssumption DEF AcceptorDrops, Acceptor, AcceptorRecord, Busy
  <1>2. f \in Fds
    BY <1>1 DEF PlaceInv, AcceptorPlace
  <1>3. Len(queue) \in Nat /\ active \in Nat
    BY ConnectionsAssumption DEF TypeOK
  <1>4. active = 1 + Len(queue) + Cardinality(Taken)
    BY <1>1, <1>3, TakenCount DEF CountInv, Counted, Taken
  <1>5. /\ sock'[f] = "free"
        /\ \A g \in Fds : g # f => sock'[g] = sock[g] /\ peer'[g] = peer[g]
        /\ sock' \in [Fds -> {"free", "open", "shut"}]
        /\ peer' \in [Fds -> Peers \cup {NoPeer}]
    BY <1>2 DEF AcceptorDrops, Closed, TypeOK
  <1>6. TypeOK'
    <2>1. active' \in 0 .. MaxConnections + 1
      BY <1>1, <1>3, <1>4, TakenCount, ConnectionsAssumption DEF TypeOK
    <2> QED
      BY <1>1, <1>5, <2>1 DEF TypeOK
  <1>7. PhaseInv'
    BY <1>1 DEF PhaseInv
  <1>8. CountInv'
    <2>1. Taken' = Taken
      BY <1>1 DEF Taken
    <2> QED
      BY <1>1, <1>3, <1>4, <2>1, TakenCount DEF CountInv, Counted, Taken, Busy
  <1>9. PlaceInv'
    <2>1. \A i \in 1 .. Len(queue) : queue[i] \in Fds /\ queue[i] # f
      BY <1>1 DEF TypeOK, PlaceInv, QueuePlace
    <2>2. \A w \in Workers : handler[w].pc \in Holding => handler[w].fd # f
      BY <1>1 DEF PlaceInv, HandlerPlace
    <2> HIDE DEF f
    <2>3. AcceptorPlace'
      BY <1>1 DEF AcceptorPlace
    <2>4. QueuePlace'
      BY <1>1, <1>5, <2>1 DEF PlaceInv, QueuePlace
    <2>5. HandlerPlace'
      BY <1>1, <1>5, <2>2 DEF PlaceInv, HandlerPlace
    <2>6. OpenPlace'
      BY <1>1, <1>5 DEF PlaceInv, OpenPlace, f
    <2> QED
      BY <2>3, <2>4, <2>5, <2>6 DEF PlaceInv
  <1>10. RegistryInv'
    BY <1>1 DEF RegistryInv, Recorded
  <1>11. SessionInv'
    <2>1. \A i \in 1 .. MaxSessions : Members(i)' = Members(i)
      BY <1>1 DEF Members
    <2>2. \A i \in 1 .. MaxSessions : \A w \in Members(i) :
            w \in Workers /\ handler[w].pc \in Holding
      BY DEF Members, Holding, Known, InSession, Inside
    <2>3. \A i \in 1 .. MaxSessions : \A w \in Members(i) :
            peer'[handler[w].fd] = peer[handler[w].fd]
      BY <1>1, <1>5, <2>2 DEF PlaceInv, HandlerPlace
    <2> QED
      BY <1>1, <2>1, <2>3 DEF SessionInv
  <1>12. OwnerInv'
    BY <1>1 DEF OwnerInv
  <1> QED
    BY <1>6, <1>7, <1>8, <1>9, <1>10, <1>11, <1>12

(* Only the acceptor's record and the registry change. *)
LEMMA RegistryStep ==
  ASSUME ConnInv, AcceptorRegisters \/ EnqueueFails
  PROVE  ConnInv'
  <1> USE DEF ConnInv
  <1>0. PICK f : f = acceptor.fd
    OBVIOUS
  <1>1. /\ acceptor.pc \in Busy /\ acceptor'.pc \in Busy
        /\ acceptor'.fd = f /\ acceptor'.post = acceptor.post
        /\ acceptor' \in AcceptorRecord
        /\ UNCHANGED <<stop, supervisor, listener, sock, peer, active, queue,
                       handler, g_sessions, owner, attached>>
    BY <1>0 DEF AcceptorRegisters, EnqueueFails, TypeOK, AcceptorRecord, Busy
  <1>2. f \in Fds /\ f # NoFd
    BY <1>0, <1>1, ConnectionsAssumption DEF PlaceInv, AcceptorPlace
  <1>3. /\ ~ \E i \in 1 .. Len(queue) : queue[i] = f
        /\ ~ \E w \in Workers : handler[w].pc \in Known /\ handler[w].fd = f
    BY <1>0, <1>1 DEF PlaceInv, QueuePlace, HandlerPlace, Holding
  <1>4. \A g : g # f => (Recorded(g)' <=> Recorded(g))
    BY <1>0, <1>1 DEF Recorded
  <1>5. g_clients' \in [1 .. MaxClients -> Fds \cup {NoFd}] /\ RegistryInv'
    <2>1. CASE AcceptorRegisters
      <3>1. acceptor.pc = "counted" /\ acceptor'.pc = "registered"
        BY <2>1 DEF AcceptorRegisters, TypeOK, AcceptorRecord
      <3>2. ~Recorded(f) /\ Recorded(f)'
        BY <1>0, <1>1, <1>3, <3>1 DEF Recorded
      <3>3. PICK k \in 1 .. MaxClients :
              g_clients[k] = NoFd /\ g_clients' = [g_clients EXCEPT ![k] = f]
        <4>1. /\ DOMAIN g_clients = 1 .. MaxClients
              /\ MaxClients \in Nat
              /\ Slots(g_clients, NoFd) # {}
              /\ g_clients' = Put(g_clients, NoFd, f)
          BY <1>0, <2>1, ConnectionsAssumption DEF AcceptorRegisters, TypeOK
        <4> QED
          BY ONLY <4>1, PutWrites
      <3>4. /\ g_clients' \in [1 .. MaxClients -> Fds \cup {NoFd}]
            /\ g_clients'[k] = f
            /\ \A i \in 1 .. MaxClients : i # k => g_clients'[i] = g_clients[i]
        BY <1>2, <3>3 DEF TypeOK
      <3>5. \A i \in 1 .. MaxClients : g_clients[i] # f
        BY <1>2, <3>2 DEF RegistryInv
      <3>6. \A i \in 1 .. MaxClients :
              g_clients'[i] # NoFd => Recorded(g_clients[i])'
        BY <1>4, <3>2, <3>4, <3>5 DEF RegistryInv
      <3>7. \A g \in Fds : Recorded(g)' =>
              \E i \in 1 .. MaxClients : g_clients'[i] = g
        <4>1. ASSUME NEW g \in Fds, g # f, Recorded(g)'
              PROVE  \E i \in 1 .. MaxClients : g_clients'[i] = g
          BY <1>4, <3>3, <3>4, <4>1, ConnectionsAssumption DEF RegistryInv
        <4> QED
          BY <3>4, <4>1
      <3>8. \A i, j \in 1 .. MaxClients :
              g_clients'[i] = g_clients'[j] /\ g_clients'[i] # NoFd => i = j
        BY <3>4, <3>5 DEF RegistryInv
      <3> QED
        BY <3>4, <3>6, <3>7, <3>8 DEF RegistryInv
    <2>2. CASE EnqueueFails
      <3>1. acceptor.pc = "registered" /\ acceptor'.pc = "refused"
        BY <2>2 DEF EnqueueFails, TypeOK, AcceptorRecord
      <3>2. Recorded(f) /\ ~Recorded(f)'
        BY <1>0, <1>1, <1>3, <3>1 DEF Recorded
      <3>3. PICK k \in 1 .. MaxClients : g_clients[k] = f
        BY <1>2, <3>2 DEF RegistryInv
      <3>4. \E i \in 1 .. MaxClients :
              g_clients[i] = f /\ g_clients' = [g_clients EXCEPT ![i] = NoFd]
        <4>1. /\ DOMAIN g_clients = 1 .. MaxClients
              /\ MaxClients \in Nat
              /\ g_clients' = Unregistered(g_clients, f)
          BY <1>0, <2>2, ConnectionsAssumption DEF EnqueueFails, TypeOK
        <4> QED
          BY ONLY <3>3, <4>1, UnregisteredWrites
      <3>5. g_clients' = [g_clients EXCEPT ![k] = NoFd]
        BY <1>2, <3>3, <3>4 DEF RegistryInv
      <3>6. /\ g_clients' \in [1 .. MaxClients -> Fds \cup {NoFd}]
            /\ g_clients'[k] = NoFd
            /\ \A i \in 1 .. MaxClients : i # k => g_clients'[i] = g_clients[i]
        BY <3>5 DEF TypeOK
      <3> QED
        BY <1>2, <1>4, <3>2, <3>3, <3>6 DEF RegistryInv
    <2> QED
      BY <2>1, <2>2
  <1>6. TypeOK'
    BY <1>1, <1>5 DEF TypeOK
  <1>7. PhaseInv'
    BY <1>1 DEF PhaseInv, Busy
  <1>8. CountInv'
    <2>1. Taken' = Taken
      BY <1>1 DEF Taken
    <2>2. acceptor'.pc = "registered" => acceptor.post <= MaxConnections
      BY DEF AcceptorRegisters, EnqueueFails, Admitted, TypeOK, AcceptorRecord
    <2> QED
      BY <1>1, <2>1, <2>2 DEF CountInv, Counted, Taken, Busy
  <1>9. PlaceInv'
    BY <1>0, <1>1 DEF PlaceInv, AcceptorPlace, QueuePlace, HandlerPlace, OpenPlace
  <1>10. SessionInv'
    BY <1>1 DEF SessionInv, Members
  <1>11. OwnerInv'
    BY <1>1 DEF OwnerInv
  <1> QED
    BY <1>5, <1>6, <1>7, <1>8, <1>9, <1>10, <1>11

-----------------------------------------------------------------------------
(* Through the queue *)

LEMMA EnqueueStep ==
  ASSUME ConnInv, AcceptorEnqueues
  PROVE  ConnInv'
  <1> USE DEF ConnInv
  <1>0. PICK f : f = acceptor.fd
    OBVIOUS
  <1>1. /\ acceptor.pc = "registered" /\ acceptor'.pc = "accept"
        /\ acceptor.pc \in Busy /\ acceptor'.pc \notin Busy
        /\ acceptor' \in AcceptorRecord
        /\ UNCHANGED <<stop, supervisor, listener, sock, peer, active,
                       g_clients, handler, g_sessions, owner, attached>>
    BY ConnectionsAssumption DEF AcceptorEnqueues, Acceptor, AcceptorRecord, Busy
  <1>2. f \in Fds /\ sock[f] # "free"
    BY <1>0, <1>1 DEF PlaceInv, AcceptorPlace
  <1>3. /\ queue' \in Seq(Fds) /\ Len(queue) \in Nat
        /\ Len(queue') = Len(queue) + 1
        /\ \A i \in 1 .. Len(queue) : queue'[i] = queue[i]
        /\ queue'[Len(queue) + 1] = f
    BY <1>0, <1>2 DEF AcceptorEnqueues, TypeOK
  <1>4. \A g : (\E i \in 1 .. Len(queue') : queue'[i] = g)
               <=> g = f \/ \E i \in 1 .. Len(queue) : queue[i] = g
    <2>1. 1 .. Len(queue') = (1 .. Len(queue)) \cup {Len(queue) + 1}
      BY <1>3
    <2> QED
      BY <1>3, <2>1
  <1>5. TypeOK'
    BY <1>1, <1>3 DEF TypeOK
  <1>6. PhaseInv'
    BY <1>1 DEF PhaseInv
  <1>7. CountInv'
    <2>1. Taken' = Taken
      BY <1>1 DEF Taken
    <2>2. active \in Nat
      BY ConnectionsAssumption DEF TypeOK
    <2>3. acceptor.post \in Nat
      BY ConnectionsAssumption DEF TypeOK, AcceptorRecord
    <2> QED
      BY <1>1, <1>3, <2>1, <2>2, <2>3, TakenCount, ConnectionsAssumption
         DEF CountInv, Counted, Taken, Busy
  <1>8. PlaceInv'
    <2>1. \A i \in 1 .. Len(queue) : queue[i] # f
      BY <1>0, <1>1 DEF PlaceInv, QueuePlace
    <2>2. \A w \in Workers : handler[w].pc \in Holding => handler[w].fd # f
      BY <1>0, <1>1 DEF PlaceInv, HandlerPlace
    <2>3. AcceptorPlace'
      BY <1>1 DEF AcceptorPlace
    <2>4. QueuePlace'
      <3>1. ASSUME NEW i \in 1 .. Len(queue')
            PROVE  /\ sock[queue'[i]] # "free"
                   /\ \A j \in 1 .. Len(queue') : queue'[i] = queue'[j] => i = j
        <4>1. i \in 1 .. Len(queue) \/ i = Len(queue) + 1
          BY <1>3
        <4> QED
          BY <1>2, <1>3, <2>1, <4>1 DEF PlaceInv, QueuePlace
      <3> QED
        BY <1>1, <3>1 DEF QueuePlace
    <2>5. HandlerPlace'
      BY <1>1, <1>4, <2>2 DEF PlaceInv, HandlerPlace
    <2>6. OpenPlace'
      BY <1>0, <1>1, <1>4 DEF PlaceInv, OpenPlace
    <2> QED
      BY <2>3, <2>4, <2>5, <2>6 DEF PlaceInv
  <1>9. RegistryInv'
    <2>1. \A g : Recorded(g)' <=> Recorded(g)
      BY <1>0, <1>1, <1>4 DEF Recorded
    <2> QED
      BY <1>1, <2>1 DEF RegistryInv
  <1>10. SessionInv'
    BY <1>1 DEF SessionInv, Members
  <1>11. OwnerInv'
    BY <1>1 DEF OwnerInv
  <1> QED
    BY <1>5, <1>6, <1>7, <1>8, <1>9, <1>10, <1>11

LEMMA StartStep ==
  ASSUME ConnInv, NEW w \in Workers, HandlerStarts(w)
  PROVE  ConnInv'
  <1> USE DEF ConnInv
  <1>0. PICK f : f = Head(queue)
    OBVIOUS
  <1> DEFINE r == [IdleHandler EXCEPT !.pc = "loop", !.fd = f]
  <1>1. /\ handler[w].pc = "idle" /\ queue # <<>>
        /\ UNCHANGED <<stop, supervisor, listener, acceptor, sock, peer,
                       active, g_clients, g_sessions, owner, attached>>
    BY DEF HandlerStarts
  <1>2. /\ queue \in Seq(Fds) /\ Len(queue) \in Nat /\ Len(queue) > 0
        /\ f = queue[1] /\ f \in Fds
        /\ queue' \in Seq(Fds) /\ Len(queue') = Len(queue) - 1
        /\ \A i \in 1 .. Len(queue') : queue'[i] = queue[i + 1]
    BY <1>0, <1>1 DEF HandlerStarts, TypeOK
  <1>3. /\ r \in HandlerRecord
        /\ r.pc = "loop" /\ r.fd = f /\ r.cookie = 0
    <2>1. IdleHandler \in HandlerRecord /\ IdleHandler.cookie = 0
      BY ConnectionsAssumption DEF IdleHandler, HandlerRecord
    <2> QED
      BY <1>2, <2>1 DEF HandlerRecord, Serving
  <1>4. handler' = [handler EXCEPT ![w] = r]
    BY <1>0 DEF HandlerStarts
  <1> HIDE DEF r
  <1>5. /\ handler' \in [Workers -> HandlerRecord]
        /\ handler'[w].pc = "loop" /\ handler'[w].fd = f
        /\ handler'[w].cookie = 0
        /\ \A v \in Workers : v # w => handler'[v] = handler[v]
    BY <1>3, <1>4 DEF TypeOK
  <1>6. \A g : (\E i \in 1 .. Len(queue) : queue[i] = g)
               <=> g = f \/ \E i \in 1 .. Len(queue') : queue'[i] = g
    <2>1. ASSUME NEW i \in 1 .. Len(queue), i # 1
          PROVE  \E j \in 1 .. Len(queue') : queue'[j] = queue[i]
      <3>1. i - 1 \in 1 .. Len(queue') /\ (i - 1) + 1 = i
        BY <1>2, <2>1
      <3> QED
        BY <1>2, <3>1
    <2>2. \A i \in 1 .. Len(queue') : i + 1 \in 1 .. Len(queue)
      BY <1>2
    <2>3. 1 \in 1 .. Len(queue)
      BY <1>2
    <2> QED
      BY <1>2, <2>1, <2>2, <2>3
  <1>7. /\ handler[w].pc \notin Holding /\ handler[w].pc \notin Known
        /\ handler[w].pc \notin Inside
        /\ "loop" \in Holding /\ "loop" \in Known /\ "loop" \in Inside
    BY <1>1 DEF Holding, Known, InSession, Inside, Serving
  <1>8. TypeOK'
    BY <1>1, <1>2, <1>5 DEF TypeOK
  <1>9. PhaseInv'
    BY <1>1 DEF PhaseInv
  <1>10. CountInv'
    <2>1. Taken' = Taken \cup {w} /\ w \notin Taken
      BY <1>1, <1>5 DEF Taken
    <2>2. Cardinality(Taken') = Cardinality(Taken) + 1
      BY <2>1, TakenCount, FS_AddElement
    <2>3. active = Counted /\ Counted' = Counted
      <3>1. /\ Counted = (IF acceptor.pc \in Busy THEN 1 ELSE 0)
                         + Len(queue) + Cardinality(Taken)
            /\ Counted' = (IF acceptor'.pc \in Busy THEN 1 ELSE 0)
                          + Len(queue') + Cardinality(Taken')
        BY DEF Counted, Taken, Busy
      <3> QED
        BY <1>1, <1>2, <2>2, <3>1, TakenCount DEF CountInv
    <2>4. Len(queue') + Cardinality(Taken') <= MaxConnections
      BY <1>2, <2>2, TakenCount DEF CountInv
    <2> QED
      BY <1>1, <2>3, <2>4 DEF CountInv
  <1>11. PlaceInv'
    <2>1. AcceptorPlace'
      BY <1>1 DEF PlaceInv, AcceptorPlace
    <2>2. QueuePlace'
      <3>1. ASSUME NEW i \in 1 .. Len(queue')
            PROVE  /\ sock[queue'[i]] # "free"
                   /\ acceptor.pc \in Busy => queue'[i] # acceptor.fd
                   /\ \A j \in 1 .. Len(queue') : queue'[i] = queue'[j] => i = j
        <4>1. \A j \in 1 .. Len(queue') : j + 1 \in 1 .. Len(queue)
          BY <1>2
        <4>2. /\ sock[queue[i + 1]] # "free"
              /\ acceptor.pc \in Busy => queue[i + 1] # acceptor.fd
              /\ \A j \in 1 .. Len(queue') :
                   queue[i + 1] = queue[j + 1] => i + 1 = j + 1
          BY <4>1 DEF PlaceInv, QueuePlace
        <4> QED
          BY <1>2, <4>2
      <3> QED
        BY <1>1, <3>1 DEF QueuePlace
    <2>3. HandlerPlace'
      <3>1. \A i \in 1 .. Len(queue') : queue'[i] # f
        <4>1. \A i \in 1 .. Len(queue') :
                i + 1 \in 1 .. Len(queue) /\ i + 1 # 1 /\ 1 \in 1 .. Len(queue)
          BY <1>2
        <4> QED
          BY <1>2, <4>1 DEF PlaceInv, QueuePlace
      <3>2. \A v \in Workers : handler[v].pc \in Holding => handler[v].fd # f
        BY <1>6 DEF PlaceInv, HandlerPlace
      <3>3. sock[f] # "free" /\ (acceptor.pc \in Busy => f # acceptor.fd)
        BY <1>6 DEF PlaceInv, QueuePlace
      <3>4. ASSUME NEW v \in Workers, v # w, handler[v].pc \in Holding
            PROVE  /\ handler[v].fd \in Fds /\ sock[handler[v].fd] # "free"
                   /\ acceptor.pc \in Busy => handler[v].fd # acceptor.fd
                   /\ \A i \in 1 .. Len(queue') : queue'[i] # handler[v].fd
                   /\ \A u \in Workers : handler[u].pc \in Holding
                        /\ handler[u].fd = handler[v].fd => u = v
        BY <1>6, <3>4 DEF PlaceInv, HandlerPlace
      <3>5. ASSUME NEW v \in Workers, handler'[v].pc \in Holding
            PROVE  /\ handler'[v].fd \in Fds /\ sock[handler'[v].fd] # "free"
                   /\ acceptor.pc \in Busy => handler'[v].fd # acceptor.fd
                   /\ \A i \in 1 .. Len(queue') : queue'[i] # handler'[v].fd
                   /\ \A u \in Workers : handler'[u].pc \in Holding
                        /\ handler'[u].fd = handler'[v].fd => u = v
        <4>1. CASE v = w
          BY ONLY <1>2, <1>5, <3>1, <3>2, <3>3, <4>1, w \in Workers
        <4>2. CASE v # w
          BY ONLY <1>5, <3>2, <3>4, <3>5, <4>2, w \in Workers, v \in Workers
        <4> QED
          BY <4>1, <4>2
      <3> QED
        BY ONLY <1>1, <3>5 DEF HandlerPlace
    <2>4. OpenPlace'
      <3>1. \A v \in Workers : handler[v].pc \in Holding =>
              handler'[v].pc \in Holding /\ handler'[v].fd = handler[v].fd
        BY <1>5, <1>7
      <3>2. ASSUME NEW g \in Fds, sock[g] # "free"
            PROVE  \/ acceptor.pc \in Busy /\ acceptor.fd = g
                   \/ \E i \in 1 .. Len(queue') : queue'[i] = g
                   \/ \E v \in Workers : handler'[v].pc \in Holding
                                          /\ handler'[v].fd = g
        <4>1. \/ acceptor.pc \in Busy /\ acceptor.fd = g
              \/ \E i \in 1 .. Len(queue) : queue[i] = g
              \/ \E v \in Workers : handler[v].pc \in Holding /\ handler[v].fd = g
          BY <3>2 DEF PlaceInv, OpenPlace
        <4>2. CASE \E i \in 1 .. Len(queue) : queue[i] = g
          BY ONLY <1>5, <1>6, <1>7, <4>2, w \in Workers
        <4>3. CASE \E v \in Workers : handler[v].pc \in Holding /\ handler[v].fd = g
          BY ONLY <3>1, <4>3
        <4> QED
          BY <4>1, <4>2, <4>3
      <3> QED
        BY <1>1, <3>2 DEF OpenPlace
    <2> QED
      BY <2>1, <2>2, <2>3, <2>4 DEF PlaceInv
  <1>12. RegistryInv'
    <2>1. ASSUME NEW g
          PROVE  (\E v \in Workers : handler'[v].pc \in Known
                                     /\ handler'[v].fd = g)
                 <=> g = f \/ \E v \in Workers : handler[v].pc \in Known
                                               /\ handler[v].fd = g
      <3>1. \A v \in Workers : handler[v].pc \in Known =>
              handler'[v].pc \in Known /\ handler'[v].fd = handler[v].fd
        BY <1>5, <1>7
      <3> QED
        BY <1>5, <1>7, <3>1
    <2>2. ASSUME NEW g PROVE Recorded(g)' <=> Recorded(g)
      BY <1>1, <1>6, <2>1 DEF Recorded
    <2> QED
      BY <1>1, <2>2 DEF RegistryInv
  <1>13. SessionInv'
    <2>1. \A i \in 1 .. MaxSessions : Members(i)' = Members(i)
      BY <1>1, <1>5 DEF Members, Serving
    <2>2. \A i \in 1 .. MaxSessions : \A v \in Members(i) :
            handler'[v] = handler[v]
      BY <1>1, <1>5 DEF Members, Serving
    <2> QED
      BY <1>1, <2>1, <2>2 DEF SessionInv
  <1>14. OwnerInv'
    BY <1>1, <1>5, <1>7 DEF OwnerInv
  <1> QED
    BY <1>8, <1>9, <1>10, <1>11, <1>12, <1>13, <1>14

-----------------------------------------------------------------------------
(* The tables a handler writes *)

(* The number of connections of a session. *)
LEMMA MembersCount ==
  ASSUME NEW i
  PROVE  /\ IsFiniteSet(Members(i)) /\ Cardinality(Members(i)) \in Nat
         /\ Cardinality(Members(i)) <= Cardinality(Workers)
         /\ Cardinality(Members(i)) = 0 <=> Members(i) = {}
  <1>1. Members(i) \in SUBSET Workers
    BY DEF Members
  <1>2. IsFiniteSet(Members(i)) /\ Cardinality(Members(i)) <= Cardinality(Workers)
    BY <1>1, ConnectionsAssumption, FS_Subset
  <1> QED
    BY <1>2, FS_CardinalityType, FS_EmptySet

(* The entry a HELLO finds belongs to its identity and address, or is free. *)
LEMMA HelloFinds ==
  ASSUME TypeOK, NEW id, NEW p, NEW i \in HelloSlots(id, p)
  PROVE  /\ i \in 1 .. MaxSessions
         /\ \/ ~g_sessions[i].used
            \/ g_sessions[i].used /\ g_sessions[i].peer = p
  <1> DEFINE same == {k \in DOMAIN g_sessions :
                        /\ g_sessions[k].used
                        /\ g_sessions[k].id = id /\ g_sessions[k].peer = p}
             free == {k \in DOMAIN g_sessions : ~g_sessions[k].used}
  <1>1. DOMAIN g_sessions = 1 .. MaxSessions
    BY DEF TypeOK
  <1>2. same \in SUBSET Nat /\ free \in SUBSET Nat
    BY <1>1
  <1>3. HelloSlots(id, p) = IF same # {} THEN {Min(same)}
                            ELSE IF free # {} THEN {Min(free)} ELSE {}
    BY DEF HelloSlots
  <1>4. i \in same \/ i \in free
    <2> HIDE DEF same, free
    <2> QED
      BY <1>2, <1>3, MinIn
  <1> QED
    BY <1>1, <1>4

LEMMA HelloStep ==
  ASSUME ConnInv, NEW w \in Workers, NEW id \in SessionIds, Hello(w, id)
  PROVE  ConnInv'
  <1> USE DEF ConnInv
  <1>0. PICK p : p = peer[handler[w].fd]
    OBVIOUS
  <1> DEFINE after == Dispatched(w, "hello")
  <1>1. /\ Dispatch(w, "hello")
        /\ UNCHANGED <<stop, supervisor, listener, acceptor, sock, peer, active,
                       g_clients, queue, owner, attached>>
    BY DEF Hello
  <1>2. /\ after \in HandlerRecord
        /\ after.pc \in Inside /\ handler[w].pc \in Inside
        /\ after.fd = handler[w].fd /\ after.cookie = handler[w].cookie
    BY <1>1, DispatchedRecord
  <1>3. CASE handler' = [handler EXCEPT ![w] = after] /\ UNCHANGED g_sessions
    <2> HIDE DEF after
    <2>1. stop' \in BOOLEAN /\ attached' \in BOOLEAN
      BY <1>1 DEF TypeOK
    <2> QED
      BY <1>1, <1>2, <1>3, <2>1, InsideStep
  <1>4. ASSUME MayRegister(w), NEW i \in HelloSlots(id, p),
               g_sessions' = [g_sessions EXCEPT ![i] =
                 [used |-> TRUE, id |-> id, peer |-> p,
                  connections |-> @.connections + 1]],
               handler' = [handler EXCEPT ![w] = [after EXCEPT !.cookie = i]]
        PROVE  ConnInv'
    <2> DEFINE r == [after EXCEPT !.cookie = i]
               s == [used |-> TRUE, id |-> id, peer |-> p,
                     connections |-> g_sessions[i].connections + 1]
    <2>1. i \in 1 .. MaxSessions /\ handler[w].cookie = 0
      BY <1>4, HelloFinds DEF MayRegister
    <2>2. g_sessions[i].used => g_sessions[i].peer = p
      BY <1>4, HelloFinds
    <2> HIDE DEF after
    <2>3. /\ r \in HandlerRecord /\ r.pc \in Inside /\ r.pc \in Known
          /\ handler[w].pc \in Known
          /\ r.fd = handler[w].fd /\ r.cookie = i
      BY <1>2, <2>1 DEF HandlerRecord, Known, InSession
    <2>4. handler' = [handler EXCEPT ![w] = r]
      BY <1>4
    <2>5. g_sessions' = [g_sessions EXCEPT ![i] = s]
      BY <1>4
    <2> HIDE DEF r
    <2>6. /\ handler' \in [Workers -> HandlerRecord]
          /\ handler'[w] = r
          /\ \A v \in Workers : v # w => handler'[v] = handler[v]
          /\ \A v \in Workers : handler'[v].fd = handler[v].fd
          /\ PhaseInv' /\ CountInv' /\ PlaceInv' /\ RegistryInv'
      BY <1>1, <2>3, <2>4, KnownMove
    <2>7. Members(i)' = Members(i) \cup {w} /\ w \notin Members(i)
      <3>1. handler'[w].cookie = i
            /\ handler'[w].pc \in Serving \cup {"check", "detach", "release", "hello"}
        BY <2>3, <2>6 DEF Inside
      <3>2. handler[w].cookie # i
        BY <2>1
      <3> QED
        BY <2>6, <3>1, <3>2 DEF Members
    <2>8. \A j \in 1 .. MaxSessions : j # i => Members(j)' = Members(j)
      BY <2>1, <2>3, <2>6 DEF Members
    <2>9. /\ Cardinality(Members(i)') = Cardinality(Members(i)) + 1
          /\ Cardinality(Members(i)') <= Cardinality(Workers)
          /\ Cardinality(Workers) \in Nat
      <3>1. Members(i) \cup {w} \in SUBSET Workers
        BY DEF Members
      <3>2. Cardinality(Members(i) \cup {w}) = Cardinality(Members(i)) + 1
        BY <2>7, MembersCount, FS_AddElement
      <3>3. Cardinality(Members(i) \cup {w}) <= Cardinality(Workers)
        BY <3>1, ConnectionsAssumption, FS_Subset
      <3> QED
        BY <2>7, <3>2, <3>3, ConnectionsAssumption, FS_CardinalityType
    <2>10. g_sessions[i].connections = Cardinality(Members(i))
      BY <2>1 DEF SessionInv
    <2>11. s \in SessionRecord
      <3>1. s.connections \in 0 .. Cardinality(Workers)
        BY <2>9, <2>10, MembersCount
      <3>2. p \in Peers \cup {NoPeer}
        <4>1. handler[w].fd \in Fds
          BY <2>3 DEF PlaceInv, HandlerPlace, Holding
        <4> QED
          BY <1>0, <4>1 DEF TypeOK
      <3> QED
        BY <3>1, <3>2 DEF SessionRecord
    <2>12. s.used = TRUE /\ s.peer = p
           /\ s.connections = Cardinality(Members(i)) + 1
      BY <2>10
    <2> HIDE DEF s
    <2>13. /\ g_sessions' \in [1 .. MaxSessions -> SessionRecord]
           /\ g_sessions'[i] = s
           /\ \A j \in 1 .. MaxSessions : j # i => g_sessions'[j] = g_sessions[j]
      BY <2>1, <2>5, <2>11 DEF TypeOK
    <2>14. TypeOK'
      BY <1>1, <2>6, <2>13 DEF TypeOK
    <2>15. SessionInv'
      <3>1. ASSUME NEW j \in 1 .. MaxSessions, j # i
            PROVE  /\ g_sessions'[j].connections = Cardinality(Members(j)')
                   /\ g_sessions'[j].used <=> Members(j)' # {}
                   /\ ~g_sessions'[j].used => g_sessions'[j] = NoSession
                   /\ \A v \in Members(j)' :
                        g_sessions'[j].peer = peer'[handler'[v].fd]
        <4>1. g_sessions'[j] = g_sessions[j] /\ Members(j)' = Members(j)
          BY <2>8, <2>13, <3>1
        <4>2. \A v \in Members(j) : handler'[v].fd = handler[v].fd
          BY <2>6 DEF Members
        <4> QED
          BY <1>1, <4>1, <4>2 DEF SessionInv
      <3>2. \A v \in Members(i)' : g_sessions'[i].peer = peer'[handler'[v].fd]
        <4>1. peer'[handler'[w].fd] = p
          BY <1>0, <1>1, <2>6
        <4>2. \A v \in Members(i) : v \in Workers /\ peer[handler[v].fd] = p
          <5>1. Members(i) \subseteq Workers
            BY DEF Members
          <5>2. \A v \in Members(i) : g_sessions[i].used
                                      /\ g_sessions[i].peer = peer[handler[v].fd]
            BY <2>1 DEF SessionInv
          <5> QED
            BY <2>2, <5>1, <5>2
        <4> QED
          BY <1>1, <2>6, <2>7, <2>12, <2>13, <4>1, <4>2
      <3>3. g_sessions'[i].connections = Cardinality(Members(i)')
        BY <2>9, <2>12, <2>13
      <3>4. g_sessions'[i].used = TRUE /\ Members(i)' # {}
        BY <2>7, <2>12, <2>13
      <3> QED
        BY <2>1, <3>1, <3>2, <3>3, <3>4 DEF SessionInv
    <2>16. OwnerInv'
      BY <1>1, <1>2, <2>3, <2>6 DEF OwnerInv
    <2> QED
      BY <2>6, <2>14, <2>15, <2>16
  <1>5. \/ /\ MayRegister(w)
           /\ \E i \in HelloSlots(id, p) :
                /\ g_sessions' = [g_sessions EXCEPT ![i] =
                      [used |-> TRUE, id |-> id, peer |-> p,
                       connections |-> @.connections + 1]]
                /\ handler' = [handler EXCEPT ![w] =
                      [after EXCEPT !.cookie = i]]
        \/ /\ handler' = [handler EXCEPT ![w] = after]
           /\ UNCHANGED g_sessions
    BY <1>0 DEF Hello
  <1> QED
    BY <1>3, <1>4, <1>5

(* A quick scan takes at most one slot, and a free one. *)
LEMMA ScanStep ==
  ASSUME ConnInv, NEW w \in Workers, Scan(w)
  PROVE  /\ ConnInv'
         /\ \A i \in 1 .. MaxScans : owner[i] # NoFd => owner'[i] = owner[i]
  <1> USE DEF ConnInv
  <1>0. PICK f : f = handler[w].fd
    OBVIOUS
  <1> DEFINE r == Dispatched(w, "scan")
  <1>1. /\ Dispatch(w, "scan")
        /\ handler' = [handler EXCEPT ![w] = r]
        /\ UNCHANGED <<stop, supervisor, listener, acceptor, sock, peer, active,
                       g_clients, queue, g_sessions, attached>>
    BY DEF Scan
  <1>2. /\ r \in HandlerRecord
        /\ r.pc \in Inside /\ handler[w].pc \in Inside
        /\ r.fd = handler[w].fd /\ r.cookie = handler[w].cookie
    BY <1>1, DispatchedRecord
  <1> HIDE DEF r
  <1>3. r.pc \in Known /\ handler[w].pc \in Known
    BY <1>2 DEF Known, InSession
  <1>4. /\ handler' \in [Workers -> HandlerRecord]
        /\ handler'[w] = r
        /\ \A v \in Workers : v # w => handler'[v] = handler[v]
        /\ \A v \in Workers : handler'[v].fd = handler[v].fd
        /\ PhaseInv' /\ CountInv' /\ PlaceInv' /\ RegistryInv'
    BY <1>1, <1>2, <1>3, KnownMove
  <1>5. \A v \in Workers :
          /\ handler'[v].cookie = handler[v].cookie
          /\ handler'[v].pc \in Inside <=> handler[v].pc \in Inside
          /\ handler'[v].pc \in InSession <=> handler[v].pc \in InSession
    BY <1>2, <1>4 DEF InSession
  <1>6. SessionInv'
    <2>1. \A i \in 1 .. MaxSessions : Members(i)' = Members(i)
      BY <1>5 DEF Members, InSession, Inside
    <2>2. \A i \in 1 .. MaxSessions : Members(i) \subseteq Workers
      BY DEF Members
    <2> QED
      BY <1>1, <1>4, <2>1, <2>2 DEF SessionInv
  <1>7. f \in Fds /\ f # NoFd
    BY <1>0, <1>3, ConnectionsAssumption DEF PlaceInv, HandlerPlace, Holding
  <1>8. \/ owner' = owner
        \/ /\ \A i \in 1 .. MaxScans : owner[i] # f
           /\ \E k \in 1 .. MaxScans :
                owner[k] = NoFd /\ owner' = [owner EXCEPT ![k] = f]
    <2>1. DOMAIN owner = 1 .. MaxScans /\ MaxScans \in Nat
      BY ConnectionsAssumption DEF TypeOK
    <2>2. CASE Slots(owner, f) # {} \/ Slots(owner, NoFd) = {}
      BY <1>0, <2>2 DEF Scan
    <2>3. CASE Slots(owner, f) = {} /\ Slots(owner, NoFd) # {}
      <3>1. owner' = Put(owner, NoFd, f)
        BY <1>0, <2>3 DEF Scan
      <3>2. \A i \in 1 .. MaxScans : owner[i] # f
        BY <2>1, <2>3 DEF Slots
      <3>3. \E k \in 1 .. MaxScans :
              owner[k] = NoFd /\ owner' = [owner EXCEPT ![k] = f]
        BY ONLY <2>1, <2>3, <3>1, PutWrites
      <3> QED
        BY <3>2, <3>3
    <2> QED
      BY <2>2, <2>3
  <1>9. CASE owner' = owner
    <2>1. TypeOK'
      BY <1>1, <1>4, <1>9 DEF TypeOK
    <2>2. OwnerInv'
      BY <1>4, <1>5, <1>9 DEF OwnerInv
    <2> QED
      BY <1>4, <1>6, <1>9, <2>1, <2>2
  <1>10. ASSUME \A i \in 1 .. MaxScans : owner[i] # f,
                NEW k \in 1 .. MaxScans,
                owner[k] = NoFd, owner' = [owner EXCEPT ![k] = f]
         PROVE  /\ ConnInv'
                /\ \A i \in 1 .. MaxScans : owner[i] # NoFd => owner'[i] = owner[i]
    <2>1. /\ owner' \in [1 .. MaxScans -> Fds \cup {NoFd}]
          /\ owner'[k] = f
          /\ \A i \in 1 .. MaxScans : i # k => owner'[i] = owner[i]
      BY <1>7, <1>10 DEF TypeOK
    <2>2. TypeOK'
      BY <1>1, <1>4, <2>1 DEF TypeOK
    <2>3. OwnerInv'
      <3>1. ASSUME NEW i \in 1 .. MaxScans, owner'[i] # NoFd
            PROVE  \E v \in Workers : handler'[v].fd = owner'[i]
                                      /\ handler'[v].pc \in Inside
        BY <1>0, <1>2, <1>4, <1>5, <2>1, <3>1 DEF OwnerInv
      <3>2. ASSUME NEW i \in 1 .. MaxScans, owner'[i] # NoFd,
                   NEW j \in 1 .. MaxScans, owner'[j] = owner'[i]
            PROVE  i = j
        BY <1>10, <2>1, <3>2 DEF OwnerInv
      <3> QED
        BY <3>1, <3>2 DEF OwnerInv
    <2> QED
      BY <1>4, <1>6, <1>10, <2>1, <2>2, <2>3
  <1> QED
    BY <1>8, <1>9, <1>10

-----------------------------------------------------------------------------
(* The way out *)

LEMMA AfterValues ==
  /\ After("release") = "hello" /\ After("hello") = "client"
  /\ After("client") = "close" /\ After("close") = "count"
  BY DEF After

(* flashscan_release_client goes by the descriptor number: it clears the   *)
(* slot of this handler and no other.                                      *)
LEMMA ReleaseStep ==
  ASSUME ConnInv, NEW w \in Workers, ReleaseScan(w)
  PROVE  /\ ConnInv'
         /\ handler'[w].pc = "hello"
         /\ \A i \in 1 .. MaxScans :
              owner[i] # handler[w].fd => owner'[i] = owner[i]
  <1> USE DEF ConnInv
  <1>0. PICK f : f = handler[w].fd
    OBVIOUS
  <1>1. /\ handler[w].pc = "release" /\ Goto(w, "hello")
        /\ owner' = Unregistered(owner, f)
        /\ UNCHANGED <<stop, supervisor, listener, acceptor, sock, peer, active,
                       g_clients, queue, g_sessions, attached>>
    BY <1>0, AfterValues DEF ReleaseScan
  <1>2. PICK r \in HandlerRecord :
          /\ r.pc = "hello" /\ r.fd = handler[w].fd
          /\ r.cookie = handler[w].cookie
          /\ handler' = [handler EXCEPT ![w] = r]
    BY <1>1, GotoRecord DEF Leaving
  <1>3. /\ r.pc \in Known /\ handler[w].pc \in Known
        /\ r.pc \in InSession /\ handler[w].pc \in InSession
        /\ r.pc \notin Inside
    BY <1>1, <1>2 DEF Known, InSession, Inside, Serving
  <1>4. /\ handler' \in [Workers -> HandlerRecord]
        /\ handler'[w] = r
        /\ \A v \in Workers : v # w => handler'[v] = handler[v]
        /\ \A v \in Workers : handler'[v].fd = handler[v].fd
        /\ PhaseInv' /\ CountInv' /\ PlaceInv' /\ RegistryInv'
    BY <1>1, <1>2, <1>3, KnownMove
  <1>5. SessionInv'
    <2>1. \A v \in Workers :
            /\ handler'[v].cookie = handler[v].cookie
            /\ handler'[v].pc \in InSession <=> handler[v].pc \in InSession
      BY <1>2, <1>3, <1>4
    <2>2. \A i \in 1 .. MaxSessions : Members(i)' = Members(i)
      BY <2>1 DEF Members, InSession, Inside
    <2>3. \A i \in 1 .. MaxSessions : Members(i) \subseteq Workers
      BY DEF Members
    <2> QED
      BY <1>1, <1>4, <2>2, <2>3 DEF SessionInv
  <1>6. f \in Fds /\ f # NoFd
    BY <1>0, <1>3, ConnectionsAssumption DEF PlaceInv, HandlerPlace, Holding
  <1>7. /\ owner' \in [1 .. MaxScans -> Fds \cup {NoFd}]
        /\ \A i \in 1 .. MaxScans :
             owner'[i] = IF owner[i] = f THEN NoFd ELSE owner[i]
    <2>1. DOMAIN owner = 1 .. MaxScans /\ MaxScans \in Nat
      BY ConnectionsAssumption DEF TypeOK
    <2>2. \/ /\ \A k \in 1 .. MaxScans : owner[k] # f
             /\ owner' = owner
          \/ \E k \in 1 .. MaxScans :
               owner[k] = f /\ owner' = [owner EXCEPT ![k] = NoFd]
      BY ONLY <1>1, <2>1, UnregisteredWrites
    <2>3. CASE owner' = owner /\ \A k \in 1 .. MaxScans : owner[k] # f
      BY <2>3 DEF TypeOK
    <2>4. ASSUME NEW k \in 1 .. MaxScans,
                 owner[k] = f, owner' = [owner EXCEPT ![k] = NoFd]
          PROVE  /\ owner' \in [1 .. MaxScans -> Fds \cup {NoFd}]
                 /\ \A i \in 1 .. MaxScans :
                      owner'[i] = IF owner[i] = f THEN NoFd ELSE owner[i]
      <3>1. \A i \in 1 .. MaxScans : owner[i] = f => i = k
        BY <1>6, <2>4 DEF OwnerInv
      <3> QED
        BY <2>4, <3>1 DEF TypeOK
    <2> QED
      BY <2>2, <2>3, <2>4
  <1>8. TypeOK'
    BY <1>1, <1>4, <1>7 DEF TypeOK
  <1>9. OwnerInv'
    <2>1. ASSUME NEW i \in 1 .. MaxScans, owner'[i] # NoFd
          PROVE  \E v \in Workers : handler'[v].fd = owner'[i]
                                    /\ handler'[v].pc \in Inside
      <3>1. owner[i] = owner'[i] /\ owner[i] # f /\ owner[i] # NoFd
        BY <1>7, <2>1
      <3>2. PICK v \in Workers : handler[v].fd = owner[i] /\ handler[v].pc \in Inside
        BY <3>1 DEF OwnerInv
      <3>3. v # w
        BY <1>0, <3>1, <3>2
      <3> QED
        BY <1>4, <3>1, <3>2, <3>3
    <2>2. \A i, j \in 1 .. MaxScans :
            owner'[i] # NoFd /\ owner'[j] = owner'[i] => i = j
      BY <1>7 DEF OwnerInv
    <2> QED
      BY <2>1, <2>2 DEF OwnerInv
  <1> QED
    BY <1>0, <1>2, <1>4, <1>5, <1>7, <1>8, <1>9

LEMMA LeaveSessionStep ==
  ASSUME ConnInv, NEW w \in Workers, LeaveSession(w)
  PROVE  ConnInv'
  <1> USE DEF ConnInv
  <1>0. PICK c : c = handler[w].cookie
    OBVIOUS
  <1>1. /\ handler[w].pc = "hello" /\ Goto(w, "client")
        /\ g_sessions' =
             IF c # 0 /\ g_sessions[c].used /\ g_sessions[c].connections > 0
             THEN [g_sessions EXCEPT ![c] = SessionLeft(@)] ELSE g_sessions
        /\ UNCHANGED <<stop, supervisor, listener, acceptor, sock, peer, active,
                       g_clients, queue, owner, attached>>
    BY <1>0, AfterValues DEF LeaveSession
  <1>2. PICK r \in HandlerRecord :
          /\ r.pc = "client" /\ r.fd = handler[w].fd
          /\ r.cookie = handler[w].cookie
          /\ handler' = [handler EXCEPT ![w] = r]
    BY <1>1, GotoRecord DEF Leaving
  <1>3. /\ r.pc \in Known /\ handler[w].pc \in Known
        /\ r.pc \notin Inside /\ handler[w].pc \notin Inside
    BY <1>1, <1>2 DEF Known, InSession, Inside, Serving
  <1>4. /\ handler' \in [Workers -> HandlerRecord]
        /\ handler'[w] = r
        /\ \A v \in Workers : v # w => handler'[v] = handler[v]
        /\ \A v \in Workers : handler'[v].fd = handler[v].fd
        /\ PhaseInv' /\ CountInv' /\ PlaceInv' /\ RegistryInv'
    BY <1>1, <1>2, <1>3, KnownMove
  <1>5. OwnerInv'
    BY <1>1, <1>3, <1>4 DEF OwnerInv
  <1>6. \A i \in 1 .. MaxSessions : Members(i)' = Members(i) \ {w}
    BY <1>2, <1>4 DEF Members, Serving
  <1>7. \A i \in 1 .. MaxSessions : i # c => w \notin Members(i)
    BY <1>0 DEF Members
  <1>8. c \in 0 .. MaxSessions
    BY <1>0 DEF TypeOK, HandlerRecord
  <1>9. \A i \in 1 .. MaxSessions : \A v \in Members(i) :
          handler'[v].fd = handler[v].fd
    BY <1>4 DEF Members
  <1>10. ASSUME NEW i \in 1 .. MaxSessions, i # c,
                g_sessions'[i] = g_sessions[i]
         PROVE  /\ g_sessions'[i].connections = Cardinality(Members(i)')
                /\ g_sessions'[i].used <=> Members(i)' # {}
                /\ ~g_sessions'[i].used => g_sessions'[i] = NoSession
                /\ \A v \in Members(i)' :
                     g_sessions'[i].peer = peer'[handler'[v].fd]
    <2>1. Members(i)' = Members(i)
      BY <1>6, <1>7, <1>10
    <2> QED
      BY <1>1, <1>9, <1>10, <2>1 DEF SessionInv
  <1>11. CASE c = 0
    <2>1. g_sessions' = g_sessions
      BY <1>1, <1>11
    <2>2. SessionInv'
      BY <1>10, <1>11, <2>1 DEF SessionInv
    <2>3. TypeOK'
      BY <1>1, <1>4, <2>1 DEF TypeOK
    <2> QED
      BY <1>4, <1>5, <2>2, <2>3
  <1>12. CASE c # 0
    <2>1. c \in 1 .. MaxSessions
      BY <1>8, <1>12, ConnectionsAssumption
    <2>2. w \in Members(c)
      BY <1>0, <1>1 DEF Members
    <2>3. /\ g_sessions[c].connections = Cardinality(Members(c))
          /\ g_sessions[c].used
          /\ g_sessions[c].connections \in Nat /\ g_sessions[c].connections > 0
      BY <2>1, <2>2, MembersCount DEF SessionInv
    <2>4. g_sessions' = [g_sessions EXCEPT ![c] = SessionLeft(g_sessions[c])]
      BY <1>1, <1>12, <2>3
    <2>5. Cardinality(Members(c)') = g_sessions[c].connections - 1
      <3>1. Members(c)' = Members(c) \ {w}
        BY <1>6, <2>1
      <3>2. Cardinality(Members(c) \ {w}) = Cardinality(Members(c)) - 1
        BY <2>2, MembersCount, FS_RemoveElement
      <3> QED
        BY <2>3, <3>1, <3>2
    <2>6. (Members(c)' = {}) <=> g_sessions[c].connections = 1
      <3>1. Members(c)' = Members(c) \ {w}
        BY <1>6, <2>1
      <3>2. IsFiniteSet(Members(c) \ {w})
        BY MembersCount, FS_RemoveElement
      <3>3. Cardinality(Members(c) \ {w}) = 0 <=> Members(c) \ {w} = {}
        BY <3>2, FS_EmptySet
      <3> QED
        BY <2>3, <2>5, <3>1, <3>3
    <2>7. PICK s : s = SessionLeft(g_sessions[c])
      OBVIOUS
    <2>8. g_sessions[c] \in SessionRecord
      BY <2>1 DEF TypeOK
    <2>9. CASE g_sessions[c].connections = 1
      <3>1. s = NoSession
        BY <2>7, <2>9 DEF SessionLeft
      <3>2. Cardinality(Workers) \in Nat
        BY ConnectionsAssumption, FS_CardinalityType
      <3>3. /\ NoSession \in SessionRecord
            /\ NoSession.used = FALSE /\ NoSession.connections = 0
        BY <3>2 DEF SessionRecord, NoSession
      <3>4. /\ g_sessions' \in [1 .. MaxSessions -> SessionRecord]
            /\ g_sessions'[c] = NoSession
            /\ \A i \in 1 .. MaxSessions : i # c => g_sessions'[i] = g_sessions[i]
        BY <2>1, <2>4, <2>7, <3>1, <3>3 DEF TypeOK
      <3>5. TypeOK'
        BY <1>1, <1>4, <3>4 DEF TypeOK
      <3>6. SessionInv'
        <4>1. /\ g_sessions'[c].connections = Cardinality(Members(c)')
              /\ g_sessions'[c].used <=> Members(c)' # {}
              /\ ~g_sessions'[c].used => g_sessions'[c] = NoSession
              /\ \A v \in Members(c)' :
                   g_sessions'[c].peer = peer'[handler'[v].fd]
          BY <2>5, <2>6, <2>9, <3>3, <3>4
        <4> QED
          BY <1>10, <3>4, <4>1 DEF SessionInv
      <3> QED
        BY <1>4, <1>5, <3>5, <3>6
    <2>10. CASE g_sessions[c].connections # 1
      <3>1. s = [g_sessions[c] EXCEPT !.connections = @ - 1]
        BY <2>7, <2>10 DEF SessionLeft
      <3>2. /\ s \in SessionRecord
            /\ s.used = g_sessions[c].used /\ s.peer = g_sessions[c].peer
            /\ s.connections = g_sessions[c].connections - 1
        <4>1. Cardinality(Workers) \in Nat
          BY ConnectionsAssumption, FS_CardinalityType
        <4>2. g_sessions[c].connections - 1 \in 0 .. Cardinality(Workers)
          BY <2>3, <2>8, <4>1 DEF SessionRecord
        <4> QED
          BY <2>8, <3>1, <4>2 DEF SessionRecord
      <3>3. /\ g_sessions' \in [1 .. MaxSessions -> SessionRecord]
            /\ g_sessions'[c] = s
            /\ \A i \in 1 .. MaxSessions : i # c => g_sessions'[i] = g_sessions[i]
        BY <2>1, <2>4, <2>7, <3>2 DEF TypeOK
      <3>4. TypeOK'
        BY <1>1, <1>4, <3>3 DEF TypeOK
      <3>5. SessionInv'
        <4>1. \A v \in Members(c)' :
                 g_sessions'[c].peer = peer'[handler'[v].fd]
          <5>1. \A v \in Members(c) : g_sessions[c].peer = peer[handler[v].fd]
            BY <2>1 DEF SessionInv
          <5>2. Members(c)' \subseteq Members(c)
            BY <1>6, <2>1
          <5> QED
            BY <1>1, <1>9, <2>1, <3>2, <3>3, <5>1, <5>2
        <4>2. /\ g_sessions'[c].connections = Cardinality(Members(c)')
              /\ g_sessions'[c].used /\ Members(c)' # {}
          BY <2>3, <2>5, <2>6, <2>10, <3>2, <3>3
        <4> QED
          BY <1>10, <3>3, <4>1, <4>2 DEF SessionInv
      <3> QED
        BY <1>4, <1>5, <3>4, <3>5
    <2> QED
      BY <2>9, <2>10
  <1> QED
    BY <1>11, <1>12

(* A handler past its session: its steps change neither the sessions nor   *)
(* the owners.                                                             *)
LEMMA PastSession ==
  ASSUME ConnInv, NEW w \in Workers,
         handler[w].pc \notin InSession, handler'[w].pc \notin InSession,
         \A v \in Workers : v # w => handler'[v] = handler[v],
         \A v \in Workers \ {w} : handler[v].pc \in InSession =>
           peer'[handler[v].fd] = peer[handler[v].fd],
         UNCHANGED <<g_sessions, owner>>
  PROVE  SessionInv' /\ OwnerInv'
  <1> USE DEF ConnInv
  <1>1. \A i \in 1 .. MaxSessions : Members(i)' = Members(i)
    BY DEF Members, InSession, Inside
  <1>2. \A i \in 1 .. MaxSessions : \A v \in Members(i) :
          v \in Workers \ {w} /\ handler[v].pc \in InSession
    BY DEF Members, InSession, Inside
  <1>3. SessionInv'
    BY <1>1, <1>2 DEF SessionInv
  <1>4. OwnerInv'
    BY DEF OwnerInv, InSession
  <1> QED
    BY <1>3, <1>4

LEMMA UnregisterStep ==
  ASSUME ConnInv, NEW w \in Workers, UnregisterClient(w)
  PROVE  ConnInv'
  <1> USE DEF ConnInv
  <1>0. PICK f : f = handler[w].fd
    OBVIOUS
  <1>1. /\ handler[w].pc = "client" /\ Goto(w, "close")
        /\ g_clients' = Unregistered(g_clients, f)
        /\ UNCHANGED <<stop, supervisor, listener, acceptor, sock, peer, active,
                       queue, g_sessions, owner, attached>>
    BY <1>0, AfterValues DEF UnregisterClient
  <1>2. PICK r \in HandlerRecord :
          /\ r.pc = "close" /\ r.fd = handler[w].fd
          /\ r.cookie = handler[w].cookie
          /\ handler' = [handler EXCEPT ![w] = r]
    BY <1>1, GotoRecord DEF Leaving
  <1>3. /\ handler[w].pc \in Known /\ r.pc \notin Known
        /\ handler[w].pc \in Holding /\ r.pc \in Holding
        /\ handler[w].pc \notin InSession /\ r.pc \notin InSession
    BY <1>1, <1>2 DEF Holding, Known, InSession, Inside, Serving
  <1>4. /\ handler' \in [Workers -> HandlerRecord]
        /\ handler'[w] = r
        /\ \A v \in Workers : v # w => handler'[v] = handler[v]
    BY <1>2 DEF TypeOK
  <1>5. \A v \in Workers :
          /\ handler'[v].fd = handler[v].fd
          /\ handler'[v].pc \in Holding <=> handler[v].pc \in Holding
          /\ handler'[v].pc = "idle" <=> handler[v].pc = "idle"
    BY <1>1, <1>2, <1>3, <1>4
  <1>6. f \in Fds /\ f # NoFd
    BY <1>0, <1>3, ConnectionsAssumption DEF PlaceInv, HandlerPlace
  <1>7. PhaseInv'
    BY <1>1, <1>5 DEF PhaseInv
  <1>8. CountInv'
    <2>1. Taken' = Taken
      BY <1>5 DEF Taken
    <2> QED
      BY <1>1, <2>1 DEF CountInv, Counted, Taken
  <1>9. PlaceInv'
    <2>1. AcceptorPlace' /\ QueuePlace'
      BY <1>1 DEF PlaceInv, AcceptorPlace, QueuePlace
    <2>2. HandlerPlace'
      BY <1>1, <1>5 DEF PlaceInv, HandlerPlace
    <2>3. OpenPlace'
      BY <1>1, <1>5 DEF PlaceInv, OpenPlace
    <2> QED
      BY <2>1, <2>2, <2>3 DEF PlaceInv
  <1>10. SessionInv' /\ OwnerInv'
    BY <1>1, <1>3, <1>4, PastSession
  <1>11. Recorded(f) /\ ~Recorded(f)'
    <2>1. /\ ~ \E i \in 1 .. Len(queue) : queue[i] = f
          /\ ~ (acceptor.pc = "registered" /\ acceptor.fd = f)
          /\ \A v \in Workers : v # w /\ handler[v].pc \in Known
                                => handler[v].fd # f
      BY <1>0, <1>3 DEF PlaceInv, HandlerPlace, Busy, Holding
    <2> QED
      BY <1>0, <1>1, <1>3, <1>4, <2>1 DEF Recorded
  <1>12. ASSUME NEW g, g # f PROVE Recorded(g)' <=> Recorded(g)
    BY <1>0, <1>1, <1>3, <1>4, <1>5, <1>12 DEF Recorded
  <1>13. PICK k \in 1 .. MaxClients :
           g_clients[k] = f /\ g_clients' = [g_clients EXCEPT ![k] = NoFd]
    <2>1. DOMAIN g_clients = 1 .. MaxClients /\ MaxClients \in Nat
      BY ConnectionsAssumption DEF TypeOK
    <2>2. \E k \in 1 .. MaxClients : g_clients[k] = f
      BY <1>6, <1>11 DEF RegistryInv
    <2> QED
      BY ONLY <1>1, <2>1, <2>2, UnregisteredWrites
  <1>14. /\ g_clients' \in [1 .. MaxClients -> Fds \cup {NoFd}]
         /\ g_clients'[k] = NoFd
         /\ \A i \in 1 .. MaxClients : i # k => g_clients'[i] = g_clients[i]
    BY <1>13 DEF TypeOK
  <1>15. TypeOK'
    BY <1>1, <1>4, <1>14 DEF TypeOK
  <1>16. RegistryInv'
    <2>1. \A i \in 1 .. MaxClients : i # k => g_clients[i] # f
      BY <1>6, <1>13 DEF RegistryInv
    <2>2. \A i \in 1 .. MaxClients :
            g_clients'[i] # NoFd => Recorded(g_clients[i])'
      BY <1>12, <1>14, <2>1 DEF RegistryInv
    <2>3. ASSUME NEW g \in Fds, Recorded(g)'
          PROVE  \E i \in 1 .. MaxClients : g_clients'[i] = g
      <3>1. g # f /\ Recorded(g)
        BY <1>11, <1>12, <2>3
      <3>2. PICK i \in 1 .. MaxClients : g_clients[i] = g
        BY <3>1 DEF RegistryInv
      <3> QED
        BY <1>13, <1>14, <3>1, <3>2
    <2>4. \A i, j \in 1 .. MaxClients :
            g_clients'[i] = g_clients'[j] /\ g_clients'[i] # NoFd => i = j
      BY <1>14 DEF RegistryInv
    <2> QED
      BY <2>2, <2>3, <2>4 DEF RegistryInv
  <1> QED
    BY <1>7, <1>8, <1>9, <1>10, <1>15, <1>16

LEMMA CloseStep ==
  ASSUME ConnInv, NEW w \in Workers, CloseClient(w)
  PROVE  ConnInv'
  <1> USE DEF ConnInv
  <1>0. PICK f : f = handler[w].fd
    OBVIOUS
  <1>1. /\ handler[w].pc = "close" /\ Goto(w, "count")
        /\ Closed(f)
        /\ UNCHANGED <<stop, supervisor, listener, acceptor, active, g_clients,
                       queue, g_sessions, owner, attached>>
    BY <1>0, AfterValues DEF CloseClient
  <1>2. PICK r \in HandlerRecord :
          /\ r.pc = "count" /\ r.fd = handler[w].fd
          /\ r.cookie = handler[w].cookie
          /\ handler' = [handler EXCEPT ![w] = r]
    BY <1>1, GotoRecord DEF Leaving
  <1>3. /\ handler[w].pc \notin Known /\ r.pc \notin Known
        /\ handler[w].pc \in Holding /\ r.pc \notin Holding
        /\ handler[w].pc \notin InSession /\ r.pc \notin InSession
    BY <1>1, <1>2 DEF Holding, Known, InSession, Inside, Serving
  <1>4. /\ handler' \in [Workers -> HandlerRecord]
        /\ handler'[w] = r
        /\ \A v \in Workers : v # w => handler'[v] = handler[v]
    BY <1>2 DEF TypeOK
  <1>5. \A v \in Workers :
          /\ handler'[v].fd = handler[v].fd
          /\ handler'[v].pc \in Known <=> handler[v].pc \in Known
          /\ handler'[v].pc \in Holding <=> handler[v].pc \in Holding /\ v # w
          /\ handler'[v].pc = "idle" <=> handler[v].pc = "idle"
    BY <1>1, <1>2, <1>3, <1>4
  <1>6. f \in Fds
    BY <1>0, <1>3 DEF PlaceInv, HandlerPlace
  <1>7. /\ sock' \in [Fds -> {"free", "open", "shut"}]
        /\ peer' \in [Fds -> Peers \cup {NoPeer}]
        /\ sock'[f] = "free"
        /\ \A g \in Fds : g # f => sock'[g] = sock[g] /\ peer'[g] = peer[g]
    BY <1>1, <1>6 DEF Closed, TypeOK
  <1>8. /\ \A v \in Workers : v # w /\ handler[v].pc \in Holding
                              => handler[v].fd # f
        /\ \A i \in 1 .. Len(queue) : queue[i] # f /\ queue[i] \in Fds
        /\ acceptor.pc \in Busy => acceptor.fd # f
    BY <1>0, <1>3 DEF PlaceInv, HandlerPlace, TypeOK
  <1>9. TypeOK'
    BY <1>1, <1>4, <1>7 DEF TypeOK
  <1>10. PhaseInv'
    BY <1>1, <1>5 DEF PhaseInv
  <1>11. CountInv'
    <2>1. Taken' = Taken
      BY <1>5 DEF Taken
    <2> QED
      BY <1>1, <2>1 DEF CountInv, Counted, Taken
  <1>12. PlaceInv'
    <2>1. AcceptorPlace'
      BY <1>1, <1>7, <1>8 DEF PlaceInv, AcceptorPlace
    <2>2. QueuePlace'
      BY <1>1, <1>7, <1>8 DEF PlaceInv, QueuePlace
    <2>3. HandlerPlace'
      BY <1>1, <1>5, <1>7, <1>8 DEF PlaceInv, HandlerPlace
    <2>4. OpenPlace'
      BY <1>0, <1>1, <1>5, <1>7 DEF PlaceInv, OpenPlace
    <2> QED
      BY <2>1, <2>2, <2>3, <2>4 DEF PlaceInv
  <1>13. RegistryInv'
    <2>1. ASSUME NEW g PROVE Recorded(g)' <=> Recorded(g)
      BY <1>1, <1>5 DEF Recorded
    <2> QED
      BY <1>1, <2>1 DEF RegistryInv
  <1>14. SessionInv' /\ OwnerInv'
    <2>1. \A v \in Workers \ {w} : handler[v].pc \in InSession =>
            peer'[handler[v].fd] = peer[handler[v].fd]
      BY <1>7, <1>8 DEF PlaceInv, HandlerPlace, Holding, Known
    <2> QED
      BY <1>1, <1>3, <1>4, <2>1, PastSession
  <1> QED
    BY <1>9, <1>10, <1>11, <1>12, <1>13, <1>14

LEMMA UncountStep ==
  ASSUME ConnInv, NEW w \in Workers, Uncount(w)
  PROVE  ConnInv'
  <1> USE DEF ConnInv
  <1>1. /\ handler[w].pc = "count" /\ active' = active - 1
        /\ handler' = [handler EXCEPT ![w] = IdleHandler]
        /\ UNCHANGED <<stop, supervisor, listener, acceptor, sock, peer,
                       g_clients, queue, g_sessions, owner, attached>>
    BY DEF Uncount
  <1>2. IdleHandler \in HandlerRecord /\ IdleHandler.pc = "idle"
    BY ConnectionsAssumption DEF IdleHandler, HandlerRecord
  <1>3. /\ handler' \in [Workers -> HandlerRecord]
        /\ handler'[w].pc = "idle"
        /\ \A v \in Workers : v # w => handler'[v] = handler[v]
    BY <1>1, <1>2 DEF TypeOK
  <1>4. /\ handler[w].pc \notin Holding /\ handler'[w].pc \notin Holding
        /\ handler[w].pc \notin Known /\ handler'[w].pc \notin Known
        /\ handler[w].pc \notin InSession /\ handler'[w].pc \notin InSession
    BY <1>1, <1>3 DEF Holding, Known, InSession, Inside, Serving
  <1>5. /\ Taken' = Taken \ {w} /\ w \in Taken
    BY <1>1, <1>3 DEF Taken
  <1>6. Cardinality(Taken') = Cardinality(Taken) - 1 /\ Cardinality(Taken) > 0
    BY <1>5, TakenCount, FS_RemoveElement
  <1>7. Len(queue) \in Nat /\ active \in Nat
    BY ConnectionsAssumption DEF TypeOK
  <1>8. /\ Counted = (IF acceptor.pc \in Busy THEN 1 ELSE 0)
                     + Len(queue) + Cardinality(Taken)
        /\ Counted' = (IF acceptor'.pc \in Busy THEN 1 ELSE 0)
                      + Len(queue') + Cardinality(Taken')
    BY DEF Counted, Taken, Busy
  <1>9. active > 0 /\ active' = Counted'
    BY <1>1, <1>6, <1>7, <1>8, TakenCount DEF CountInv
  <1>10. TypeOK'
    <2>1. active' \in 0 .. MaxConnections + 1
      BY <1>1, <1>7, <1>9, ConnectionsAssumption DEF TypeOK
    <2> QED
      BY <1>1, <1>3, <2>1 DEF TypeOK
  <1>11. PhaseInv'
    BY <1>1, <1>3 DEF PhaseInv
  <1>12. CountInv'
    <2>1. acceptor.post \in Nat
      BY ConnectionsAssumption DEF TypeOK, AcceptorRecord
    <2>2. Len(queue') + Cardinality(Taken') <= MaxConnections
      BY <1>1, <1>6, <1>7, TakenCount, ConnectionsAssumption DEF CountInv
    <2>3. acceptor'.pc \in Busy => active' <= acceptor'.post
      BY <1>1, <1>7, <2>1 DEF CountInv
    <2> QED
      BY <1>1, <1>9, <2>2, <2>3 DEF CountInv
  <1>13. PlaceInv'
    <2>1. AcceptorPlace' /\ QueuePlace'
      BY <1>1 DEF PlaceInv, AcceptorPlace, QueuePlace
    <2>2. HandlerPlace'
      BY <1>1, <1>3, <1>4 DEF PlaceInv, HandlerPlace
    <2>3. OpenPlace'
      BY <1>1, <1>3, <1>4 DEF PlaceInv, OpenPlace
    <2> QED
      BY <2>1, <2>2, <2>3 DEF PlaceInv
  <1>14. RegistryInv'
    <2>1. ASSUME NEW g PROVE Recorded(g)' <=> Recorded(g)
      BY <1>1, <1>3, <1>4 DEF Recorded
    <2> QED
      BY <1>1, <2>1 DEF RegistryInv
  <1>15. SessionInv' /\ OwnerInv'
    BY <1>1, <1>3, <1>4, PastSession
  <1> QED
    BY <1>10, <1>11, <1>12, <1>13, <1>14, <1>15

-----------------------------------------------------------------------------
(* What the invariant says of the tables *)

(* A session entry is left for every connection that may still say HELLO:  *)
(* if all were in use, their members and this connection would be more     *)
(* registered clients than the registry has entries.                       *)
LEMMA HelloFindsSlot ==
  ASSUME ConnInv, NEW w \in Workers, handler[w].pc \in Serving,
         handler[w].cookie = 0, NEW id, NEW p
  PROVE  HelloSlots(id, p) # {}
  <1> USE DEF ConnInv
  <1>1. SUFFICES ASSUME \A i \in 1 .. MaxSessions : g_sessions[i].used
                 PROVE  FALSE
    BY DEF HelloSlots, TypeOK
  <1> DEFINE S == 0 .. MaxSessions
             T == 1 .. MaxClients
             member == [i \in S |-> IF i = 0 THEN w
                                    ELSE CHOOSE v \in Members(i) : TRUE]
             slot == [i \in S |->
                        CHOOSE k \in T : g_clients[k] = handler[member[i]].fd]
  <1>2. \A i \in S : /\ member[i] \in Workers
                     /\ handler[member[i]].cookie = i
                     /\ handler[member[i]].pc \in Known
    <2>1. \A i \in 1 .. MaxSessions : Members(i) # {}
      BY <1>1 DEF SessionInv
    <2>2. \A i \in 1 .. MaxSessions : \A v \in Members(i) :
            /\ v \in Workers /\ handler[v].cookie = i
            /\ handler[v].pc \in Known
      BY DEF Members, Known, InSession, Inside
    <2>3. handler[w].pc \in Known
      BY DEF Known, InSession, Inside
    <2>4. ASSUME NEW i \in S, i # 0
          PROVE  /\ member[i] \in Workers
                 /\ handler[member[i]].cookie = i
                 /\ handler[member[i]].pc \in Known
      <3>1. i \in 1 .. MaxSessions
        BY <2>4, ConnectionsAssumption
      <3>2. member[i] \in Members(i)
        BY <2>1, <2>4, <3>1
      <3> QED
        BY <2>2, <3>1, <3>2
    <2>5. 0 \in S => member[0] = w
      OBVIOUS
    <2> QED
      BY <2>3, <2>4, <2>5
  <1> HIDE DEF member
  <1>3. \A i \in S : slot[i] \in T /\ g_clients[slot[i]] = handler[member[i]].fd
    <2>1. ASSUME NEW i \in S
          PROVE  \E k \in T : g_clients[k] = handler[member[i]].fd
      <3>1. handler[member[i]].fd \in Fds
        BY <1>2 DEF PlaceInv, HandlerPlace, Holding
      <3>2. Recorded(handler[member[i]].fd)
        BY <1>2 DEF Recorded
      <3> QED
        BY <3>1, <3>2 DEF RegistryInv
    <2> QED
      BY <2>1
  <1>4. slot \in [S -> T]
    BY <1>3
  <1> HIDE DEF slot
  <1>5. \A i, j \in S : slot[i] = slot[j] => i = j
    <2>1. ASSUME NEW i \in S, NEW j \in S, slot[i] = slot[j]
          PROVE  i = j
      <3>1. handler[member[i]].fd = handler[member[j]].fd
        BY <1>3, <2>1
      <3>2. member[i] = member[j]
        BY <1>2, <3>1 DEF PlaceInv, HandlerPlace, Holding
      <3> QED
        BY <1>2, <3>2
    <2> QED
      BY <2>1
  <1>6. /\ IsFiniteSet(S) /\ Cardinality(S) = MaxSessions + 1
        /\ IsFiniteSet(T) /\ Cardinality(T) = MaxClients
    BY FS_Interval, ConnectionsAssumption
  <1>7. Cardinality(T) < Cardinality(S)
    BY <1>6, ConnectionsAssumption
  <1> HIDE DEF S, T
  <1>8. \E i, j \in S : i # j /\ slot[i] = slot[j]
    BY <1>4, <1>6, <1>7, FS_PigeonHole
  <1> QED
    BY <1>5, <1>8

LEMMA RecordedIsOnRecord ==
  ASSUME TypeOK, NEW f
  PROVE  f \in OnRecord <=> Recorded(f)
  BY DEF OnRecord, Recorded, Known, InSession, Inside

(* Everything the runs say of a state follows from the invariant. *)
LEMMA ConnInvImplies ==
  ASSUME ConnInv
  PROVE  CountExact /\ RegistryExact /\ SessionsExact /\ OwnersLive
         /\ CleanRestart
  <1> USE DEF ConnInv
  <1>1. CountExact
    BY DEF CountExact, CountInv, Taken
  <1>2. RegistryExact
    <2>1. /\ DOMAIN g_clients = 1 .. MaxClients
          /\ \A i \in 1 .. MaxClients : g_clients[i] \in Fds \cup {NoFd}
      BY DEF TypeOK
    <2>2. \A f : Recorded(f) => f \in Fds /\ sock[f] # "free"
      <3>1. ASSUME NEW f, Recorded(f) PROVE f \in Fds /\ sock[f] # "free"
        <4>1. CASE acceptor.pc = "registered" /\ acceptor.fd = f
          BY <4>1 DEF PlaceInv, AcceptorPlace, Busy
        <4>2. CASE \E j \in 1 .. Len(queue) : queue[j] = f
          BY <4>2 DEF PlaceInv, QueuePlace, TypeOK
        <4>3. CASE \E w \in Workers : handler[w].pc \in Known /\ handler[w].fd = f
          BY <4>3 DEF PlaceInv, HandlerPlace, Holding
        <4> QED
          BY <3>1, <4>1, <4>2, <4>3 DEF Recorded
      <3> QED
        BY <3>1
    <2>3. \A f : f \in Registered <=> f # NoFd
                   /\ \E i \in 1 .. MaxClients : g_clients[i] = f
      BY <2>1 DEF Registered
    <2>4. \A f : f \in Registered <=> Recorded(f)
      <3>1. ASSUME NEW f, f \in Registered PROVE Recorded(f)
        BY <2>3, <3>1 DEF RegistryInv
      <3>2. ASSUME NEW f, Recorded(f) PROVE f \in Registered
        BY <2>2, <2>3, <3>2, ConnectionsAssumption DEF RegistryInv
      <3> QED
        BY <3>1, <3>2
    <2>5. Registered = OnRecord
      BY <2>4, RecordedIsOnRecord
    <2>6. \A f \in OnRecord : sock[f] # "free"
      BY <2>2, RecordedIsOnRecord
    <2>7. \A i, j \in DOMAIN g_clients :
            g_clients[i] = g_clients[j] /\ i # j => g_clients[i] = NoFd
      BY <2>1 DEF RegistryInv
    <2> QED
      BY <2>5, <2>6, <2>7 DEF RegistryExact
  <1>3. SessionsExact
    <2>1. DOMAIN g_sessions = 1 .. MaxSessions
      BY DEF TypeOK
    <2>2. \A i \in DOMAIN g_sessions :
            /\ g_sessions[i].connections = Cardinality(Members(i))
            /\ g_sessions[i].used <=> Members(i) # {}
            /\ \A w \in Members(i) : g_sessions[i].peer = peer[handler[w].fd]
      BY <2>1 DEF SessionInv
    <2>3. \A w \in Workers : handler[w].pc \in Serving /\ handler[w].cookie = 0 =>
            \A id \in SessionIds : HelloSlots(id, peer[handler[w].fd]) # {}
      BY HelloFindsSlot
    <2> QED
      BY <2>2, <2>3 DEF SessionsExact
  <1>4. OwnersLive
    <2>1. DOMAIN owner = 1 .. MaxScans
      BY DEF TypeOK
    <2> QED
      BY <2>1 DEF OwnersLive, OwnerInv, Inside
  <1>5. CleanRestart
    <2>1. SUFFICES ASSUME supervisor \in {"down", "starting", "lost",
                                          "reopened", "cleanup"}
                   PROVE  /\ active = 0
                          /\ Registered = {}
                          /\ \A i \in DOMAIN g_sessions : g_sessions[i] = NoSession
                          /\ \A i \in DOMAIN owner : owner[i] = NoFd
                          /\ \A f \in Fds : sock[f] = "free"
      BY DEF CleanRestart
    <2>2. /\ acceptor.pc = "none" /\ queue = <<>> /\ Len(queue) = 0
          /\ \A w \in Workers : handler[w].pc = "idle"
      BY <2>1 DEF PhaseInv
    <2>3. /\ acceptor.pc \notin Busy
          /\ \A w \in Workers : /\ handler[w].pc \notin Holding
                                /\ handler[w].pc \notin Known
                                /\ handler[w].pc \notin InSession
                                /\ handler[w].pc \notin Inside
      BY <2>2 DEF Busy, Holding, Known, InSession, Inside, Serving
    <2>4. active = 0
      <3>1. Taken = {}
        BY <2>2 DEF Taken
      <3>2. Cardinality(Taken) = 0
        BY <3>1, FS_EmptySet
      <3> QED
        BY <2>2, <3>2 DEF CountInv, Counted, Taken
    <2>5. Registered = {}
      <3>1. \A f : ~Recorded(f)
        BY <2>2, <2>3 DEF Recorded
      <3> QED
        BY <1>2, <3>1, RecordedIsOnRecord DEF RegistryExact
    <2>6. \A i \in DOMAIN g_sessions : g_sessions[i] = NoSession
      <3>1. \A i \in 1 .. MaxSessions : Members(i) = {}
        BY <2>3 DEF Members, InSession, Inside
      <3> QED
        BY <3>1 DEF SessionInv, TypeOK
    <2>7. \A i \in DOMAIN owner : owner[i] = NoFd
      BY <2>3 DEF OwnerInv, TypeOK
    <2>8. \A f \in Fds : sock[f] = "free"
      BY <2>2, <2>3 DEF PlaceInv, OpenPlace
    <2> QED
      BY <2>4, <2>5, <2>6, <2>7, <2>8
  <1> QED
    BY <1>1, <1>2, <1>3, <1>4, <1>5

-----------------------------------------------------------------------------
LEMMA NextConnInv == ConnInv /\ [Next]_vars => ConnInv'
  <1> SUFFICES ASSUME ConnInv, [Next]_vars PROVE ConnInv'
    OBVIOUS
  <1>1. CASE AcceptorNext
    BY <1>1, AcceptorEnds, DropStep, RegistryStep, EnqueueStep, AcceptStep
       DEF AcceptorNext
  <1>2. ASSUME NEW w \in Workers, HandlerNext(w) PROVE ConnInv'
    <2>1. CASE RequestNext(w)
      BY <2>1, HelloStep, InsideActions, ScanStep DEF RequestNext
    <2>2. CASE LeaveNext(w)
      BY <2>2, InsideActions, ReleaseStep, LeaveSessionStep, UnregisterStep,
         CloseStep, UncountStep DEF LeaveNext
    <2> QED
      BY <1>2, <2>1, <2>2, StartStep, InsideActions DEF HandlerNext
  <1>3. CASE SupervisorNext \/ StopRequested \/ ListenerInvalidated
    BY <1>3, SupervisorActions
  <1>4. CASE UNCHANGED vars
    <2> USE <1>4 DEF vars, ConnInv
    <2>1. TypeOK'
      BY DEF TypeOK
    <2>2. PhaseInv'
      BY DEF PhaseInv
    <2>3. acceptor' = acceptor /\ \A f \in Fds : sock'[f] = "free" <=> sock[f] = "free"
      OBVIOUS
    <2> QED
      BY <2>1, <2>2, <2>3, QuietStep
  <1> QED
    BY <1>1, <1>2, <1>3, <1>4 DEF Next

(* Every descriptor, registry entry, session and scan slot belongs to the  *)
(* one place that the invariant gives it, whatever the threads do.         *)
THEOREM Ownership == Spec => []ConnInv
  <1> QED
    BY InitConnInv, NextConnInv, PTL DEF Spec

(* g_active_connections is exact and max_connections is kept, for any      *)
(* number of clients, handlers and restarts.                               *)
THEOREM CountIsExact == Spec => []CountExact
  <1>1. ConnInv => CountExact
    BY ConnInvImplies
  <1> QED
    BY <1>1, Ownership, PTL

(* acceptor_shutdown_clients reaches every live client and nobody else. *)
THEOREM RegistryIsExact == Spec => []RegistryExact
  <1>1. ConnInv => RegistryExact
    BY ConnInvImplies
  <1> QED
    BY <1>1, Ownership, PTL

(* The session table counts the connections of each session, and has an    *)
(* entry for every registered client that says HELLO.                      *)
THEOREM SessionsAreExact == Spec => []SessionsExact
  <1>1. ConnInv => SessionsExact
    BY ConnInvImplies
  <1> QED
    BY <1>1, Ownership, PTL

(* A scan slot belongs to one connection that is still being handled. *)
THEOREM OwnersAreLive == Spec => []OwnersLive
  <1>1. ConnInv => OwnersLive
    BY ConnInvImplies
  <1> QED
    BY <1>1, Ownership, PTL

(* A new pool starts from empty tables and free descriptors. *)
THEOREM RestartsAreClean == Spec => []CleanRestart
  <1>1. ConnInv => CleanRestart
    BY ConnInvImplies
  <1> QED
    BY <1>1, Ownership, PTL

(* The scan slot of a connection that is being served is never taken. *)
THEOREM ScanSlotsAreKept == Spec => ScanSlotKept
  <1> DEFINE Kept == \A w \in Workers, i \in DOMAIN owner :
                       /\ handler[w].pc \in Serving /\ handler'[w].pc \in Serving
                       /\ owner[i] = handler[w].fd
                       => owner'[i] = owner[i]
  <1>1. ConnInv /\ [Next]_vars => [Kept]_vars
    <2> SUFFICES ASSUME ConnInv, [Next]_vars PROVE Kept
      OBVIOUS
    <2> USE DEF ConnInv
    <2>1. DOMAIN owner = 1 .. MaxScans
      BY DEF TypeOK
    <2>2. \A w \in Workers : handler[w].pc \in Serving =>
            handler[w].fd \in Fds /\ handler[w].fd # NoFd
      BY ConnectionsAssumption
         DEF PlaceInv, HandlerPlace, Holding, Known, InSession, Inside
    <2>3. CASE owner' = owner
      BY <2>3
    <2>4. CASE Enter
      BY <2>4 DEF Enter, PhaseInv, Serving
    <2>5. ASSUME NEW v \in Workers, Scan(v) PROVE Kept
      BY <2>1, <2>2, <2>5, ScanStep
    <2>6. ASSUME NEW v \in Workers, ReleaseScan(v) PROVE Kept
      <3>1. /\ handler'[v].pc = "hello" /\ handler[v].pc = "release"
            /\ \A i \in 1 .. MaxScans :
                 owner[i] # handler[v].fd => owner'[i] = owner[i]
        BY <2>6, ReleaseStep DEF ReleaseScan
      <3>2. \A w \in Workers : handler[w].pc \in Serving =>
              w # v /\ handler[w].fd # handler[v].fd
        BY <3>1 DEF PlaceInv, HandlerPlace, Holding, Known, InSession, Inside,
                    Serving
      <3> QED
        BY <2>1, <3>1, <3>2
    <2>7. \/ owner' = owner \/ Enter
          \/ \E v \in Workers : Scan(v) \/ ReleaseScan(v)
      BY DEF vars, Next, AcceptorNext, HandlerNext, RequestNext, LeaveNext,
             SupervisorNext, AcceptorStops, AcceptorLosesListener,
             AcceptorDrops, AcceptorRegisters, AcceptorEnqueues, EnqueueFails,
             Accept, HandlerStarts, LoopStops, RequestArrives, ClientGone,
             Hello, PingOrGoodbye, DebugCommand, Shutdown, BudgetExhausted,
             LastClientCheck, LastClientDetach, LeaveSession, UnregisterClient,
             CloseClient, Uncount, StartAcceptor, StartFails, JoinAcceptor,
             ShutdownClients, PoolDrained, ListenerReopens, RecoveryStops,
             Cleanup, StopRequested, ListenerInvalidated
    <2> QED
      BY <2>3, <2>4, <2>5, <2>6, <2>7
  <1> HIDE DEF Kept
  <1>2. Spec => [][Kept]_vars
    BY <1>1, Ownership, PTL DEF Spec
  <1> QED
    BY <1>2, PTL DEF ScanSlotKept, Kept
=============================================================================
