-------------------------- MODULE ThreadPoolProofs --------------------------
(***************************************************************************)
(* Proofs about ThreadPool, for any number of workers, enqueuing threads   *)
(* and connections.                                                        *)
(***************************************************************************)
EXTENDS ThreadPool, TLAPS

(* queue_mtx is held by the one acceptor between its locked test of the    *)
(* flag and its append.                                                    *)
MutexInv == \A a \in Acceptors : acceptor[a] = "locked" <=> mtx = a

(* The heart of the shutdown argument: once one worker has left, the flag  *)
(* is up, the queue is empty and nobody is between test and append - and   *)
(* since the flag stays up, nobody ever will be again.                     *)
ExitInv == (\E w \in Workers : worker[w] = "exited")
             => shutting_down /\ queue = <<>> /\ mtx = Nobody

(* The shutdown joins every worker that was started, and one was. *)
ShutterInv ==
  /\ shutter # "idle" => shutting_down
  /\ shutter \in {"joined", "done"}
       => \A w \in Workers : worker[w] \in {"absent", "exited"}
  /\ \E w \in Workers : worker[w] # "absent"

(* A connection is in one place: with the acceptor that offers it, in the  *)
(* queue, or with the worker that serves it.                               *)
OfferInv ==
  /\ \A a \in Acceptors : acceptor[a] # "idle"
       => offered[a] \in Conns /\ fate[offered[a]] = "offered"
  /\ \A a, b \in Acceptors :
       acceptor[a] # "idle" /\ acceptor[b] # "idle" /\ offered[a] = offered[b]
         => a = b

PlaceInv ==
  /\ \A i \in 1..Len(queue) : fate[queue[i]] = "taken"
  /\ \A i, j \in 1..Len(queue) : queue[i] = queue[j] => i = j
  /\ \A w \in Workers : worker[w] = "handle"
       => /\ serving[w] \in Conns
          /\ fate[serving[w]] = "taken"
          /\ \A i \in 1..Len(queue) : queue[i] # serving[w]
  /\ \A v, w \in Workers :
       worker[v] = "handle" /\ worker[w] = "handle" /\ serving[v] = serving[w]
         => v = w

NoneDropped == \A c \in Conns : fate[c] # "dropped"

PoolInv == /\ TypeOK /\ MutexInv /\ ExitInv /\ ShutterInv
           /\ OfferInv /\ PlaceInv /\ NoneDropped

-----------------------------------------------------------------------------
(* The initial states satisfy the invariant. *)
LEMMA InitPoolInv == Init => PoolInv
  <1> SUFFICES ASSUME Init PROVE PoolInv
    OBVIOUS
  <1> USE ThreadPoolAssumption DEF Init
  <1>1. /\ worker \in [Workers -> {"absent", "lock"}]
        /\ \E w \in Workers : worker[w] = "lock"
    OBVIOUS
  <1>2. queue \in Seq(Conns) /\ Len(queue) = 0
    OBVIOUS
  <1>3. TypeOK
    BY <1>1, <1>2 DEF TypeOK
  <1>4. MutexInv /\ ExitInv /\ ShutterInv /\ OfferInv /\ NoneDropped
    BY <1>1 DEF MutexInv, ExitInv, ShutterInv, OfferInv, NoneDropped
  <1>5. PlaceInv
    BY <1>1, <1>2 DEF PlaceInv
  <1> QED BY <1>3, <1>4, <1>5 DEF PoolInv

(* The steps of a worker preserve it. *)
LEMMA WorkerPreserves ==
  ASSUME PoolInv, NEW w \in Workers, WorkerStep(w) PROVE PoolInv'
  <1> USE ThreadPoolAssumption
  <1>1. CASE WorkerWait(w) \/ SpuriousWakeup(w) \/ WorkerExit(w)
    BY <1>1 DEF WorkerWait, SpuriousWakeup, WorkerExit, PoolInv, TypeOK,
         MutexInv, ExitInv, ShutterInv, OfferInv, PlaceInv, NoneDropped
  <1>2. CASE WorkerDequeue(w)
    <2> USE <1>2 DEF WorkerDequeue
    <2>1. /\ Head(queue) \in Conns /\ Head(queue) = queue[1]
          /\ Tail(queue) \in Seq(Conns)
          /\ Len(queue) \in Nat \ {0}
          /\ Len(Tail(queue)) = Len(queue) - 1
          /\ \A i \in 1..Len(Tail(queue)) : Tail(queue)[i] = queue[i + 1]
      BY DEF PoolInv, TypeOK
    <2>2. TypeOK'
      BY <2>1 DEF PoolInv, TypeOK
    <2>3. MutexInv' /\ ExitInv' /\ ShutterInv' /\ OfferInv' /\ NoneDropped'
      BY <2>1 DEF PoolInv, TypeOK, MutexInv, ExitInv, ShutterInv, OfferInv,
                  NoneDropped
    <2>4. PlaceInv'
      <3>1. \A i \in 1..Len(queue') : i + 1 \in 1..Len(queue)
                                      /\ queue'[i] = queue[i + 1]
        BY <2>1
      <3>2. \A i \in 1..Len(queue') : fate'[queue'[i]] = "taken"
        BY <3>1 DEF PoolInv, PlaceInv
      <3>3. \A i, j \in 1..Len(queue') : queue'[i] = queue'[j] => i = j
        <4> SUFFICES ASSUME NEW i \in 1..Len(queue'), NEW j \in 1..Len(queue'),
                            queue'[i] = queue'[j]
                     PROVE i = j
          OBVIOUS
        <4>1. queue[i + 1] = queue[j + 1]
          BY <3>1
        <4>2. i + 1 = j + 1
          BY <3>1, <4>1 DEF PoolInv, PlaceInv
        <4> QED BY <4>2
      <3>4. \A i \in 1..Len(queue') : queue'[i] # queue[1]
        <4> SUFFICES ASSUME NEW i \in 1..Len(queue'), queue'[i] = queue[1]
                     PROVE FALSE
          OBVIOUS
        <4>1. i + 1 \in 1..Len(queue) /\ 1 \in 1..Len(queue)
          BY <3>1, <2>1
        <4>2. i + 1 = 1
          BY <3>1, <4>1 DEF PoolInv, PlaceInv
        <4> QED BY <4>2
      <3>5. 1 \in 1..Len(queue) /\ fate[queue[1]] = "taken"
        BY <2>1 DEF PoolInv, PlaceInv
      <3>6. ASSUME NEW v \in Workers, worker'[v] = "handle"
            PROVE  /\ serving'[v] \in Conns
                   /\ fate'[serving'[v]] = "taken"
                   /\ \A i \in 1..Len(queue') : queue'[i] # serving'[v]
        <4>1. CASE v = w
          BY <4>1, <3>4, <3>5, <2>1 DEF PoolInv, TypeOK
        <4>2. CASE v # w
          BY <4>2, <3>6, <3>1 DEF PoolInv, PlaceInv, TypeOK
        <4> QED BY <4>1, <4>2
      <3>7. ASSUME NEW u \in Workers, NEW v \in Workers,
                   worker'[u] = "handle", worker'[v] = "handle",
                   serving'[u] = serving'[v]
            PROVE  u = v
        BY <3>7, <3>5, <2>1 DEF PoolInv, PlaceInv, TypeOK
      <3> QED BY <3>2, <3>3, <3>6, <3>7 DEF PlaceInv
    <2> QED BY <2>2, <2>3, <2>4 DEF PoolInv
  <1>3. CASE WorkerHandled(w)
    <2> USE <1>3 DEF WorkerHandled
    <2>1. serving[w] \in Conns /\ fate[serving[w]] = "taken"
      BY DEF PoolInv, PlaceInv
    <2>2. TypeOK' /\ MutexInv' /\ ExitInv' /\ ShutterInv' /\ NoneDropped'
      BY <2>1 DEF PoolInv, TypeOK, MutexInv, ExitInv, ShutterInv, NoneDropped
    <2>3. OfferInv'
      BY <2>1 DEF PoolInv, OfferInv, TypeOK
    <2>4. PlaceInv'
      BY <2>1 DEF PoolInv, PlaceInv, TypeOK
    <2> QED BY <2>2, <2>3, <2>4 DEF PoolInv
  <1> QED BY <1>1, <1>2, <1>3 DEF WorkerStep

(* The steps of an enqueuing thread preserve it. *)
LEMMA EnqueuePreserves ==
  ASSUME PoolInv, NEW a \in Acceptors, Enqueue(a) \/ EnqueueStep(a)
  PROVE  PoolInv'
  <1> USE ThreadPoolAssumption
  <1>1. ASSUME NEW c \in Conns, EnqueueRefusedEarly(a, c) PROVE PoolInv'
    BY <1>1 DEF EnqueueRefusedEarly, PoolInv, TypeOK, MutexInv, ExitInv,
         ShutterInv, OfferInv, PlaceInv, NoneDropped
  <1>2. ASSUME NEW c \in Conns, EnqueueChecked(a, c) PROVE PoolInv'
    <2> USE <1>2 DEF EnqueueChecked
    <2>1. TypeOK' /\ MutexInv' /\ ExitInv' /\ ShutterInv' /\ NoneDropped'
      BY DEF PoolInv, TypeOK, MutexInv, ExitInv, ShutterInv, NoneDropped
    <2>2. OfferInv'
      BY DEF PoolInv, OfferInv, TypeOK
    <2>3. PlaceInv'
      BY DEF PoolInv, PlaceInv, TypeOK
    <2> QED BY <2>1, <2>2, <2>3 DEF PoolInv
  <1>3. CASE EnqueueRefusedLate(a)
    <2> USE <1>3 DEF EnqueueRefusedLate
    <2>1. offered[a] \in Conns /\ fate[offered[a]] = "offered"
      BY DEF PoolInv, OfferInv
    <2>2. TypeOK' /\ MutexInv' /\ ExitInv' /\ ShutterInv' /\ NoneDropped'
      BY <2>1 DEF PoolInv, TypeOK, MutexInv, ExitInv, ShutterInv, NoneDropped
    <2>3. OfferInv'
      BY <2>1 DEF PoolInv, OfferInv, TypeOK
    <2>4. PlaceInv'
      BY <2>1 DEF PoolInv, PlaceInv, TypeOK
    <2> QED BY <2>2, <2>3, <2>4 DEF PoolInv
  <1>4. CASE EnqueueLock(a)
    BY <1>4 DEF EnqueueLock, PoolInv, TypeOK, MutexInv, ExitInv,
         ShutterInv, OfferInv, PlaceInv, NoneDropped
  <1>5. CASE EnqueueAppend(a)
    <2> USE <1>5 DEF EnqueueAppend
    <2>1. offered[a] \in Conns /\ fate[offered[a]] = "offered"
      BY DEF PoolInv, OfferInv
    <2>2. mtx = a
      BY DEF PoolInv, MutexInv
    <2>3. /\ queue' \in Seq(Conns)
          /\ Len(queue) \in Nat
          /\ Len(queue') = Len(queue) + 1
          /\ queue'[Len(queue) + 1] = offered[a]
          /\ \A i \in 1..Len(queue) : queue'[i] = queue[i]
      BY <2>1 DEF PoolInv, TypeOK
    <2>4. /\ worker' \in [Workers -> {"absent", "lock", "wait", "handle", "exited"}]
          /\ \A w \in Workers :
               \/ worker'[w] = worker[w]
               \/ worker[w] = "wait" /\ worker'[w] = "lock"
      BY DEF Signal, PoolInv, TypeOK
    <2>5. TypeOK'
      BY <2>1, <2>3, <2>4 DEF PoolInv, TypeOK
    <2>6. MutexInv' /\ ShutterInv' /\ NoneDropped'
      BY <2>1, <2>2, <2>4 DEF PoolInv, TypeOK, MutexInv, ShutterInv, NoneDropped
    <2>7. ExitInv'
      BY <2>2, <2>4 DEF PoolInv, ExitInv
    <2>8. OfferInv'
      BY <2>1 DEF PoolInv, OfferInv, TypeOK
    <2>9. PlaceInv'
      <3>1. \A i \in 1..Len(queue) : queue[i] # offered[a]
        BY <2>1 DEF PoolInv, PlaceInv
      <3>2. \A i \in 1..Len(queue') :
              \/ i \in 1..Len(queue) /\ queue'[i] = queue[i]
              \/ i = Len(queue) + 1 /\ queue'[i] = offered[a]
        BY <2>3
      <3>3. \A i \in 1..Len(queue') : fate'[queue'[i]] = "taken"
        BY <3>2, <2>1, <2>3 DEF PoolInv, PlaceInv, TypeOK
      <3>4. \A i, j \in 1..Len(queue') : queue'[i] = queue'[j] => i = j
        BY <3>1, <3>2, <2>3 DEF PoolInv, PlaceInv
      <3>5. ASSUME NEW w \in Workers, worker'[w] = "handle"
            PROVE  /\ worker[w] = "handle"
                   /\ serving[w] \in Conns
                   /\ serving[w] # offered[a]
                   /\ fate'[serving[w]] = "taken"
                   /\ \A i \in 1..Len(queue') : queue'[i] # serving[w]
        BY <3>5, <3>2, <2>1, <2>4 DEF PoolInv, PlaceInv, TypeOK
      <3> QED BY <3>3, <3>4, <3>5 DEF PoolInv, PlaceInv
    <2> QED BY <2>5, <2>6, <2>7, <2>8, <2>9 DEF PoolInv
  <1> QED BY <1>1, <1>2, <1>3, <1>4, <1>5 DEF Enqueue, EnqueueStep

(* The steps of the shutdown preserve it. *)
LEMMA ShutdownPreserves == ASSUME PoolInv, Shutdown PROVE PoolInv'
  <1> USE ThreadPoolAssumption
  <1>1. CASE ShutdownFlag
    BY <1>1 DEF ShutdownFlag, PoolInv, TypeOK, MutexInv, ExitInv, ShutterInv,
         OfferInv, PlaceInv, NoneDropped
  <1>2. CASE ShutdownWake
    BY <1>2 DEF ShutdownWake, Broadcast, PoolInv, TypeOK, MutexInv, ExitInv,
         ShutterInv, OfferInv, PlaceInv, NoneDropped
  <1>3. CASE ShutdownJoined
    BY <1>3 DEF ShutdownJoined, PoolInv, TypeOK, MutexInv, ExitInv, ShutterInv,
         OfferInv, PlaceInv, NoneDropped
  <1>4. CASE ShutdownDrain
    <2> USE <1>4 DEF ShutdownDrain
    <2>1. queue = <<>>
      BY DEF PoolInv, ShutterInv, ExitInv
    <2>2. fate' = fate
      BY <2>1 DEF PoolInv, TypeOK
    <2> QED
      BY <2>1, <2>2 DEF PoolInv, TypeOK, MutexInv, ExitInv, ShutterInv,
           OfferInv, PlaceInv, NoneDropped
  <1> QED BY <1>1, <1>2, <1>3, <1>4 DEF Shutdown

(* PoolInv is an inductive invariant of the pool. *)
THEOREM PoolInvariant == Spec => []PoolInv
  <1>1. PoolInv /\ [Next]_vars => PoolInv'
    <2> SUFFICES ASSUME PoolInv, [Next]_vars PROVE PoolInv'
      OBVIOUS
    <2>1. CASE UNCHANGED vars
      BY <2>1 DEF vars, PoolInv, TypeOK, MutexInv, ExitInv, ShutterInv,
           OfferInv, PlaceInv, NoneDropped
    <2> QED
      BY <2>1, WorkerPreserves, EnqueuePreserves, ShutdownPreserves DEF Next
  <1> QED BY <1>1, InitPoolInv, PTL DEF Spec

(* Every state of the pool is well typed. *)
THEOREM TypeCorrect == Spec => []TypeOK
  BY PoolInvariant, PTL DEF PoolInv

(* The drain loop of memdbg_thread_pool_shutdown never finds a connection  *)
(* to drop, for any number of workers, acceptors and connections.          *)
THEOREM DrainIsEmpty == Spec => []DrainFindsNothing
  <1>1. PoolInv => DrainFindsNothing
    BY DEF PoolInv, DrainFindsNothing, NoneDropped, ShutterInv, ExitInv
  <1> QED BY <1>1, PoolInvariant, PTL

(* The pool implements the contract its caller relies on: a connection is  *)
(* refused, or taken and then served by exactly one handler.               *)
THEOREM PoolImplementsService == Spec => ImplementsService
  <1> DEFINE seen == [c \in Conns |->
                        IF fate[c] = "offered" THEN "new" ELSE fate[c]]
  <1>1. Init => Service!Init
    BY DEF Init, Service!Init
  <1>2. PoolInv /\ PoolInv' /\ [Next]_vars => [Service!Next]_seen
    <2> SUFFICES ASSUME PoolInv, [Next]_vars PROVE [Service!Next]_seen
      OBVIOUS
    <2> USE DEF PoolInv, TypeOK
    <2>1. ASSUME NEW w \in Workers, WorkerHandled(w) PROVE Service!Next
      <3>1. serving[w] \in Conns /\ fate[serving[w]] = "taken"
        BY <2>1 DEF WorkerHandled, PlaceInv
      <3>2. PICK c \in Conns : c = serving[w]
        BY <3>1
      <3>3. Service!Serve(c)
        BY <2>1, <3>1, <3>2 DEF WorkerHandled, Service!Serve
      <3> QED BY <3>3 DEF Service!Next
    <2>2. ASSUME NEW w \in Workers, WorkerStep(w), ~WorkerHandled(w)
          PROVE UNCHANGED seen
      BY <2>2 DEF WorkerStep, WorkerWait, SpuriousWakeup, WorkerExit,
           WorkerDequeue
    <2>3. ASSUME NEW a \in Acceptors, NEW c \in Conns, EnqueueRefusedEarly(a, c)
          PROVE Service!Next
      <3>1. Service!Refuse(c)
        BY <2>3 DEF EnqueueRefusedEarly, Service!Refuse
      <3> QED BY <3>1 DEF Service!Next
    <2>4. ASSUME NEW a \in Acceptors, NEW c \in Conns, EnqueueChecked(a, c)
          PROVE UNCHANGED seen
      BY <2>4 DEF EnqueueChecked
    <2>5. ASSUME NEW a \in Acceptors, EnqueueRefusedLate(a) PROVE Service!Next
      <3>1. offered[a] \in Conns /\ fate[offered[a]] = "offered"
        BY <2>5 DEF EnqueueRefusedLate, OfferInv
      <3>2. PICK c \in Conns : c = offered[a]
        BY <3>1
      <3>3. Service!Refuse(c)
        BY <2>5, <3>1, <3>2 DEF EnqueueRefusedLate, Service!Refuse
      <3> QED BY <3>3 DEF Service!Next
    <2>6. ASSUME NEW a \in Acceptors, EnqueueLock(a) PROVE UNCHANGED seen
      BY <2>6 DEF EnqueueLock
    <2>7. ASSUME NEW a \in Acceptors, EnqueueAppend(a) PROVE Service!Next
      <3>1. offered[a] \in Conns /\ fate[offered[a]] = "offered"
        BY <2>7 DEF EnqueueAppend, OfferInv
      <3>2. PICK c \in Conns : c = offered[a]
        BY <3>1
      <3>3. Service!Take(c)
        BY <2>7, <3>1, <3>2 DEF EnqueueAppend, Service!Take
      <3> QED BY <3>3 DEF Service!Next
    <2>8. ASSUME Shutdown PROVE UNCHANGED seen
      <3>1. ASSUME ShutdownDrain PROVE fate' = fate
        <4>1. queue = <<>>
          BY <3>1 DEF ShutdownDrain, ShutterInv, ExitInv
        <4> QED BY <3>1, <4>1 DEF ShutdownDrain
      <3> QED
        BY <2>8, <3>1 DEF Shutdown, ShutdownFlag, ShutdownWake, ShutdownJoined
    <2>9. CASE UNCHANGED vars
      BY <2>9 DEF vars
    <2> QED
      BY <2>1, <2>2, <2>3, <2>4, <2>5, <2>6, <2>7, <2>8, <2>9
      DEF Next, Enqueue, EnqueueStep
  <1> QED
    BY <1>1, <1>2, PoolInvariant, PTL DEF Spec, ImplementsService, Service!Spec
=============================================================================
