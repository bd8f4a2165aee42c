----------------------------- MODULE ThreadPool -----------------------------
(***************************************************************************)
(* The fixed pool of handler threads of src/core/daemon/thread_pool.c: a   *)
(* FIFO of connections guarded by queue_mtx, a condition variable the      *)
(* workers sleep on, and an atomic shutting_down flag that is set WITHOUT  *)
(* the mutex.                                                              *)
(*                                                                         *)
(* Grain.  Whatever a thread does inside queue_mtx is one action, except   *)
(* the critical section of the enqueue: the flag can be set between its    *)
(* second test of the flag and the append, so that section is two actions  *)
(* and mtx records who is inside.  Enqueue and shutdown run concurrently   *)
(* here because the enqueue defends itself against exactly that.           *)
(***************************************************************************)
EXTENDS Naturals, Sequences

CONSTANTS Workers,      \* the threads memdbg_thread_pool_create tries to start
          Acceptors,    \* the threads that enqueue
          Conns,        \* the connections (connection_args_t) handed over
          Nobody        \* no thread, no connection

ASSUME ThreadPoolAssumption ==
  /\ Nobody \notin Workers \cup Acceptors \cup Conns
  /\ Workers # {}

VARIABLES queue,          \* queue_head .. queue_tail
          shutting_down,  \* the atomic flag
          mtx,            \* the acceptor inside queue_mtx, or Nobody
          worker,         \* program counter of each worker thread
          serving,        \* the connection a worker handles
          acceptor,       \* program counter of each enqueuing thread
          offered,        \* the connection an acceptor enqueues
          shutter,        \* program counter of memdbg_thread_pool_shutdown
          fate            \* what became of each connection

vars == <<queue, shutting_down, mtx, worker, serving, acceptor, offered,
          shutter, fate>>

TypeOK ==
  /\ queue \in Seq(Conns)
  /\ shutting_down \in BOOLEAN
  /\ mtx \in Acceptors \cup {Nobody}
  /\ worker \in [Workers -> {"absent", "lock", "wait", "handle", "exited"}]
  /\ serving \in [Workers -> Conns \cup {Nobody}]
  /\ acceptor \in [Acceptors -> {"idle", "checked", "locked"}]
  /\ offered \in [Acceptors -> Conns \cup {Nobody}]
  /\ shutter \in {"idle", "flagged", "joining", "joined", "done"}
  /\ fate \in [Conns -> {"new", "offered", "taken", "refused", "served",
                         "dropped"}]

(***************************************************************************)
(* memdbg_thread_pool_create: pthread_create may fail for some workers;    *)
(* the pool exists as long as one of them started.                         *)
(***************************************************************************)
Init ==
  /\ queue = <<>>
  /\ shutting_down = FALSE
  /\ mtx = Nobody
  /\ worker \in {f \in [Workers -> {"absent", "lock"}] :
                   \E w \in Workers : f[w] = "lock"}
  /\ serving = [w \in Workers |-> Nobody]
  /\ acceptor = [a \in Acceptors |-> "idle"]
  /\ offered = [a \in Acceptors |-> Nobody]
  /\ shutter = "idle"
  /\ fate = [c \in Conns |-> "new"]

-----------------------------------------------------------------------------
(* pool_worker *)

(* pthread_cond_wait: queue empty and no shutdown; releases the mutex. *)
WorkerWait(w) ==
  /\ worker[w] = "lock" /\ mtx = Nobody
  /\ queue = <<>> /\ ~shutting_down
  /\ worker' = [worker EXCEPT ![w] = "wait"]
  /\ UNCHANGED <<queue, shutting_down, mtx, serving, acceptor, offered,
                 shutter, fate>>

(* POSIX allows pthread_cond_wait to return without a signal. *)
SpuriousWakeup(w) ==
  /\ worker[w] = "wait"
  /\ worker' = [worker EXCEPT ![w] = "lock"]
  /\ UNCHANGED <<queue, shutting_down, mtx, serving, acceptor, offered,
                 shutter, fate>>

(* Slip: leaving as soon as the flag is up, with connections still queued. *)
WorkerExitSlip(w) ==
  /\ worker[w] = "lock" /\ mtx = Nobody
  /\ shutting_down
  /\ worker' = [worker EXCEPT ![w] = "exited"]
  /\ UNCHANGED <<queue, shutting_down, mtx, serving, acceptor, offered,
                 shutter, fate>>

WorkerExit(w) ==
  /\ worker[w] = "lock" /\ mtx = Nobody
  /\ queue = <<>> /\ shutting_down
  /\ worker' = [worker EXCEPT ![w] = "exited"]
  /\ UNCHANGED <<queue, shutting_down, mtx, serving, acceptor, offered,
                 shutter, fate>>

WorkerDequeue(w) ==
  /\ worker[w] = "lock" /\ mtx = Nobody
  /\ queue # <<>>
  /\ queue' = Tail(queue)
  /\ serving' = [serving EXCEPT ![w] = Head(queue)]
  /\ worker' = [worker EXCEPT ![w] = "handle"]
  /\ UNCHANGED <<shutting_down, mtx, acceptor, offered, shutter, fate>>

(* connection_handler_thread returns; the worker goes for the next one. *)
WorkerHandled(w) ==
  /\ worker[w] = "handle"
  /\ fate' = [fate EXCEPT ![serving[w]] = "served"]
  /\ serving' = [serving EXCEPT ![w] = Nobody]
  /\ worker' = [worker EXCEPT ![w] = "lock"]
  /\ UNCHANGED <<queue, shutting_down, mtx, acceptor, offered, shutter>>

-----------------------------------------------------------------------------
(* memdbg_thread_pool_enqueue *)

(* The first, unlocked test of the flag, and the malloc that may fail. *)
EnqueueRefusedEarly(a, c) ==
  /\ acceptor[a] = "idle" /\ fate[c] = "new"
  /\ fate' = [fate EXCEPT ![c] = "refused"]
  /\ UNCHANGED <<queue, shutting_down, mtx, worker, serving, acceptor,
                 offered, shutter>>

EnqueueChecked(a, c) ==
  /\ acceptor[a] = "idle" /\ fate[c] = "new"
  /\ ~shutting_down
  /\ acceptor' = [acceptor EXCEPT ![a] = "checked"]
  /\ offered' = [offered EXCEPT ![a] = c]
  /\ fate' = [fate EXCEPT ![c] = "offered"]
  /\ UNCHANGED <<queue, shutting_down, mtx, worker, serving, shutter>>

(* Lock, and test the flag again under the lock. *)
EnqueueRefusedLate(a) ==
  /\ acceptor[a] = "checked" /\ mtx = Nobody
  /\ shutting_down
  /\ acceptor' = [acceptor EXCEPT ![a] = "idle"]
  /\ offered' = [offered EXCEPT ![a] = Nobody]
  /\ fate' = [fate EXCEPT ![offered[a]] = "refused"]
  /\ UNCHANGED <<queue, shutting_down, mtx, worker, serving, shutter>>

(* Slip: trusting the unlocked test, no second test under the lock. *)
EnqueueLockSlip(a) ==
  /\ acceptor[a] = "checked" /\ mtx = Nobody
  /\ mtx' = a
  /\ acceptor' = [acceptor EXCEPT ![a] = "locked"]
  /\ UNCHANGED <<queue, shutting_down, worker, serving, offered, shutter, fate>>

EnqueueLock(a) ==
  /\ acceptor[a] = "checked" /\ mtx = Nobody
  /\ ~shutting_down
  /\ mtx' = a
  /\ acceptor' = [acceptor EXCEPT ![a] = "locked"]
  /\ UNCHANGED <<queue, shutting_down, worker, serving, offered, shutter, fate>>

(* Slip: the new node is linked but nobody is signalled. *)
SignalSlip == UNCHANGED worker

(* pthread_cond_signal wakes one sleeping worker if there is one. *)
Signal ==
  \/ \E w \in Workers : /\ worker[w] = "wait"
                        /\ worker' = [worker EXCEPT ![w] = "lock"]
  \/ /\ \A w \in Workers : worker[w] # "wait"
     /\ UNCHANGED worker

(* Slip: the node is linked without its connection (no node->args = args). *)
EnqueueAppendSlip(a) ==
  /\ acceptor[a] = "locked"
  /\ queue' = Append(queue, Nobody)
  /\ Signal
  /\ mtx' = Nobody
  /\ acceptor' = [acceptor EXCEPT ![a] = "idle"]
  /\ offered' = [offered EXCEPT ![a] = Nobody]
  /\ fate' = [fate EXCEPT ![offered[a]] = "taken"]
  /\ UNCHANGED <<shutting_down, serving, shutter>>

EnqueueAppend(a) ==
  /\ acceptor[a] = "locked"
  /\ queue' = Append(queue, offered[a])
  /\ Signal
  /\ mtx' = Nobody
  /\ acceptor' = [acceptor EXCEPT ![a] = "idle"]
  /\ offered' = [offered EXCEPT ![a] = Nobody]
  /\ fate' = [fate EXCEPT ![offered[a]] = "taken"]
  /\ UNCHANGED <<shutting_down, serving, shutter>>

-----------------------------------------------------------------------------
(* memdbg_thread_pool_shutdown, called once per pool by the supervisor *)

ShutdownFlag ==
  /\ shutter = "idle"
  /\ shutting_down' = TRUE
  /\ shutter' = "flagged"
  /\ UNCHANGED <<queue, mtx, worker, serving, acceptor, offered, fate>>

(* Slip: pthread_cond_signal instead of pthread_cond_broadcast. *)
BroadcastSlip ==
  IF \E w \in Workers : worker[w] = "wait"
  THEN [worker EXCEPT ![CHOOSE w \in Workers : worker[w] = "wait"] = "lock"]
  ELSE worker

Broadcast == [w \in Workers |-> IF worker[w] = "wait" THEN "lock" ELSE worker[w]]

ShutdownWake ==
  /\ shutter = "flagged" /\ mtx = Nobody
  /\ worker' = Broadcast
  /\ shutter' = "joining"
  /\ UNCHANGED <<queue, shutting_down, mtx, serving, acceptor, offered, fate>>

(* pthread_join of every worker that was started. *)
ShutdownJoined ==
  /\ shutter = "joining"
  /\ \A w \in Workers : worker[w] \in {"absent", "exited"}
  /\ shutter' = "joined"
  /\ UNCHANGED <<queue, shutting_down, mtx, worker, serving, acceptor, offered,
                 fate>>

(* Whatever is still queued is closed and freed; no handler runs for it. *)
ShutdownDrain ==
  /\ shutter = "joined" /\ mtx = Nobody
  /\ fate' = [c \in Conns |->
                IF \E i \in 1..Len(queue) : queue[i] = c THEN "dropped" ELSE fate[c]]
  /\ queue' = <<>>
  /\ shutter' = "done"
  /\ UNCHANGED <<shutting_down, mtx, worker, serving, acceptor, offered>>

-----------------------------------------------------------------------------
WorkerStep(w) == \/ WorkerWait(w) \/ SpuriousWakeup(w) \/ WorkerExit(w)
                 \/ WorkerDequeue(w) \/ WorkerHandled(w)

EnqueueStep(a) == EnqueueRefusedLate(a) \/ EnqueueLock(a) \/ EnqueueAppend(a)

Enqueue(a) == \E c \in Conns : EnqueueRefusedEarly(a, c) \/ EnqueueChecked(a, c)

Shutdown == ShutdownFlag \/ ShutdownWake \/ ShutdownJoined \/ ShutdownDrain

Next == \/ \E w \in Workers : WorkerStep(w)
        \/ \E a \in Acceptors : Enqueue(a) \/ EnqueueStep(a)
        \/ Shutdown

Spec == Init /\ [][Next]_vars

(***************************************************************************)
(* Threads are scheduled and mutexes are eventually granted.  A handler    *)
(* runs as long as its client stays connected, so that one returns is      *)
(* promised only once the flag is up: the supervisor shuts every client    *)
(* socket down before it shuts the pool down.  Nothing forces the acceptor *)
(* to enqueue or the supervisor to begin a shutdown, and no spurious       *)
(* wake-up is ever promised.                                               *)
(***************************************************************************)
WorkerProgress(w) == \/ WorkerExit(w) \/ WorkerDequeue(w)
                     \/ shutting_down /\ WorkerHandled(w)

FairSpec ==
  /\ Spec
  /\ \A w \in Workers : SF_vars(WorkerProgress(w)) /\ WF_vars(WorkerWait(w))
  /\ \A a \in Acceptors : SF_vars(EnqueueStep(a))
  /\ SF_vars(ShutdownWake) /\ WF_vars(ShutdownJoined) /\ SF_vars(ShutdownDrain)
-----------------------------------------------------------------------------
(* Properties *)

(* When memdbg_thread_pool_shutdown has joined the workers, its drain loop  *)
(* finds an empty queue: the flag is set outside queue_mtx, yet no append   *)
(* can slip in behind the last worker.  The drain loop closes the socket    *)
(* without giving back g_active_connections or the client registry slot,    *)
(* so a connection that reached it would be leaked.                         *)
DrainFindsNothing ==
  /\ shutter = "joined" => queue = <<>>
  /\ \A c \in Conns : fate[c] # "dropped"

(* To its caller, memdbg_thread_pool_enqueue is ConnectionService: it       *)
(* refuses a connection or takes it for exactly one handler, whatever the   *)
(* order in which the flag, the mutex and the condition variable are used.  *)
Service == INSTANCE ConnectionService
             WITH fate <- [c \in Conns |->
                             IF fate[c] = "offered" THEN "new" ELSE fate[c]]
ImplementsService == Service!Spec

(* No wake-up is lost: a connection that stays in the queue for ever does   *)
(* so because every worker that was started is for ever with a client.      *)
(* The signal of an enqueue goes to one sleeper and may come while another  *)
(* worker is on its way from pthread_cond_wait to the mutex; still no       *)
(* worker sleeps, or spins, beside a connection that waits.                 *)
Queued(c) == \E i \in 1..Len(queue) : queue[i] = c
WaitsOnlyForClients ==
  \A c \in Conns :
    <>[]Queued(c) => <>[](\A w \in Workers : worker[w] \in {"absent", "handle"})

(* memdbg_thread_pool_shutdown returns: every worker asleep on queue_cv     *)
(* when the flag goes up learns of it.                                      *)
ShutdownReturns == shutter = "flagged" ~> shutter = "done"
=============================================================================
