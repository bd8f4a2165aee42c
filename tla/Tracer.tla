------------------------------- MODULE Tracer -------------------------------
(***************************************************************************)
(* The tracer service of src/tracer/memdbg_tracer_daemon.c with the        *)
(* protocol handlers that drive it: a thread that ptraces one process and  *)
(* records what it does in a ring buffer, a start and a stop that share a  *)
(* static pthread handle, and polls that read the ring without the mutex.  *)
(*                                                                         *)
(* Grain.  A critical section of g_mtx is one action: nothing blocks       *)
(* inside one.  Start and stop release the mutex around pthread_join,      *)
(* pthread_create and kill, so each is a sequence of actions.  The ring is *)
(* lock-free, so a push is three actions and a pop one per load, per       *)
(* copied event and per store.                                             *)
(*                                                                         *)
(* There is one target process.  An event is the number of its push, so a  *)
(* reader's output shows losses, repetitions and reordering.               *)
(***************************************************************************)
EXTENDS Integers, Sequences, FiniteSets

CONSTANTS Controls,    \* handler threads that serve attach and detach requests
          Pollers,     \* handler threads that serve TRACER_POLL
          RingSize,    \* TRACER_DAEMON_RING_SIZE
          IndexMod,    \* 2^32: head and tail are unsigned 32-bit counters
          PollMax,     \* the 256 events of handle_tracer_poll
          MaxThreads,  \* bound: tracer threads started in a behaviour
          MaxEvents    \* bound: what the target does by itself

ASSUME TracerAssumption ==
  /\ RingSize \in Nat \ {0} /\ PollMax \in Nat \ {0}
  /\ MaxThreads \in Nat \ {0} /\ MaxEvents \in Nat
  /\ IndexMod \in Nat /\ IndexMod > RingSize + 1 /\ IndexMod % RingSize = 0

VARIABLES g,        \* the fields guarded by g_mtx
          handle,   \* g_thread
          joined,   \* the handles pthread_join has consumed
          ring,     \* g_ring
          head,     \* g_head
          tail,     \* g_tail
          thread,   \* the tracer threads: program counter, event in hand
          control,  \* the handlers that start and stop the tracer
          poller,   \* the handlers that poll
          target,   \* the traced process
          dbg,      \* whom the debugger session is attached to
          crossed,  \* two control requests have been under way at once
          pushed,   \* events recorded so far: the number of the next event
          last,     \* the last event a poll has delivered, None after a loss
          raced     \* the ring overflowed, or was reset, under a reader

vars == <<g, handle, joined, ring, head, tail, thread, control, poller, target,
          dbg, crossed, pushed, last, raced>>

Threads == 1..MaxThreads
NoThread == 0
Stop == "SIGSTOP"
Causes == {Stop, "syscall", "crash", "exit"}
IdleControl == [pc |-> "idle", wake |-> FALSE, join |-> FALSE, pid |-> FALSE,
                debug |-> FALSE]
IdlePoller == [pc |-> "idle", t |-> 0, n |-> 0, out |-> <<>>]
None == -1

ring_vars == <<ring, head, tail, pushed, last, raced>>

Live(t) == thread[t].pc \notin {"none", "exited"}

Backlog == (head - tail) % IndexMod
Reading == \E p \in Pollers : poller[p].pc # "idle"

(* What a tracer thread, a handler and a poll remember. *)
ThreadRecord ==
  [pc : {"none", "attach", "attached", "resume first", "resumed", "publish", "loop",
         "wait", "push write", "push head", "push tail", "crashed", "resume",
         "detach", "done", "exited"},
   ev : Causes \cup {"none"}, h : 0..IndexMod - 1]

ControlRecord ==
  [pc : {"idle", "start", "reap", "reaped", "reset", "spawn", "mark", "kill", "join",
         "final", "debug"},
   wake : BOOLEAN, join : BOOLEAN, pid : BOOLEAN, debug : BOOLEAN]

PollerRecord ==
  [pc : {"idle", "head", "copy"}, t : 0..IndexMod - 1, n : 0..PollMax, out : Seq(Nat)]

TypeOK ==
  /\ g \in [running : BOOLEAN, starting : BOOLEAN, stop_req : BOOLEAN,
            created : BOOLEAN, target : BOOLEAN,
            state : {"IDLE", "STARTING", "RUNNING", "STOPPED", "CRASHED", "EXITED"}]
  /\ handle \in Threads \cup {NoThread} /\ joined \subseteq Threads
  /\ ring \in [0..RingSize - 1 -> Nat]
  /\ head \in 0..IndexMod - 1 /\ tail \in 0..IndexMod - 1
  /\ thread \in [Threads -> ThreadRecord]
  /\ control \in [Controls -> ControlRecord]
  /\ poller \in [Pollers -> PollerRecord]
  /\ target \in [alive : BOOLEAN, traced : BOOLEAN, stopped : BOOLEAN,
                 pending : SUBSET {Stop, "syscall", "crash"}]
  /\ dbg \in {"none", "target", "other"} /\ crossed \in BOOLEAN
  /\ pushed \in Nat /\ last \in Nat \cup {None} /\ raced \in BOOLEAN

Init ==
  /\ g = [running |-> FALSE, starting |-> FALSE, stop_req |-> FALSE,
          created |-> FALSE, target |-> FALSE, state |-> "IDLE"]
  /\ handle = NoThread /\ joined = {}
  /\ ring = [i \in 0..RingSize - 1 |-> 0] /\ head = 0 /\ tail = 0
  /\ thread = [t \in Threads |-> [pc |-> "none", ev |-> "none", h |-> 0]]
  /\ control = [c \in Controls |-> IdleControl]
  /\ poller = [p \in Pollers |-> IdlePoller]
  /\ target = [alive |-> TRUE, traced |-> FALSE, stopped |-> FALSE, pending |-> {}]
  /\ dbg = "none" /\ crossed = FALSE
  /\ pushed = 0 /\ last = None /\ raced = FALSE

-----------------------------------------------------------------------------
(* memdbg_tracer_daemon_start, called by handle_tracer_attach *)

ControlAt(c, pc) ==
  control' = [control EXCEPT ![c] = IF pc = "idle" THEN IdleControl ELSE [@ EXCEPT !.pc = pc]]

(* A new request: does it find another one under way? *)
Begins == crossed' = (crossed \/ \E c \in Controls : control[c].pc # "idle")

(* The debugger is detached first, and an error there ends the request:    *)
(* also that there is no session to detach, or that its process has ended. *)
TracerAttach(c) ==
  /\ control[c].pc = "idle" /\ Begins
  /\ dbg # "none" /\ (dbg = "target" => target.alive)
  /\ dbg' = "none"
  /\ ControlAt(c, "start")
  /\ UNCHANGED <<g, handle, joined, thread, poller, target, ring_vars>>

(* Slip: the new tracer starts without waiting for the old thread. *)
StartCheckSlip(c) ==
  /\ control[c].pc = "start"
  /\ ControlAt(c, IF g.running \/ g.starting THEN "idle" ELSE "reset")
  /\ UNCHANGED <<g, handle, joined, thread, poller, target, dbg, crossed, ring_vars>>

(* MEMDBG_ERR_STATE when a tracer runs or starts; otherwise the thread of a *)
(* tracer that ended by itself is reaped before its handle is reused.      *)
StartCheck(c) ==
  /\ control[c].pc = "start"
  /\ ControlAt(c, IF g.running \/ g.starting THEN "idle"
                  ELSE IF g.created THEN "reap" ELSE "reset")
  /\ UNCHANGED <<g, handle, joined, thread, poller, target, dbg, crossed, ring_vars>>

(* pthread_join(g_thread): blocks until that thread has exited. *)
Join ==
  /\ handle # NoThread => thread[handle].pc = "exited"
  /\ joined' = joined \cup ({handle} \ {NoThread})

StartReap(c) ==
  /\ control[c].pc = "reap"
  /\ Join
  /\ ControlAt(c, "reaped")
  /\ UNCHANGED <<g, handle, thread, poller, target, dbg, crossed, ring_vars>>

StartReaped(c) ==
  /\ control[c].pc = "reaped"
  /\ g' = [g EXCEPT !.created = FALSE]
  /\ ControlAt(c, "reset")
  /\ UNCHANGED <<handle, joined, thread, poller, target, dbg, crossed, ring_vars>>

StartReset(c) ==
  /\ control[c].pc = "reset"
  /\ head' = 0 /\ tail' = 0 /\ last' = None
  /\ raced' = Reading
  /\ g' = [g EXCEPT !.stop_req = FALSE, !.state = "STARTING", !.target = TRUE,
                    !.starting = TRUE]
  /\ ControlAt(c, "spawn")
  /\ UNCHANGED <<handle, joined, thread, poller, target, dbg, crossed, ring, pushed>>

StartSpawn(c) ==
  /\ control[c].pc = "spawn"
  /\ \/ \E t \in Threads :
          /\ thread[t].pc = "none" /\ \A u \in 1..t - 1 : thread[u].pc # "none"
          /\ thread' = [thread EXCEPT ![t].pc = "attach"]
          /\ handle' = t
          /\ ControlAt(c, "mark")
          /\ UNCHANGED g
     \/ /\ g' = [g EXCEPT !.running = FALSE, !.starting = FALSE, !.state = "STOPPED"]
        /\ ControlAt(c, "idle")
        /\ UNCHANGED <<thread, handle>>
  /\ UNCHANGED <<joined, poller, target, dbg, crossed, ring_vars>>

StartMark(c) ==
  /\ control[c].pc = "mark"
  /\ g' = [g EXCEPT !.created = TRUE]
  /\ ControlAt(c, "idle")
  /\ UNCHANGED <<handle, joined, thread, poller, target, dbg, crossed, ring_vars>>

-----------------------------------------------------------------------------
(* memdbg_tracer_daemon_stop, called by TRACER_DETACH and by DEBUG_ATTACH *)

TracerStop(c, debug) ==
  /\ control[c].pc = "idle" /\ Begins
  /\ control' = [control EXCEPT ![c] = [pc |-> "kill", wake |-> g.running,
                                        join |-> g.created, pid |-> g.target,
                                        debug |-> debug]]
  /\ g' = [g EXCEPT !.stop_req = TRUE]
  /\ UNCHANGED <<handle, joined, thread, poller, target, dbg, ring_vars>>

(* A stop signal reaches a traced process through its tracer; any other    *)
(* process stops at once.                                                  *)
Signalled(p) ==
  IF ~p.alive THEN p
  ELSE IF p.traced THEN [p EXCEPT !.pending = @ \cup {Stop}]
  ELSE [p EXCEPT !.stopped = TRUE]

(* Slip: the tracer blocked in waitpid is not woken. *)
StopKillSlip(c) ==
  /\ control[c].pc = "kill"
  /\ ControlAt(c, "join")
  /\ UNCHANGED <<g, handle, joined, thread, poller, target, dbg, crossed, ring_vars>>

StopKill(c) ==
  /\ control[c].pc = "kill"
  /\ target' = IF control[c].wake /\ control[c].pid THEN Signalled(target) ELSE target
  /\ ControlAt(c, "join")
  /\ UNCHANGED <<g, handle, joined, thread, poller, dbg, crossed, ring_vars>>

(* Slip: the thread is told to stop and not waited for. *)
StopJoinSlip(c) ==
  /\ control[c].pc = "join"
  /\ ControlAt(c, "final")
  /\ UNCHANGED <<g, handle, joined, thread, poller, target, dbg, crossed, ring_vars>>

StopJoin(c) ==
  /\ control[c].pc = "join"
  /\ IF control[c].join THEN Join ELSE UNCHANGED joined
  /\ ControlAt(c, "final")
  /\ UNCHANGED <<g, handle, thread, poller, target, dbg, crossed, ring_vars>>

StopFinal(c) ==
  /\ control[c].pc = "final"
  /\ g' = [g EXCEPT !.created = FALSE, !.starting = FALSE, !.running = FALSE,
                    !.state = "STOPPED", !.target = FALSE]
  /\ ControlAt(c, IF control[c].debug THEN "debug" ELSE "idle")
  /\ UNCHANGED <<handle, joined, thread, poller, target, dbg, crossed, ring_vars>>

(* ptrace refuses a process that is already traced.  The request may also *)
(* name another process than the tracer's.                                *)
DebuggerAttaches ==
  /\ dbg = "none"
  /\ \/ target.alive /\ ~target.traced /\ dbg' = "target"
     \/ dbg' = "other"

(* handle_debug_attach, after the stop: a session that exists is kept. *)
DebugAttach(c) ==
  /\ control[c].pc = "debug"
  /\ DebuggerAttaches \/ UNCHANGED dbg
  /\ ControlAt(c, "idle")
  /\ UNCHANGED <<g, handle, joined, thread, poller, target, crossed, ring_vars>>

(* The debug-attach of the ps5debug protocol does not stop the tracer. *)
LegacyDebugAttach ==
  /\ DebuggerAttaches
  /\ UNCHANGED <<g, handle, joined, thread, control, poller, target, crossed, ring_vars>>

(* DEBUG_DETACH, or a poll that finds the debugged process gone. *)
DebugDetach ==
  /\ dbg # "none" /\ dbg' = "none"
  /\ UNCHANGED <<g, handle, joined, thread, control, poller, target, crossed, ring_vars>>

-----------------------------------------------------------------------------
(* tracer_thread_fn *)

ThreadAt(t, pc) == thread' = [thread EXCEPT ![t].pc = pc]

Attach(t) ==
  /\ thread[t].pc = "attach"
  /\ \/ /\ g.target /\ target.alive /\ ~target.traced /\ dbg # "target"
        /\ target' = [target EXCEPT !.traced = TRUE, !.stopped = TRUE]
        /\ ThreadAt(t, "attached")
        /\ UNCHANGED g
     \/ /\ g' = [g EXCEPT !.state = "STOPPED", !.running = FALSE, !.starting = FALSE]
        /\ ThreadAt(t, "exited")
        /\ UNCHANGED target
  /\ UNCHANGED <<handle, joined, control, poller, dbg, crossed, ring_vars>>

(* Both tests of g_stop_req before the loop, and the test of the loop. *)
CheckStop(t) ==
  /\ thread[t].pc \in {"attached", "resumed", "loop"}
  /\ ThreadAt(t, IF g.stop_req THEN "detach"
                 ELSE CASE thread[t].pc = "attached" -> "resume first"
                        [] thread[t].pc = "resumed"  -> "publish"
                        [] thread[t].pc = "loop"     -> "wait")
  /\ UNCHANGED <<g, handle, joined, control, poller, target, dbg, crossed, ring_vars>>

(* pal_debug_syscall, or pal_debug_continue where that is not supported;   *)
(* when both fail the thread gives up.                                     *)
ResumeFirst(t) ==
  /\ thread[t].pc = "resume first"
  /\ \/ target' = [target EXCEPT !.stopped = FALSE] /\ ThreadAt(t, "resumed")
     \/ UNCHANGED target /\ ThreadAt(t, "detach")
  /\ UNCHANGED <<g, handle, joined, control, poller, dbg, crossed, ring_vars>>

PublishRunning(t) ==
  /\ thread[t].pc = "publish"
  /\ g' = [g EXCEPT !.state = "RUNNING", !.running = TRUE, !.starting = FALSE]
  /\ ThreadAt(t, "loop")
  /\ UNCHANGED <<handle, joined, control, poller, target, dbg, crossed, ring_vars>>

(* pal_debug_wait: the end of the target or one of its stops.  A system    *)
(* call whose registers cannot be read is not recorded.                    *)
Wait(t) ==
  /\ thread[t].pc = "wait"
  /\ \/ /\ ~target.alive
        /\ thread' = [thread EXCEPT ![t].pc = "push write", ![t].ev = "exit"]
        /\ UNCHANGED target
     \/ \E e \in target.pending :
          /\ target.alive /\ ~target.stopped
          /\ target' = [target EXCEPT !.pending = @ \ {e}, !.stopped = TRUE]
          /\ \E pc \in {"push write"} \cup (IF e = "syscall" THEN {"resume"} ELSE {}) :
               thread' = [thread EXCEPT ![t].pc = pc, ![t].ev = e]
  /\ UNCHANGED <<g, handle, joined, control, poller, dbg, crossed, ring_vars>>

(* EINTR tries again, any other error of pal_debug_wait ends the tracer. *)
WaitFails(t) ==
  /\ thread[t].pc = "wait"
  /\ \E pc \in {"loop", "detach"} : ThreadAt(t, pc)
  /\ UNCHANGED <<g, handle, joined, control, poller, target, dbg, crossed, ring_vars>>

(* Slip: the index is published before the slot is filled. *)
PushWriteSlip(t) ==
  /\ thread[t].pc = "push write"
  /\ thread' = [thread EXCEPT ![t].pc = "push head", ![t].h = head]
  /\ UNCHANGED <<g, handle, joined, control, poller, target, dbg, crossed, ring_vars>>

(* ring_push: the slot, then the index and the count, then the tail. *)
PushWrite(t) ==
  /\ thread[t].pc = "push write"
  /\ ring' = [ring EXCEPT ![head % RingSize] = pushed]
  /\ raced' = (raced \/ (Reading /\ Backlog >= RingSize))
  /\ thread' = [thread EXCEPT ![t].pc = "push head", ![t].h = head]
  /\ UNCHANGED <<g, handle, joined, control, poller, target, dbg, crossed, head, tail, pushed,
                 last>>

PushHead(t) ==
  /\ thread[t].pc = "push head"
  /\ head' = (thread[t].h + 1) % IndexMod
  /\ pushed' = pushed + 1
  /\ thread' = [thread EXCEPT ![t].pc = "push tail", ![t].h = 0]
  /\ UNCHANGED <<g, handle, joined, control, poller, target, dbg, crossed, ring, tail, last, raced>>

(* The tail moves past what was overwritten.  Its loads and its store are  *)
(* one action: taken apart they differ only under a poll of a full ring,   *)
(* and raced holds by then.                                                *)
PushTail(t) ==
  /\ thread[t].pc = "push tail"
  /\ tail' = IF Backlog > RingSize THEN (head - RingSize) % IndexMod ELSE tail
  /\ last' = IF tail' # tail THEN None ELSE last
  /\ ThreadAt(t, IF thread[t].ev \in {"exit", "crash"} THEN "crashed" ELSE "resume")
  /\ UNCHANGED <<g, handle, joined, control, poller, target, dbg, crossed, ring, head, pushed,
                 raced>>

(* write_crash_dump, then the critical section that publishes the end. *)
PublishCrash(t) ==
  /\ thread[t].pc = "crashed"
  /\ \E s \in IF thread[t].ev = "exit" THEN {"EXITED", "CRASHED"} ELSE {"CRASHED"} :
       g' = [g EXCEPT !.state = s, !.running = FALSE]
  /\ thread' = [thread EXCEPT ![t].pc = "detach", ![t].ev = "none"]
  /\ UNCHANGED <<handle, joined, control, poller, target, dbg, crossed, ring_vars>>

ResumeTarget(t) ==
  /\ thread[t].pc = "resume"
  /\ target' = [target EXCEPT !.stopped = FALSE]
  /\ thread' = [thread EXCEPT ![t].pc = "loop", ![t].ev = "none"]
  /\ UNCHANGED <<g, handle, joined, control, poller, dbg, crossed, ring_vars>>

(* pal_debug_detach, whose result is ignored.  PT_DETACH works on a target *)
(* that is stopped: it is let go, unless a stop signal is pending.  One    *)
(* that runs, as after a resume, or is dead stays as it is.                *)
Detach(t) ==
  /\ thread[t].pc = "detach"
  /\ target' = IF target.alive /\ target.stopped
               THEN [target EXCEPT !.traced = FALSE, !.pending = {},
                                   !.stopped = Stop \in target.pending]
               ELSE target
  /\ ThreadAt(t, "done")
  /\ UNCHANGED <<g, handle, joined, control, poller, dbg, crossed, ring_vars>>

ThreadDone(t) ==
  /\ thread[t].pc = "done"
  /\ g' = [g EXCEPT !.state = IF @ \in {"CRASHED", "EXITED"} THEN @ ELSE "STOPPED",
                    !.running = FALSE, !.starting = FALSE]
  /\ ThreadAt(t, "exited")
  /\ UNCHANGED <<handle, joined, control, poller, target, dbg, crossed, ring_vars>>

-----------------------------------------------------------------------------
(* ring_pop, called by handle_tracer_poll *)

PopTail(p) ==
  /\ poller[p].pc = "idle"
  /\ poller' = [poller EXCEPT ![p] = [pc |-> "head", t |-> tail, n |-> 0, out |-> <<>>]]
  /\ raced' = (raced \/ \E t \in Threads :
                  \/ thread[t].pc = "push head" /\ Backlog >= RingSize
                  \/ thread[t].pc = "push tail" /\ Backlog > RingSize)
  /\ UNCHANGED <<g, handle, joined, thread, control, target, dbg, crossed, ring, head, tail, pushed,
                 last>>

PopHead(p) ==
  /\ poller[p].pc = "head"
  /\ LET avail == (head - poller[p].t) % IndexMod
         n == IF avail < PollMax THEN avail ELSE PollMax
     IN  poller' = [poller EXCEPT ![p] = IF n = 0 THEN IdlePoller
                                         ELSE [@ EXCEPT !.pc = "copy", !.n = n]]
  /\ UNCHANGED <<g, handle, joined, thread, control, target, dbg, crossed, ring_vars>>

PopCopy(p) ==
  /\ poller[p].pc = "copy" /\ Len(poller[p].out) < poller[p].n
  /\ poller' = [poller EXCEPT ![p].out =
                  Append(@, ring[(poller[p].t + Len(@)) % RingSize])]
  /\ UNCHANGED <<g, handle, joined, thread, control, target, dbg, crossed, ring_vars>>

PopStore(p) ==
  /\ poller[p].pc = "copy" /\ Len(poller[p].out) = poller[p].n
  /\ tail' = (poller[p].t + poller[p].n) % IndexMod
  /\ last' = poller[p].out[poller[p].n]
  /\ poller' = [poller EXCEPT ![p] = IdlePoller]
  /\ UNCHANGED <<g, handle, joined, thread, control, target, dbg, crossed, ring, head, pushed, raced>>

-----------------------------------------------------------------------------
(* The target.  It stops for its tracer on a fault and at a system call,   *)
(* and on the stop signal, which stands for every signal that is not fatal; *)
(* it may exit or be killed.                                               *)

TargetEvent(e) ==
  /\ pushed < MaxEvents
  /\ target.alive /\ target.traced /\ ~target.stopped /\ target.pending \subseteq {Stop}
  /\ target' = [target EXCEPT !.pending = @ \cup {e}]
  /\ UNCHANGED <<g, handle, joined, thread, control, poller, dbg, crossed, ring_vars>>

TargetEnds ==
  /\ target.alive /\ ~target.stopped
  /\ target' = [target EXCEPT !.alive = FALSE, !.pending = {}]
  /\ UNCHANGED <<g, handle, joined, thread, control, poller, dbg, crossed, ring_vars>>

ControlStep(c) ==
  StartCheck(c) \/ StartReap(c) \/ StartReaped(c) \/ StartReset(c) \/ StartSpawn(c)
  \/ StartMark(c) \/ StopKill(c) \/ StopJoin(c) \/ StopFinal(c) \/ DebugAttach(c)

ThreadStep(t) ==
  Attach(t) \/ CheckStop(t) \/ ResumeFirst(t) \/ PublishRunning(t) \/ Wait(t)
  \/ PushWrite(t) \/ PushHead(t) \/ PushTail(t) \/ PublishCrash(t) \/ ResumeTarget(t)
  \/ Detach(t) \/ ThreadDone(t)

PollStep(p) == PopHead(p) \/ PopCopy(p) \/ PopStore(p)

Next ==
  \/ \E c \in Controls : TracerAttach(c) \/ TracerStop(c, FALSE) \/ TracerStop(c, TRUE)
                         \/ ControlStep(c)
  \/ \E t \in Threads : ThreadStep(t) \/ WaitFails(t)
  \/ \E p \in Pollers : PopTail(p) \/ PollStep(p)
  \/ \E e \in {"syscall", "crash"} : TargetEvent(e)
  \/ TargetEnds
  \/ LegacyDebugAttach \/ DebugDetach

Spec == Init /\ [][Next]_vars

(* Threads that can run do run; requests, the target and the errors of a   *)
(* wait are free.                                                          *)
FairSpec ==
  /\ Spec
  /\ \A c \in Controls : WF_vars(ControlStep(c))
  /\ \A t \in Threads : WF_vars(ThreadStep(t))

-----------------------------------------------------------------------------
NobodyLives == \A t \in Threads : ~Live(t)

(* The ring has one producer: no two tracer threads are alive at once, and *)
(* pthread_join is never applied to a handle it has already consumed.      *)
(* memdbg_tracer_daemon_start answers MEMDBG_ERR_STATE while a tracer runs *)
(* and reaps the thread of one that has ended before it starts another.    *)
(* This holds for any number of control connections until two of their     *)
(* requests overlap.  The variables also keep their types.                 *)
OneTracer ==
  /\ TypeOK
  /\ ~crossed =>
       /\ \A t, u \in Threads : Live(t) /\ Live(u) => t = u
       /\ \A c \in Controls :
            (control[c].pc = "reap" \/ (control[c].pc = "join" /\ control[c].join))
              => handle \notin joined

(* TRACER_STATUS tells the truth about the tracer thread, until two        *)
(* control requests overlap: a tracer reported idle or stopped has no      *)
(* thread left, while one is reported running there is a thread that has   *)
(* the target traced, and DEBUG_ATTACH, which stops the tracer first       *)
(* (protocol_dispatch.c), finds no tracer thread that could still attach.  *)
StatusTruthful ==
  ~crossed =>
    /\ g.state \in {"IDLE", "STOPPED"} => NobodyLives
    /\ g.running => target.traced /\ ~NobodyLives
    /\ \A c \in Controls : control[c].pc = "debug" => NobodyLives

(* As long as the ring neither overflows nor is reset while a poll is      *)
(* under way, what the polls have delivered is a gap-free, ordered run of  *)
(* what the tracer recorded: nothing twice, nothing skipped, and never a   *)
(* slot that was not yet written.                                          *)
PollsInOrder ==
  [][\A p \in Pollers : PopStore(p) /\ ~raced /\ ~crossed =>
       LET got == (IF last = None THEN <<>> ELSE <<last>>) \o poller[p].out
       IN  \A i \in 1..Len(got) - 1 : got[i + 1] = got[i] + 1]_vars

(* memdbg_tracer_daemon_stop returns, unless another control request cuts  *)
(* in: the SIGSTOP wakes a tracer blocked in waitpid, whatever the tracer  *)
(* was doing when the request came in.                                     *)
StopReturns ==
  \A c \in Controls :
    control[c].pc = "kill" ~> control[c].pc \in {"idle", "debug"} \/ crossed
=============================================================================
