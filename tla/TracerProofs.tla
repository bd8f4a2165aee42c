---------------------------- MODULE TracerProofs ----------------------------
(***************************************************************************)
(* Proofs about the tracer service, for any number of control connections  *)
(* whose requests have not overlapped: there is one tracer thread, its     *)
(* status is the truth about it, and, for one client that polls, the       *)
(* lock-free ring delivers in order.                                       *)
(***************************************************************************)
EXTENDS Tracer, SequenceTheorems, TLAPS

(* The thread has attached to the target and has not let it go yet. *)
Tracing == {"attached", "resume first", "resumed", "publish", "loop", "wait",
            "push write", "push head", "push tail", "crashed", "resume", "detach"}

(* It has let the target run and has not waited for it since. *)
Letting == {"resumed", "publish", "loop", "wait"}

(* It has reported that it runs, and not yet that it has ended. *)
Published == {"loop", "wait", "push write", "push head", "push tail", "crashed",
              "resume", "detach", "done"}

(* g_thread is the one thread that may be alive; a joined one has ended. *)
HandleInv ==
  /\ \A t \in Threads : Live(t) => handle = t
  /\ \A t \in joined : thread[t].pc = "exited"
  /\ handle # NoThread => thread[handle].pc # "none"

(* How far a start or a stop has come, and what it knows by then. *)
RequestInv(c) ==
  /\ control[c].pc \in {"reaped", "reset", "spawn", "final", "debug"} => NobodyLives
  /\ control[c].pc \in {"reset", "spawn", "mark", "debug"} => g.created = FALSE
  /\ control[c].pc \in {"reap", "reaped"} => g.created = TRUE
  /\ control[c].pc \in {"kill", "join"} => control[c].join = g.created
  /\ control[c].pc = "mark" => handle # NoThread /\ handle \notin joined
  /\ g.created = TRUE /\ control[c].pc \notin {"reaped", "final"}
       => handle # NoThread /\ handle \notin joined
  /\ g.created = FALSE /\ control[c].pc # "mark" => NobodyLives
  /\ control[c].pc = "spawn" => g.state = "STARTING"

Alone(c) == \A d \in Controls : d # c => control[d].pc = "idle"

ControlInv == \A c \in Controls : Alone(c) => RequestInv(c)

(* At most one request is under way. *)
Serial == \A c \in Controls : control[c].pc # "idle" => Alone(c)

(* The status and the target follow the program counter of the thread. *)
StatusInv ==
  /\ \A t \in Threads : thread[t].pc \in Tracing => target.traced = TRUE
  /\ \A t \in Threads : Live(t) => g.state \notin {"IDLE", "STOPPED"}
  /\ g.running = TRUE => /\ target.traced = TRUE
                         /\ \E t \in Threads : thread[t].pc \in Published
  /\ \A t \in Threads : thread[t].pc \in Letting => target.stopped = FALSE
  /\ \A t \in Threads :
       thread[t].pc = "detach" /\ g.running = TRUE => target.stopped = FALSE

(* A poll copies at least one event, and no more than it has announced. *)
PollInv ==
  \A p \in Pollers :
    /\ poller[p].pc = "head" => poller[p].out = <<>>
    /\ poller[p].pc = "copy" => poller[p].n >= 1 /\ Len(poller[p].out) <= poller[p].n

TracerInv == TypeOK /\ HandleInv /\ ControlInv /\ Serial /\ StatusInv /\ PollInv

(* What holds in every behaviour, and what until two requests overlap. *)
UncrossedInv == TypeOK /\ PollInv /\ (crossed = FALSE => TracerInv)

-----------------------------------------------------------------------------
(* Division with remainder. *)

LEMMA DivMod ==
  ASSUME NEW x \in Int, NEW n \in Nat \ {0}
  PROVE  /\ x % n \in 0..n - 1 /\ x \div n \in Int
         /\ x = n * (x \div n) + (x % n)
  OBVIOUS

LEMMA Multiples ==
  ASSUME NEW n \in Nat \ {0}, NEW k \in Int
  PROVE  /\ n * k \in Int
         /\ k >= 1 => n * k >= n
         /\ k <= -1 => n * k <= -n
         /\ k = 0 => n * k = 0
  OBVIOUS

LEMMA ModUnique ==
  ASSUME NEW n \in Nat \ {0}, NEW q \in Int, NEW r \in 0..n - 1
  PROVE  (n * q + r) % n = r
<1> PICK x \in Int : x = n * q + r
  OBVIOUS
<1>1. /\ x % n \in 0..n - 1 /\ x \div n \in Int
      /\ x = n * (x \div n) + (x % n)
  BY DivMod
<1> PICK d : d = (x \div n) - q
  OBVIOUS
<1>2. d \in Int /\ n * d = r - (x % n)
  BY <1>1
<1>3. d = 0
  BY Multiples, <1>1, <1>2
<1> QED
  BY <1>1, <1>2, <1>3, Multiples

LEMMA Sizes ==
  /\ RingSize \in Nat \ {0} /\ IndexMod \in Nat \ {0} /\ IndexMod > RingSize + 1
  /\ PollMax \in Nat \ {0}
  BY TracerAssumption

LEMMA Indices ==
  ASSUME NEW x \in Int
  PROVE  x % IndexMod \in 0..IndexMod - 1 /\ x % RingSize \in 0..RingSize - 1
  BY Sizes, DivMod

-----------------------------------------------------------------------------
(* What the moves of a program counter write. *)

LEMMA ControlMoves ==
  ASSUME TypeOK, NEW c \in Controls,
         NEW pc \in {"idle", "start", "reap", "reaped", "reset", "spawn", "mark",
                     "join", "final", "debug"},
         ControlAt(c, pc)
  PROVE  /\ control' \in [Controls -> ControlRecord]
         /\ \A d \in Controls : d # c => control'[d] = control[d]
         /\ control'[c].pc = pc
         /\ pc # "idle" => control'[c].join = control[c].join
<1>1. control[c] \in ControlRecord /\ IdleControl \in ControlRecord
  BY DEF TypeOK, ControlRecord, IdleControl
<1> PICK r : r = IF pc = "idle" THEN IdleControl ELSE [control[c] EXCEPT !.pc = pc]
  OBVIOUS
<1>2. r \in ControlRecord /\ r.pc = pc /\ (pc # "idle" => r.join = control[c].join)
  BY <1>1 DEF ControlRecord, IdleControl
<1>3. control' = [control EXCEPT ![c] = r]
  BY DEF ControlAt
<1> QED
  BY <1>2, <1>3 DEF TypeOK

LEMMA ThreadMoves ==
  ASSUME TypeOK, NEW t \in Threads,
         NEW pc \in {"attach", "attached", "resume first", "resumed", "publish", "loop",
                     "wait", "push write", "push head", "push tail", "crashed",
                     "resume", "detach", "done", "exited"},
         ThreadAt(t, pc)
  PROVE  /\ thread' \in [Threads -> ThreadRecord]
         /\ thread'[t].pc = pc
         /\ \A u \in Threads : u # t => thread'[u] = thread[u]
<1>1. thread[t] \in ThreadRecord
  BY DEF TypeOK
<1>2. PICK r : r = [thread[t] EXCEPT !.pc = pc]
  OBVIOUS
<1>3. r \in ThreadRecord /\ r.pc = pc
  BY <1>1, <1>2 DEF ThreadRecord
<1>4. thread' = [thread EXCEPT ![t] = r]
  BY <1>2 DEF ThreadAt
<1> QED
  BY <1>3, <1>4 DEF TypeOK

-----------------------------------------------------------------------------
(* Steps that leave the tracer's control alone. *)

LEMMA CoreStutters ==
  ASSUME HandleInv, ControlInv, Serial, StatusInv,
         UNCHANGED <<g, handle, joined, thread, control>>,
         target'.traced = target.traced, target'.stopped = target.stopped
  PROVE  HandleInv' /\ ControlInv' /\ Serial' /\ StatusInv'
<1>1. HandleInv'
  BY DEF HandleInv, Live
<1>2. ControlInv' /\ Serial'
  BY DEF ControlInv, RequestInv, NobodyLives, Live, Alone, Serial
<1>3. StatusInv'
  BY DEF StatusInv, Live
<1> QED
  BY <1>1, <1>2, <1>3

(* A live thread is the one behind g_thread, and no start or stop has got  *)
(* past its join: its steps leave the requests and the handle alone.       *)
LEMMA LiveStep ==
  ASSUME TypeOK, HandleInv, ControlInv, NEW t \in Threads, Live(t),
         thread'[t].pc # "none",
         \A u \in Threads : u # t => thread'[u] = thread[u],
         UNCHANGED <<handle, joined, control>>, g'.created = g.created
  PROVE  /\ HandleInv' /\ ControlInv'
         /\ \A u \in Threads : u # t => thread[u].pc \in {"none", "exited"}
<1>0. ~NobodyLives /\ handle = t /\ t \notin joined
  BY DEF Live, NobodyLives, HandleInv
<1>1. HandleInv'
  <2>1. \A u \in Threads : Live(u)' => handle' = u
    BY <1>0 DEF HandleInv, Live
  <2>2. \A u \in joined' : thread'[u].pc = "exited"
    BY <1>0 DEF HandleInv, TypeOK
  <2> QED
    BY <2>1, <2>2, <1>0 DEF HandleInv
<1>2. ControlInv'
  <2> SUFFICES ASSUME NEW c \in Controls, Alone(c)' PROVE RequestInv(c)'
    BY DEF ControlInv
  <2>1. RequestInv(c)
    BY DEF ControlInv, Alone
  <2>2. /\ control[c].pc \notin {"reaped", "reset", "spawn", "final", "debug"}
        /\ g.created = FALSE => control[c].pc = "mark"
    BY <2>1, <1>0 DEF RequestInv
  <2> QED
    BY <2>1, <2>2 DEF RequestInv
<1>3. \A u \in Threads : u # t => thread[u].pc \in {"none", "exited"}
  BY <1>0 DEF HandleInv, Live
<1> QED
  BY <1>1, <1>2, <1>3

(* A step of a thread between its attach and its detach. *)
LEMMA TracingStep ==
  ASSUME TypeOK, HandleInv, ControlInv, StatusInv,
         NEW t \in Threads, thread[t].pc \in Tracing, thread'[t].pc \in Tracing,
         \A u \in Threads : u # t => thread'[u] = thread[u],
         UNCHANGED <<handle, joined, control>>,
         g'.created = g.created, g'.state \notin {"IDLE", "STOPPED"},
         target'.traced = target.traced,
         g'.running = TRUE => thread'[t].pc \in Published,
         thread'[t].pc \in Letting => target'.stopped = FALSE,
         thread'[t].pc = "detach" /\ g'.running = TRUE => target'.stopped = FALSE
  PROVE  HandleInv' /\ ControlInv' /\ StatusInv'
<1>1. Live(t) /\ thread'[t].pc # "none"
  BY DEF Live, Tracing
<1>2. /\ HandleInv' /\ ControlInv'
      /\ \A u \in Threads : u # t => thread[u].pc \in {"none", "exited"}
  BY <1>1, LiveStep
<1>3. target'.traced = TRUE
  BY DEF StatusInv
<1>4. \A u \in Threads : u # t => thread'[u].pc \notin Letting \cup {"detach"}
  BY <1>2 DEF Letting
<1>5. StatusInv'
  BY <1>3, <1>4 DEF StatusInv
<1> QED
  BY <1>2, <1>5

-----------------------------------------------------------------------------
(* The other steps of the tracer thread. *)

LEMMA AttachStep ==
  ASSUME TracerInv, NEW t \in Threads, Attach(t)
  PROVE  HandleInv' /\ ControlInv' /\ StatusInv'
<1> USE DEF TracerInv
<1>0. Live(t) /\ g.state \notin {"IDLE", "STOPPED"}
  BY DEF Attach, Live, StatusInv
<1>1. thread'[t].pc \in {"attached", "exited"}
      /\ \A u \in Threads : u # t => thread'[u] = thread[u]
  BY ThreadMoves DEF Attach
<1>2. UNCHANGED <<handle, joined, control>> /\ g'.created = g.created
  BY DEF Attach, TypeOK
<1>3. /\ HandleInv' /\ ControlInv'
      /\ \A u \in Threads : u # t => thread[u].pc \in {"none", "exited"}
  BY <1>0, <1>1, <1>2, LiveStep
<1>4. \A u \in Threads : thread[u].pc \notin Published
  BY <1>3 DEF Attach, Published
<1>5. g.running = FALSE
  BY <1>4 DEF StatusInv, TypeOK
<1>6. CASE thread'[t].pc = "attached"
  <2>1. target' = [target EXCEPT !.traced = TRUE, !.stopped = TRUE] /\ UNCHANGED g
    <3>1. ~ThreadAt(t, "exited")
      BY <1>6, ThreadMoves
    <3> QED
      BY <3>1 DEF Attach
  <2>2. target'.traced = TRUE
    BY <2>1 DEF TypeOK
  <2>3. \A u \in Threads : thread'[u].pc \notin Letting \cup {"detach"}
    BY <1>6, <1>1, <1>3 DEF Letting
  <2>4. StatusInv'
    BY <2>1, <2>2, <2>3, <1>5, <1>0 DEF StatusInv
  <2> QED
    BY <2>4, <1>3
<1>7. CASE thread'[t].pc = "exited"
  <2>1. g' = [g EXCEPT !.state = "STOPPED", !.running = FALSE, !.starting = FALSE]
    <3>1. ~ThreadAt(t, "attached")
      BY <1>7, ThreadMoves
    <3> QED
      BY <3>1 DEF Attach
  <2>2. \A u \in Threads : thread'[u].pc \in {"none", "exited"}
    BY <1>7, <1>1, <1>3
  <2>3. \A u \in Threads : /\ thread'[u].pc \notin Tracing \cup Letting \cup {"detach"}
                           /\ ~Live(u)'
    BY <2>2 DEF Tracing, Letting, Live
  <2>4. g'.running = FALSE
    BY <2>1 DEF TypeOK
  <2>5. StatusInv'
    BY <2>3, <2>4 DEF StatusInv
  <2> QED
    BY <2>5, <1>3
<1> QED
  BY <1>1, <1>6, <1>7

(* A detach that works comes before the status says that the tracer runs,  *)
(* or after it has said that it does no more.                              *)
LEMMA DetachStep ==
  ASSUME TracerInv, NEW t \in Threads, Detach(t)
  PROVE  HandleInv' /\ ControlInv' /\ StatusInv'
<1> USE DEF TracerInv
<1>1. Live(t) /\ thread'[t].pc = "done" /\ thread[t].pc = "detach"
      /\ \A u \in Threads : u # t => thread'[u] = thread[u]
  BY ThreadMoves DEF Detach, Live
<1>2. UNCHANGED <<handle, joined, control, g>>
  BY DEF Detach
<1>3. /\ HandleInv' /\ ControlInv'
      /\ \A u \in Threads : u # t => thread[u].pc \in {"none", "exited"}
  BY <1>1, <1>2, LiveStep
<1>4. g.running = TRUE => target.stopped = FALSE
  BY <1>1 DEF StatusInv
<1>5. g.running = TRUE => target' = target
  BY <1>4 DEF Detach
<1>6. \A u \in Threads : thread'[u].pc \notin Tracing \cup Letting \cup {"detach"}
  BY <1>1, <1>3 DEF Tracing, Letting
<1>7. thread'[t].pc \in Published /\ g.state \notin {"IDLE", "STOPPED"}
  BY <1>1 DEF Published, StatusInv
<1>8. StatusInv'
  BY <1>2, <1>5, <1>6, <1>7 DEF StatusInv
<1> QED
  BY <1>3, <1>8

LEMMA DoneStep ==
  ASSUME TracerInv, NEW t \in Threads, ThreadDone(t)
  PROVE  HandleInv' /\ ControlInv' /\ StatusInv'
<1> USE DEF TracerInv
<1>1. Live(t) /\ thread'[t].pc = "exited"
      /\ \A u \in Threads : u # t => thread'[u] = thread[u]
  BY ThreadMoves DEF ThreadDone, Live
<1>2. UNCHANGED <<handle, joined, control>>
      /\ g'.created = g.created /\ g'.running = FALSE
  BY DEF ThreadDone, TypeOK
<1>3. /\ HandleInv' /\ ControlInv'
      /\ \A u \in Threads : u # t => thread[u].pc \in {"none", "exited"}
  BY <1>1, <1>2, LiveStep
<1>4. \A u \in Threads : thread'[u].pc \in {"none", "exited"}
  BY <1>1, <1>3
<1>5. \A u \in Threads : /\ thread'[u].pc \notin Tracing \cup Letting \cup {"detach"}
                         /\ ~Live(u)'
  BY <1>4 DEF Tracing, Letting, Live
<1>6. StatusInv'
  BY <1>2, <1>5 DEF StatusInv
<1> QED
  BY <1>3, <1>6

-----------------------------------------------------------------------------
(* The requests.  Each step is one of the only request under way. *)

(* All that the others know is what an idle one knows. *)
LEMMA OneRequest ==
  ASSUME NEW c \in Controls, Alone(c), RequestInv(c)',
         \A d \in Controls : d # c => control'[d] = control[d]
  PROVE  ControlInv' /\ Serial'
<1>1. Alone(c)'
  BY DEF Alone
<1>2. ASSUME NEW d \in Controls, d # c, Alone(d)'
      PROVE  RequestInv(d)'
  <2>1. control'[d].pc = "idle" /\ control'[c].pc = "idle"
    BY <1>1, <1>2 DEF Alone
  <2> QED
    BY <2>1 DEF RequestInv
<1>3. ControlInv'
  BY <1>2 DEF ControlInv
<1>4. Serial'
  BY <1>1 DEF Serial, Alone
<1> QED
  BY <1>3, <1>4

LEMMA OtherRequests ==
  ASSUME TypeOK, NEW c \in Controls,
         \/ TracerAttach(c) \/ TracerStop(c, TRUE) \/ TracerStop(c, FALSE)
         \/ ControlStep(c)
  PROVE  \A d \in Controls : d # c => control'[d] = control[d]
<1>1. CASE TracerStop(c, TRUE) \/ TracerStop(c, FALSE)
  BY <1>1 DEF TracerStop, TypeOK
<1>2. CASE TracerAttach(c) \/ ControlStep(c)
  <2>1. PICK pc \in {"idle", "start", "reap", "reaped", "reset", "spawn", "mark",
                     "join", "final", "debug"} : ControlAt(c, pc)
    BY <1>2 DEF ControlStep, TracerAttach, StartCheck, StartReap, StartReaped,
                StartReset, StartSpawn, StartMark, StopKill, StopJoin, StopFinal,
                DebugAttach
  <2> QED
    BY <2>1, ControlMoves
<1> QED
  BY <1>1, <1>2

(* Steps of a request that change nothing but its own progress. *)
LEMMA QuietRequest ==
  ASSUME TracerInv, NEW c \in Controls, Alone(c),
         \/ TracerAttach(c) \/ TracerStop(c, TRUE) \/ TracerStop(c, FALSE)
         \/ StartCheck(c) \/ StopKill(c) \/ DebugAttach(c)
  PROVE  HandleInv' /\ ControlInv' /\ Serial' /\ StatusInv'
<1> USE DEF TracerInv
<1>0. RequestInv(c)
  BY DEF ControlInv
<1>1. UNCHANGED <<handle, joined, thread>> /\ g'.created = g.created
      /\ g'.running = g.running /\ g'.state = g.state
  BY DEF TracerAttach, TracerStop, StartCheck, StopKill, DebugAttach, TypeOK
<1>2. /\ target'.traced = target.traced
      /\ target.traced = TRUE => target'.stopped = target.stopped
  <2>1. CASE StopKill(c)
    BY <2>1 DEF StopKill, Signalled, TypeOK
  <2> QED
    BY <2>1 DEF TracerAttach, TracerStop, StartCheck, DebugAttach
<1>3. HandleInv' /\ StatusInv'
  BY <1>1, <1>2 DEF HandleInv, StatusInv, Live, Letting, Tracing
<1>4. NobodyLives' <=> NobodyLives
  BY <1>1 DEF NobodyLives, Live
<1>5. RequestInv(c)'
  <2>1. CASE TracerAttach(c)
    <3>1. control'[c].pc \in {"idle", "start"}
      BY <2>1, ControlMoves DEF TracerAttach
    <3> QED
      BY <3>1, <1>0, <1>1, <1>4, <2>1 DEF RequestInv, TracerAttach
  <2>2. CASE TracerStop(c, TRUE) \/ TracerStop(c, FALSE)
    <3>1. control'[c].pc = "kill" /\ control'[c].join = g.created /\ control[c].pc = "idle"
      BY <2>2 DEF TracerStop, TypeOK
    <3> QED
      BY <3>1, <1>0, <1>1, <1>4 DEF RequestInv
  <2>3. CASE StartCheck(c)
    <3>1. CASE g.created = TRUE
      <4>1. control'[c].pc \in {"idle", "reap"}
        BY <2>3, <3>1, ControlMoves DEF StartCheck
      <4> QED
        BY <4>1, <3>1, <1>0, <1>1, <1>4, <2>3 DEF RequestInv, StartCheck
    <3>2. CASE g.created = FALSE
      <4>1. control'[c].pc \in {"idle", "reset"}
        BY <2>3, <3>2, ControlMoves DEF StartCheck
      <4> QED
        BY <4>1, <3>2, <1>0, <1>1, <1>4, <2>3 DEF RequestInv, StartCheck
    <3> QED
      BY <3>1, <3>2 DEF TypeOK
  <2>4. CASE StopKill(c)
    <3>1. control'[c].pc = "join" /\ control'[c].join = control[c].join
      BY <2>4, ControlMoves DEF StopKill
    <3> QED
      BY <3>1, <1>0, <1>1, <1>4, <2>4 DEF RequestInv, StopKill
  <2>5. CASE DebugAttach(c)
    <3>1. control'[c].pc = "idle"
      BY <2>5, ControlMoves DEF DebugAttach
    <3> QED
      BY <3>1, <1>0, <1>1, <1>4, <2>5 DEF RequestInv, DebugAttach
  <2> QED
    BY <2>1, <2>2, <2>3, <2>4, <2>5
<1> QED
  BY <1>3, <1>5, OneRequest, OtherRequests DEF ControlStep

(* pthread_join returns when the thread behind g_thread has ended. *)
LEMMA JoinStep ==
  ASSUME TracerInv, NEW c \in Controls, Alone(c), StartReap(c) \/ StopJoin(c)
  PROVE  HandleInv' /\ ControlInv' /\ Serial' /\ StatusInv'
<1> USE DEF TracerInv
<1>0. RequestInv(c)
  BY DEF ControlInv
<1>1. UNCHANGED <<handle, thread, g, target>>
  BY DEF StartReap, StopJoin
<1>2. CASE Join
  <2>1. \A t \in Threads : ~Live(t)
    BY <1>2 DEF Join, HandleInv, Live, NoThread, Threads, TypeOK
  <2>2. \A t \in joined' : thread'[t].pc = "exited"
    BY <1>2, <1>1 DEF Join, HandleInv
  <2>3. HandleInv'
    BY <2>1, <2>2, <1>1 DEF HandleInv, Live
  <2>4. NobodyLives'
    BY <2>1, <1>1 DEF NobodyLives, Live
  <2>5. control'[c].pc \in {"reaped", "final"}
        /\ (control'[c].pc = "reaped" => control[c].pc = "reap")
    BY ControlMoves DEF StartReap, StopJoin
  <2>6. RequestInv(c)'
    BY <2>4, <2>5, <1>0, <1>1 DEF RequestInv
  <2>7. StatusInv'
    BY <1>1 DEF StatusInv, Live
  <2> QED
    BY <2>3, <2>6, <2>7, OneRequest, OtherRequests DEF ControlStep
<1>3. CASE ~Join
  <2>1. StopJoin(c) /\ control[c].join # TRUE /\ UNCHANGED joined
    BY <1>3 DEF StartReap, StopJoin
  <2>2. g.created = FALSE
    BY <2>1, <1>0 DEF StopJoin, RequestInv, TypeOK
  <2>3. control'[c].pc = "final" /\ control[c].pc = "join"
    BY <2>1, ControlMoves DEF StopJoin
  <2>4. NobodyLives
    BY <2>2, <2>3, <1>0 DEF RequestInv
  <2>5. RequestInv(c)'
    BY <2>4, <2>3, <2>2, <1>1 DEF RequestInv, NobodyLives, Live
  <2>6. HandleInv' /\ StatusInv'
    BY <1>1, <2>1 DEF HandleInv, StatusInv, Live
  <2> QED
    BY <2>5, <2>6, OneRequest, OtherRequests DEF ControlStep
<1> QED
  BY <1>2, <1>3

LEMMA ReapedStep ==
  ASSUME TracerInv, NEW c \in Controls, Alone(c), StartReaped(c)
  PROVE  HandleInv' /\ ControlInv' /\ Serial' /\ StatusInv'
<1> USE DEF TracerInv
<1>0. RequestInv(c) /\ NobodyLives
  BY DEF ControlInv, RequestInv, StartReaped
<1>1. UNCHANGED <<handle, joined, thread, target>> /\ g'.created = FALSE
      /\ g'.running = g.running /\ g'.state = g.state /\ control'[c].pc = "reset"
  BY ControlMoves DEF StartReaped, TypeOK
<1>2. RequestInv(c)'
  BY <1>0, <1>1 DEF RequestInv, NobodyLives, Live
<1>3. HandleInv' /\ StatusInv'
  BY <1>1 DEF HandleInv, StatusInv, Live
<1> QED
  BY <1>2, <1>3, OneRequest, OtherRequests DEF ControlStep

LEMMA ResetStep ==
  ASSUME TracerInv, NEW c \in Controls, Alone(c), StartReset(c)
  PROVE  HandleInv' /\ ControlInv' /\ Serial' /\ StatusInv'
<1> USE DEF TracerInv
<1>0. RequestInv(c) /\ NobodyLives /\ g.created = FALSE
  BY DEF ControlInv, RequestInv, StartReset
<1>1. UNCHANGED <<handle, joined, thread, target>> /\ g'.created = g.created
      /\ g'.running = g.running /\ g'.state = "STARTING" /\ control'[c].pc = "spawn"
  BY ControlMoves DEF StartReset, TypeOK
<1>2. RequestInv(c)'
  BY <1>0, <1>1 DEF RequestInv, NobodyLives, Live
<1>3. \A t \in Threads : thread[t].pc \notin Tracing
  BY <1>0 DEF NobodyLives, Live, Tracing
<1>4. HandleInv' /\ StatusInv'
  BY <1>1, <1>3 DEF HandleInv, StatusInv, Live
<1> QED
  BY <1>2, <1>4, OneRequest, OtherRequests DEF ControlStep

LEMMA SpawnStep ==
  ASSUME TracerInv, NEW c \in Controls, Alone(c), StartSpawn(c)
  PROVE  HandleInv' /\ ControlInv' /\ Serial' /\ StatusInv'
<1> USE DEF TracerInv
<1>0. RequestInv(c) /\ NobodyLives /\ g.created = FALSE /\ g.state = "STARTING"
  BY DEF ControlInv, RequestInv, StartSpawn
<1>1. UNCHANGED <<joined, target>>
  BY DEF StartSpawn
<1>2. \A t \in Threads : thread[t].pc \in {"none", "exited"}
  BY <1>0 DEF NobodyLives, Live
<1>3. \A t \in Threads :
        thread[t].pc \notin Tracing \cup Letting \cup Published \cup {"detach"}
  BY <1>2 DEF Tracing, Letting, Published
<1>4. g.running # TRUE
  BY <1>3 DEF StatusInv
<1>5. ASSUME NEW t \in Threads, thread[t].pc = "none", handle' = t, UNCHANGED g,
             thread' = [thread EXCEPT ![t].pc = "attach"], ControlAt(c, "mark")
      PROVE  HandleInv' /\ ControlInv' /\ Serial' /\ StatusInv'
  <2>1. thread'[t].pc = "attach" /\ \A u \in Threads : u # t => thread'[u] = thread[u]
    BY <1>5, ThreadMoves DEF ThreadAt
  <2>2. t \notin joined /\ t # NoThread
    BY <1>5 DEF HandleInv, Threads, NoThread
  <2>3. HandleInv'
    <3>1. \A u \in Threads : Live(u)' => handle' = u
      BY <2>1, <1>2, <1>5 DEF Live
    <3>2. \A u \in joined' : thread'[u].pc = "exited"
      BY <2>1, <2>2, <1>1 DEF HandleInv, TypeOK
    <3> QED
      BY <3>1, <3>2, <2>1, <1>5 DEF HandleInv
  <2>4. control'[c].pc = "mark"
    BY <1>5, ControlMoves
  <2>5. RequestInv(c)'
    BY <2>4, <2>2, <1>5, <1>0, <1>1 DEF RequestInv
  <2>6. \A u \in Threads : thread'[u].pc \notin Tracing \cup Letting \cup {"detach"}
    BY <2>1, <1>3 DEF Tracing, Letting
  <2>7. StatusInv'
    BY <2>6, <1>4, <1>1, <1>5, <1>0 DEF StatusInv
  <2> QED
    BY <2>3, <2>5, <2>7, OneRequest, OtherRequests DEF ControlStep
<1>6. ASSUME g' = [g EXCEPT !.running = FALSE, !.starting = FALSE, !.state = "STOPPED"],
             ControlAt(c, "idle"), UNCHANGED <<thread, handle>>
      PROVE  HandleInv' /\ ControlInv' /\ Serial' /\ StatusInv'
  <2>1. control'[c].pc = "idle"
    BY <1>6, ControlMoves
  <2>2. g'.created = FALSE /\ g'.running = FALSE
    BY <1>6, <1>0 DEF TypeOK
  <2>3. RequestInv(c)'
    BY <2>1, <2>2, <1>0, <1>1, <1>6 DEF RequestInv, NobodyLives, Live
  <2>4. HandleInv'
    BY <1>1, <1>6 DEF HandleInv, Live
  <2>5. StatusInv'
    BY <2>2, <1>0, <1>1, <1>3, <1>4, <1>6 DEF StatusInv, NobodyLives, Live
  <2> QED
    BY <2>3, <2>4, <2>5, OneRequest, OtherRequests DEF ControlStep
<1> QED
  BY <1>5, <1>6 DEF StartSpawn

LEMMA MarkStep ==
  ASSUME TracerInv, NEW c \in Controls, Alone(c), StartMark(c)
  PROVE  HandleInv' /\ ControlInv' /\ Serial' /\ StatusInv'
<1> USE DEF TracerInv
<1>0. RequestInv(c) /\ handle # NoThread /\ handle \notin joined
  BY DEF ControlInv, RequestInv, StartMark
<1>1. UNCHANGED <<handle, joined, thread, target>> /\ g'.created = TRUE
      /\ g'.running = g.running /\ g'.state = g.state /\ control'[c].pc = "idle"
  BY ControlMoves DEF StartMark, TypeOK
<1>2. RequestInv(c)'
  BY <1>0, <1>1 DEF RequestInv
<1>3. HandleInv' /\ StatusInv'
  BY <1>1 DEF HandleInv, StatusInv, Live
<1> QED
  BY <1>2, <1>3, OneRequest, OtherRequests DEF ControlStep

LEMMA FinalStep ==
  ASSUME TracerInv, NEW c \in Controls, Alone(c), StopFinal(c)
  PROVE  HandleInv' /\ ControlInv' /\ Serial' /\ StatusInv'
<1> USE DEF TracerInv
<1>0. RequestInv(c) /\ NobodyLives
  BY DEF ControlInv, RequestInv, StopFinal
<1>1. UNCHANGED <<handle, joined, thread, target>> /\ g'.created = FALSE
      /\ g'.running = FALSE /\ control'[c].pc \in {"idle", "debug"}
  BY ControlMoves DEF StopFinal, TypeOK
<1>2. RequestInv(c)'
  BY <1>0, <1>1 DEF RequestInv, NobodyLives, Live
<1>3. \A t \in Threads : thread[t].pc \notin Tracing \cup Letting \cup {"detach"}
  BY <1>0 DEF NobodyLives, Live, Tracing, Letting
<1>4. HandleInv' /\ StatusInv'
  BY <1>0, <1>1, <1>3 DEF HandleInv, StatusInv, Live, NobodyLives
<1> QED
  BY <1>2, <1>4, OneRequest, OtherRequests DEF ControlStep

-----------------------------------------------------------------------------
(* The types, and the progress of a poll. *)

LEMMA ControlTypes ==
  ASSUME TypeOK, PollInv, NEW c \in Controls,
         \/ TracerAttach(c) \/ TracerStop(c, TRUE) \/ TracerStop(c, FALSE)
         \/ ControlStep(c)
  PROVE  TypeOK' /\ PollInv'
<1> USE Sizes
<1>1. PollInv'
  BY DEF PollInv, TracerAttach, TracerStop, ControlStep, StartCheck, StartReap,
         StartReaped, StartReset, StartSpawn, StartMark, StopKill, StopJoin, StopFinal,
         DebugAttach
<1>2. control' \in [Controls -> ControlRecord]
  <2>1. CASE TracerStop(c, TRUE) \/ TracerStop(c, FALSE)
    <3>1. g.running \in BOOLEAN /\ g.created \in BOOLEAN /\ g.target \in BOOLEAN
      BY DEF TypeOK
    <3>2. PICK r : r \in ControlRecord /\ control' = [control EXCEPT ![c] = r]
      BY <2>1, <3>1 DEF TracerStop, ControlRecord
    <3> QED
      BY <3>2 DEF TypeOK
  <2>2. CASE ControlStep(c) \/ TracerAttach(c)
    <3>1. PICK pc \in {"idle", "start", "reap", "reaped", "reset", "spawn", "mark",
                       "join", "final", "debug"} : ControlAt(c, pc)
      BY <2>2 DEF ControlStep, TracerAttach, StartCheck, StartReap, StartReaped,
                  StartReset, StartSpawn, StartMark, StopKill, StopJoin, StopFinal,
                  DebugAttach
    <3> QED
      BY <3>1, ControlMoves
  <2> QED
    BY <2>1, <2>2
<1>3. thread' \in [Threads -> ThreadRecord] /\ handle' \in Threads \cup {NoThread}
  <2>1. CASE StartSpawn(c)
    <3>1. ASSUME NEW t \in Threads, ThreadAt(t, "attach"), handle' = t
          PROVE  thread' \in [Threads -> ThreadRecord] /\ handle' \in Threads \cup {NoThread}
      BY <3>1, ThreadMoves
    <3>2. CASE UNCHANGED <<thread, handle>>
      BY <3>2 DEF TypeOK
    <3> QED
      BY <2>1, <3>1, <3>2 DEF StartSpawn, ThreadAt
  <2> QED
    BY <2>1 DEF TypeOK, TracerAttach, TracerStop, ControlStep, StartCheck, StartReap,
                StartReaped, StartReset, StartMark, StopKill, StopJoin, StopFinal,
                DebugAttach
<1>4. joined' \subseteq Threads
  BY DEF TypeOK, TracerAttach, TracerStop, ControlStep, StartCheck, StartReap,
         StartReaped, StartReset, StartSpawn, StartMark, StopKill, StopJoin, StopFinal,
         DebugAttach, Join
<1>5. g' \in [running : BOOLEAN, starting : BOOLEAN, stop_req : BOOLEAN,
              created : BOOLEAN, target : BOOLEAN,
              state : {"IDLE", "STARTING", "RUNNING", "STOPPED", "CRASHED", "EXITED"}]
  <2>1. CASE StartReset(c)
    BY <2>1 DEF TypeOK, StartReset
  <2>6. CASE StopFinal(c)
    BY <2>6 DEF TypeOK, StopFinal
  <2>2. CASE StartReaped(c) \/ StartMark(c)
    BY <2>2 DEF TypeOK, StartReaped, StartMark
  <2>3. CASE StartSpawn(c)
    BY <2>3 DEF TypeOK, StartSpawn
  <2>4. CASE TracerStop(c, TRUE) \/ TracerStop(c, FALSE)
    BY <2>4 DEF TypeOK, TracerStop
  <2>5. CASE UNCHANGED g
    BY <2>5 DEF TypeOK
  <2> QED
    BY <2>1, <2>2, <2>3, <2>4, <2>5, <2>6 DEF TracerAttach, ControlStep, StartCheck,
       StartReap, StopKill, StopJoin, DebugAttach
<1>6. target' \in [alive : BOOLEAN, traced : BOOLEAN, stopped : BOOLEAN,
                   pending : SUBSET {Stop, "syscall", "crash"}]
  <2>1. CASE StopKill(c)
    BY <2>1 DEF StopKill, Signalled, TypeOK
  <2> QED
    BY <2>1 DEF TypeOK, TracerAttach, TracerStop, ControlStep, StartCheck, StartReap,
                StartReaped, StartReset, StartSpawn, StartMark, StopJoin, StopFinal,
                DebugAttach
<1>7. dbg' \in {"none", "target", "other"} /\ crossed' \in BOOLEAN
  BY DEF TypeOK, TracerAttach, TracerStop, ControlStep, StartCheck, StartReap,
         StartReaped, StartReset, StartSpawn, StartMark, StopKill, StopJoin, StopFinal,
         DebugAttach, DebuggerAttaches, Begins
<1>8. UNCHANGED <<ring, poller, pushed>>
  BY DEF TracerAttach, TracerStop, ControlStep, StartCheck, StartReap, StartReaped,
         StartReset, StartSpawn, StartMark, StopKill, StopJoin, StopFinal, DebugAttach,
         ring_vars
<1>9. head' \in {head, 0} /\ tail' \in {tail, 0} /\ last' \in {last, None}
      /\ raced' \in BOOLEAN
  BY DEF TracerAttach, TracerStop, ControlStep, StartCheck, StartReap, StartReaped,
         StartReset, StartSpawn, StartMark, StopKill, StopJoin, StopFinal, DebugAttach,
         ring_vars, TypeOK, Reading
<1> QED
  BY <1>1, <1>2, <1>3, <1>4, <1>5, <1>6, <1>7, <1>8, <1>9 DEF TypeOK

(* A poll copies at least one event and stores a tail of its own. *)
LEMMA PollTypes ==
  ASSUME TypeOK, PollInv, NEW p \in Pollers, PopTail(p) \/ PollStep(p)
  PROVE  TypeOK' /\ PollInv'
<1> USE Sizes
<1>0. /\ poller[p] \in PollerRecord
      /\ UNCHANGED <<g, handle, joined, thread, control, target, dbg, crossed, ring,
                    head, pushed>>
  BY DEF TypeOK, PopTail, PollStep, PopHead, PopCopy, PopStore, ring_vars
<1>1. ASSUME NEW r \in PollerRecord, poller' = [poller EXCEPT ![p] = r],
             r.pc = "head" => r.out = <<>>,
             r.pc = "copy" => r.n >= 1 /\ Len(r.out) <= r.n,
             tail' \in 0..IndexMod - 1, last' \in Nat \cup {None}, raced' \in BOOLEAN
      PROVE  TypeOK' /\ PollInv'
  BY <1>0, <1>1 DEF TypeOK, PollInv
<1>2. CASE PopTail(p)
  <2> PICK r : r = [pc |-> "head", t |-> tail, n |-> 0, out |-> <<>>]
    OBVIOUS
  <2>1. r \in PollerRecord /\ r.pc = "head" /\ r.out = <<>>
    BY DEF PollerRecord, TypeOK
  <2>2. raced' \in BOOLEAN /\ tail' = tail /\ last' = last
    BY <1>2 DEF PopTail, TypeOK
  <2> QED
    BY <1>2, <2>1, <2>2, <1>1 DEF PopTail, TypeOK
<1>3. CASE PopHead(p)
  <2>1. PICK avail : avail = (head - poller[p].t) % IndexMod
    OBVIOUS
  <2>2. avail \in Nat
    <3>1. head \in Int /\ poller[p].t \in Int
      BY <1>0 DEF PollerRecord, TypeOK
    <3>2. PICK x \in Int : x = head - poller[p].t
      BY <3>1
    <3>3. x % IndexMod \in 0..IndexMod - 1
      BY Indices
    <3> QED
      BY <2>1, <3>2, <3>3
  <2>3. PICK n : n = IF avail < PollMax THEN avail ELSE PollMax
    OBVIOUS
  <2>4. n \in 0..PollMax
    BY <2>2, <2>3
  <2>5. PICK r : r = IF n = 0 THEN IdlePoller ELSE [poller[p] EXCEPT !.pc = "copy", !.n = n]
    OBVIOUS
  <2>6. poller' = [poller EXCEPT ![p] = r]
    BY <1>3, <2>1, <2>3, <2>5 DEF PopHead
  <2>7. poller[p].pc = "head" /\ poller[p].out = <<>>
    BY <1>3 DEF PopHead, PollInv
  <2>8. CASE n = 0
    <3>1. r = IdlePoller /\ r \in PollerRecord /\ r.pc = "idle"
      BY <2>8, <2>5 DEF IdlePoller, PollerRecord
    <3> QED
      BY <3>1, <2>6, <1>1, <1>3 DEF PopHead, ring_vars, TypeOK
  <2>9. CASE n # 0
    <3>1. r \in PollerRecord /\ r.pc = "copy" /\ r.n = n /\ r.out = <<>>
      BY <2>9, <2>5, <2>4, <2>7, <1>0 DEF PollerRecord
    <3>2. r.n >= 1 /\ Len(r.out) <= r.n
      BY <3>1, <2>4, <2>9
    <3> QED
      BY <3>1, <3>2, <2>6, <1>1, <1>3 DEF PopHead, ring_vars, TypeOK
  <2> QED
    BY <2>8, <2>9
<1>4. CASE PopCopy(p)
  <2>1. PICK e : e = ring[(poller[p].t + Len(poller[p].out)) % RingSize]
    OBVIOUS
  <2>2. poller[p].out \in Seq(Nat) /\ poller[p].t \in Int /\ Len(poller[p].out) \in Nat
    BY <1>0 DEF PollerRecord
  <2>3. (poller[p].t + Len(poller[p].out)) % RingSize \in 0..RingSize - 1
    <3>1. poller[p].t + Len(poller[p].out) \in Int
      BY <2>2
    <3> QED
      BY <3>1, Indices
  <2>4. e \in Nat
    BY <2>1, <2>3 DEF TypeOK
  <2>5. PICK r : r = [poller[p] EXCEPT !.out = Append(@, e)]
    OBVIOUS
  <2>6. poller' = [poller EXCEPT ![p] = r]
    BY <1>4, <2>1, <2>5 DEF PopCopy
  <2>7. r \in PollerRecord /\ r.n = poller[p].n /\ r.pc = "copy"
        /\ Len(r.out) = Len(poller[p].out) + 1
    <3>1. Append(poller[p].out, e) \in Seq(Nat)
          /\ Len(Append(poller[p].out, e)) = Len(poller[p].out) + 1
      BY <2>2, <2>4
    <3> QED
      BY <1>0, <1>4, <3>1, <2>5 DEF PollerRecord, PopCopy
  <2>8. poller[p].n >= 1 /\ Len(poller[p].out) < poller[p].n /\ poller[p].n \in Nat
    BY <1>4, <1>0 DEF PopCopy, PollInv, PollerRecord
  <2>9. r.n >= 1 /\ Len(r.out) <= r.n
    BY <2>7, <2>8, <2>2
  <2>10. tail' \in 0..IndexMod - 1 /\ last' \in Nat \cup {None} /\ raced' \in BOOLEAN
    BY <1>4 DEF PopCopy, ring_vars, TypeOK
  <2> QED
    BY <2>6, <2>7, <2>9, <2>10, <1>1
<1>5. CASE PopStore(p)
  <2>1. poller[p].n \in Nat /\ poller[p].n >= 1 /\ Len(poller[p].out) = poller[p].n
        /\ poller[p].out \in Seq(Nat) /\ poller[p].t \in Int
    BY <1>5, <1>0 DEF PopStore, PollInv, PollerRecord
  <2>2. tail' \in 0..IndexMod - 1
    <3>1. poller[p].t + poller[p].n \in Int
      BY <2>1
    <3> QED
      BY <1>5, <3>1, Indices DEF PopStore
  <2>3. last' \in Nat
    <3>1. poller[p].out[poller[p].n] \in Nat
      BY <2>1
    <3> QED
      BY <1>5, <3>1 DEF PopStore
  <2>4. IdlePoller \in PollerRecord /\ IdlePoller.pc = "idle"
    BY DEF IdlePoller, PollerRecord
  <2> QED
    BY <1>5, <2>2, <2>3, <2>4, <1>1 DEF PopStore, TypeOK
<1> QED
  BY <1>2, <1>3, <1>4, <1>5 DEF PollStep

Surroundings ==
  \/ TargetEnds \/ (\E e \in {"syscall", "crash"} : TargetEvent(e))
  \/ LegacyDebugAttach \/ DebugDetach

LEMMA TargetTypes ==
  ASSUME TypeOK, PollInv, Surroundings
  PROVE  /\ TypeOK' /\ PollInv'
         /\ target'.traced = target.traced /\ target'.stopped = target.stopped
<1>1. UNCHANGED <<g, handle, joined, ring, head, tail, thread, control, poller, pushed,
                  last, raced, crossed>>
  BY DEF Surroundings, TargetEnds, TargetEvent, LegacyDebugAttach, DebugDetach, ring_vars
<1>2. dbg' \in {"none", "target", "other"}
  BY DEF Surroundings, TargetEnds, TargetEvent, LegacyDebugAttach, DebuggerAttaches,
         DebugDetach, TypeOK
<1> DEFINE Good == /\ target' \in [alive : BOOLEAN, traced : BOOLEAN, stopped : BOOLEAN,
                                   pending : SUBSET {Stop, "syscall", "crash"}]
                   /\ target'.traced = target.traced /\ target'.stopped = target.stopped
<1>3. Good
  <2>1. CASE TargetEnds
    BY <2>1 DEF TargetEnds, TypeOK
  <2>2. ASSUME NEW e \in {"syscall", "crash"}, TargetEvent(e)
        PROVE  Good
    <3>1. target.pending \cup {e} \in SUBSET {Stop, "syscall", "crash"}
      BY <2>2 DEF TypeOK
    <3> QED
      BY <2>2, <3>1 DEF TargetEvent, TypeOK
  <2>3. CASE LegacyDebugAttach \/ DebugDetach
    BY <2>3 DEF LegacyDebugAttach, DebugDetach, TypeOK
  <2> QED
    BY <2>1, <2>2, <2>3 DEF Surroundings
<1> QED
  BY <1>1, <1>2, <1>3 DEF TypeOK, PollInv

LEMMA ThreadTypes ==
  ASSUME TypeOK, PollInv, NEW t \in Threads, ThreadStep(t) \/ WaitFails(t)
  PROVE  TypeOK' /\ PollInv'
<1> USE Sizes
<1>0. UNCHANGED <<handle, joined, control, poller, dbg, crossed>>
  BY DEF ThreadStep, WaitFails, Attach, CheckStop, ResumeFirst, PublishRunning, Wait,
         PushWrite, PushHead, PushTail, PublishCrash, ResumeTarget, Detach, ThreadDone
<1>1. PollInv'
  BY <1>0 DEF PollInv
<1>2. g' \in [running : BOOLEAN, starting : BOOLEAN, stop_req : BOOLEAN,
              created : BOOLEAN, target : BOOLEAN,
              state : {"IDLE", "STARTING", "RUNNING", "STOPPED", "CRASHED", "EXITED"}]
  <2>1. CASE Attach(t)
    BY <2>1 DEF TypeOK, Attach
  <2>2. CASE PublishRunning(t)
    BY <2>2 DEF TypeOK, PublishRunning
  <2>3. CASE PublishCrash(t)
    <3>1. PICK s \in {"EXITED", "CRASHED"} :
             g' = [g EXCEPT !.state = s, !.running = FALSE]
      BY <2>3 DEF PublishCrash
    <3> QED
      BY <3>1 DEF TypeOK
  <2>4. CASE ThreadDone(t)
    <3>1. PICK s \in {"IDLE", "STARTING", "RUNNING", "STOPPED", "CRASHED", "EXITED"} :
             g' = [g EXCEPT !.state = s, !.running = FALSE, !.starting = FALSE]
      BY <2>4 DEF TypeOK, ThreadDone
    <3> QED
      BY <3>1 DEF TypeOK
  <2>5. CASE UNCHANGED g
    BY <2>5 DEF TypeOK
  <2> QED
    BY <2>1, <2>2, <2>3, <2>4, <2>5 DEF ThreadStep, WaitFails, CheckStop, ResumeFirst,
       Wait, PushWrite, PushHead, PushTail, ResumeTarget, Detach
<1>3. target' \in [alive : BOOLEAN, traced : BOOLEAN, stopped : BOOLEAN,
                   pending : SUBSET {Stop, "syscall", "crash"}]
  <2>1. CASE Wait(t)
    <3>1. CASE UNCHANGED target
      BY <3>1 DEF TypeOK
    <3>2. ASSUME NEW e \in target.pending,
                 target' = [target EXCEPT !.pending = @ \ {e}, !.stopped = TRUE]
          PROVE  target' \in [alive : BOOLEAN, traced : BOOLEAN, stopped : BOOLEAN,
                              pending : SUBSET {Stop, "syscall", "crash"}]
      <4>1. target.pending \ {e} \in SUBSET {Stop, "syscall", "crash"}
        BY DEF TypeOK
      <4> QED
        BY <3>2, <4>1 DEF TypeOK
    <3> QED
      BY <2>1, <3>1, <3>2 DEF Wait
  <2>2. CASE Detach(t)
    <3>1. (Stop \in target.pending) \in BOOLEAN
      OBVIOUS
    <3>2. CASE target' = target
      BY <3>2 DEF TypeOK
    <3>3. CASE target' = [target EXCEPT !.traced = FALSE, !.pending = {},
                                        !.stopped = Stop \in target.pending]
      BY <3>1, <3>3 DEF TypeOK
    <3> QED
      BY <2>2, <3>2, <3>3 DEF Detach
  <2> QED
    BY <2>1, <2>2 DEF TypeOK, ThreadStep, WaitFails, Attach, CheckStop, ResumeFirst,
         PublishRunning, PushWrite, PushHead, PushTail, PublishCrash, ResumeTarget,
         ThreadDone
<1>4. thread' \in [Threads -> ThreadRecord]
  <2>1. thread[t] \in ThreadRecord
    BY DEF TypeOK
  <2>2. ASSUME NEW r \in ThreadRecord, thread' = [thread EXCEPT ![t] = r]
        PROVE  thread' \in [Threads -> ThreadRecord]
    BY <2>2 DEF TypeOK
  <2>3. CASE Wait(t)
    <3>1. ASSUME NEW e \in Causes, NEW pc \in {"push write", "resume"},
                 thread' = [thread EXCEPT ![t].pc = pc, ![t].ev = e]
          PROVE  thread' \in [Threads -> ThreadRecord]
      <4>1. [thread[t] EXCEPT !.pc = pc, !.ev = e] \in ThreadRecord
        BY <2>1 DEF ThreadRecord
      <4> QED
        BY <3>1, <4>1, <2>2
    <3>2. target.pending \subseteq Causes /\ "exit" \in Causes
      BY DEF TypeOK, Causes
    <3>3. CASE thread' = [thread EXCEPT ![t].pc = "push write", ![t].ev = "exit"]
      BY <3>1, <3>2, <3>3
    <3>4. ASSUME NEW e \in target.pending,
                 \E pc \in {"push write"} \cup (IF e = "syscall" THEN {"resume"} ELSE {}) :
                   thread' = [thread EXCEPT ![t].pc = pc, ![t].ev = e]
          PROVE  thread' \in [Threads -> ThreadRecord]
      <4>1. PICK pc \in {"push write", "resume"} :
                   thread' = [thread EXCEPT ![t].pc = pc, ![t].ev = e]
        BY <3>4
      <4> QED
        BY <4>1, <3>1, <3>2
    <3> QED
      BY <2>3, <3>3, <3>4 DEF Wait
  <2>4. CASE PushWrite(t)
    <3>1. [thread[t] EXCEPT !.pc = "push head", !.h = head] \in ThreadRecord
      BY <2>1 DEF ThreadRecord, TypeOK
    <3> QED
      BY <2>4, <3>1, <2>2 DEF PushWrite
  <2>5. CASE PushHead(t)
    <3>0. 0 \in 0..IndexMod - 1
      OBVIOUS
    <3>1. [thread[t] EXCEPT !.pc = "push tail", !.h = 0] \in ThreadRecord
      BY <2>1, <3>0 DEF ThreadRecord
    <3> QED
      BY <2>5, <3>1, <2>2 DEF PushHead
  <2>6. CASE PublishCrash(t)
    <3>1. [thread[t] EXCEPT !.pc = "detach", !.ev = "none"] \in ThreadRecord
      BY <2>1 DEF ThreadRecord
    <3>2. thread' = [thread EXCEPT ![t] = [thread[t] EXCEPT !.pc = "detach", !.ev = "none"]]
      BY <2>6 DEF PublishCrash
    <3> QED
      BY <3>1, <3>2, <2>2
  <2>7. CASE ResumeTarget(t)
    <3>1. [thread[t] EXCEPT !.pc = "loop", !.ev = "none"] \in ThreadRecord
      BY <2>1 DEF ThreadRecord
    <3>2. thread' = [thread EXCEPT ![t] = [thread[t] EXCEPT !.pc = "loop", !.ev = "none"]]
      BY <2>7 DEF ResumeTarget
    <3> QED
      BY <3>1, <3>2, <2>2
  <2>8. CASE Attach(t) \/ CheckStop(t) \/ ResumeFirst(t) \/ PublishRunning(t)
             \/ WaitFails(t) \/ PushTail(t) \/ Detach(t) \/ ThreadDone(t)
    <3>1. \E pc \in {"attach", "attached", "resume first", "resumed", "publish", "loop",
                     "wait", "push write", "push head", "push tail", "crashed",
                     "resume", "detach", "done", "exited"} : ThreadAt(t, pc)
      BY <2>8 DEF Attach, CheckStop, ResumeFirst, PublishRunning, WaitFails, PushTail,
                  Detach, ThreadDone
    <3> QED
      BY <3>1, ThreadMoves
  <2> QED
    BY <2>3, <2>4, <2>5, <2>6, <2>7, <2>8 DEF ThreadStep
<1>5. /\ ring' \in [0..RingSize - 1 -> Nat] /\ head' \in 0..IndexMod - 1
      /\ tail' \in 0..IndexMod - 1 /\ pushed' \in Nat /\ last' \in Nat \cup {None}
      /\ raced' \in BOOLEAN
  <2>0. head \in Int /\ tail \in Int /\ thread[t].h \in Int
    <3>1. thread[t].h \in 0..IndexMod - 1 /\ head \in 0..IndexMod - 1
          /\ tail \in 0..IndexMod - 1
      BY DEF TypeOK, ThreadRecord
    <3> QED
      BY <3>1
  <2>1. CASE PushWrite(t)
    <3>1. head % RingSize \in 0..RingSize - 1
      BY <2>0, Indices
    <3> QED
      BY <2>1, <3>1 DEF PushWrite, TypeOK
  <2>2. CASE PushHead(t)
    <3>1. PICK x \in Int : x = thread[t].h + 1
      BY <2>0
    <3>2. head' \in 0..IndexMod - 1
      BY <2>2, <3>1, Indices DEF PushHead
    <3>3. pushed' = pushed + 1 /\ UNCHANGED <<ring, tail, last, raced>>
      BY <2>2 DEF PushHead
    <3> QED
      BY <3>2, <3>3 DEF TypeOK
  <2>3. CASE PushTail(t)
    <3>1. PICK x \in Int : x = head - RingSize
      BY <2>0
    <3>2. x % IndexMod \in 0..IndexMod - 1
      BY Indices
    <3>3. tail' \in 0..IndexMod - 1
      BY <2>3, <3>1, <3>2 DEF PushTail, TypeOK
    <3> QED
      BY <2>3, <3>3 DEF PushTail, TypeOK
  <2> QED
    BY <2>1, <2>2, <2>3 DEF TypeOK, ThreadStep, WaitFails, Attach, CheckStop,
         ResumeFirst, PublishRunning, Wait, PublishCrash, ResumeTarget, Detach,
         ThreadDone, ring_vars
<1> QED
  BY <1>0, <1>1, <1>2, <1>3, <1>4, <1>5 DEF TypeOK

-----------------------------------------------------------------------------
LEMMA InitTracerInv == Init => TracerInv
<1> SUFFICES ASSUME Init PROVE TracerInv
  OBVIOUS
<1> USE Sizes DEF Init
<1>1. TypeOK
  <2>1. thread \in [Threads -> ThreadRecord]
    <3>1. [pc |-> "none", ev |-> "none", h |-> 0] \in ThreadRecord
      BY DEF ThreadRecord
    <3> QED
      BY <3>1
  <2>2. control \in [Controls -> ControlRecord]
    BY DEF ControlRecord, IdleControl
  <2>3. poller \in [Pollers -> PollerRecord]
    <3>1. IdlePoller \in PollerRecord
      BY DEF PollerRecord, IdlePoller
    <3> QED
      BY <3>1
  <2>4. ring \in [0..RingSize - 1 -> Nat] /\ head \in 0..IndexMod - 1
        /\ tail \in 0..IndexMod - 1
    OBVIOUS
  <2> QED
    BY <2>1, <2>2, <2>3, <2>4 DEF TypeOK, NoThread
<1>2. \A t \in Threads : thread[t].pc = "none"
  OBVIOUS
<1>3. HandleInv
  BY <1>2 DEF HandleInv, Live
<1>4. NobodyLives
  BY <1>2 DEF NobodyLives, Live
<1>5. ControlInv /\ Serial
  BY <1>4 DEF ControlInv, RequestInv, IdleControl, Serial
<1>6. StatusInv
  BY <1>2 DEF StatusInv, Tracing, Letting, Live
<1>7. PollInv
  BY DEF PollInv, IdlePoller
<1> QED
  BY <1>1, <1>3, <1>5, <1>6, <1>7 DEF TracerInv

LEMMA ThreadCore ==
  ASSUME TracerInv, NEW t \in Threads, ThreadStep(t) \/ WaitFails(t)
  PROVE  HandleInv' /\ ControlInv' /\ StatusInv' /\ Serial'
<1> USE DEF TracerInv
<1>0. Serial'
  <2>1. UNCHANGED control
    BY DEF ThreadStep, WaitFails, Attach, CheckStop, ResumeFirst, PublishRunning, Wait,
           PushWrite, PushHead, PushTail, PublishCrash, ResumeTarget, Detach, ThreadDone
  <2> QED
    BY <2>1 DEF Serial, Alone
<1>1. CASE Attach(t)
  BY <1>0, <1>1, AttachStep
<1>2. CASE Detach(t)
  BY <1>0, <1>2, DetachStep
<1>3. CASE ThreadDone(t)
  BY <1>0, <1>3, DoneStep
<1>4. CASE \/ CheckStop(t) \/ ResumeFirst(t) \/ PublishRunning(t) \/ Wait(t)
           \/ WaitFails(t) \/ PushWrite(t) \/ PushHead(t) \/ PushTail(t)
           \/ PublishCrash(t) \/ ResumeTarget(t)
  <2>1. UNCHANGED <<handle, joined, control>>
    BY <1>4 DEF CheckStop, ResumeFirst, PublishRunning, Wait, WaitFails, PushWrite,
                PushHead, PushTail, PublishCrash, ResumeTarget
  <2>2. thread[t].pc \in Tracing
    BY <1>4 DEF CheckStop, ResumeFirst, PublishRunning, Wait, WaitFails, PushWrite,
                PushHead, PushTail, PublishCrash, ResumeTarget, Tracing
  <2>3. g.state \notin {"IDLE", "STOPPED"}
    BY <2>2 DEF StatusInv, Live, Tracing
  <2>4. g'.created = g.created /\ g'.state \notin {"IDLE", "STOPPED"}
    BY <1>4, <2>3 DEF CheckStop, ResumeFirst, PublishRunning, Wait, WaitFails,
                PushWrite, PushHead, PushTail, PublishCrash, ResumeTarget, TypeOK
  <2>5. target'.traced = target.traced
    BY <1>4 DEF CheckStop, ResumeFirst, PublishRunning, Wait, WaitFails, PushWrite,
                PushHead, PushTail, PublishCrash, ResumeTarget, TypeOK
  <2>6. \A u \in Threads : u # t => thread'[u] = thread[u]
    BY <1>4 DEF CheckStop, ResumeFirst, PublishRunning, Wait, WaitFails, PushWrite,
                PushHead, PushTail, PublishCrash, ResumeTarget, TypeOK, ThreadAt
  <2>7. thread'[t].pc \in Tracing
    <3>1. thread[t] \in ThreadRecord
      BY DEF TypeOK
    <3>2. CASE CheckStop(t) \/ ResumeFirst(t) \/ PublishRunning(t) \/ WaitFails(t)
               \/ PushTail(t)
      <4>1. \E pc \in {"detach", "resume first", "publish", "wait", "resumed", "loop",
                       "crashed", "resume"} : ThreadAt(t, pc)
        BY <3>2 DEF CheckStop, ResumeFirst, PublishRunning, WaitFails, PushTail
      <4> QED
        BY <4>1, ThreadMoves DEF Tracing
    <3>3. CASE Wait(t)
      <4>1. \E pc \in {"push write", "resume"}, e \in Causes :
               thread' = [thread EXCEPT ![t].pc = pc, ![t].ev = e]
        <5>1. target.pending \subseteq Causes /\ "exit" \in Causes
          BY DEF TypeOK, Causes
        <5> QED
          BY <3>3, <5>1 DEF Wait
      <4>2. PICK pc \in {"push write", "resume"}, e \in Causes :
               thread' = [thread EXCEPT ![t].pc = pc, ![t].ev = e]
        BY <4>1
      <4>3. [thread[t] EXCEPT !.pc = pc, !.ev = e].pc = pc
        BY <3>1 DEF ThreadRecord
      <4>4. thread'[t] = [thread[t] EXCEPT !.pc = pc, !.ev = e]
        BY <4>2 DEF TypeOK
      <4> QED
        BY <4>3, <4>4 DEF Tracing
    <3>4. CASE PushWrite(t) \/ PushHead(t) \/ PublishCrash(t) \/ ResumeTarget(t)
      <4>1. \/ thread'[t] = [thread[t] EXCEPT !.pc = "push head", !.h = head]
            \/ thread'[t] = [thread[t] EXCEPT !.pc = "push tail", !.h = 0]
            \/ thread'[t] = [thread[t] EXCEPT !.pc = "detach", !.ev = "none"]
            \/ thread'[t] = [thread[t] EXCEPT !.pc = "loop", !.ev = "none"]
        BY <3>4 DEF PushWrite, PushHead, PublishCrash, ResumeTarget, TypeOK
      <4> QED
        BY <4>1, <3>1 DEF ThreadRecord, Tracing
    <3> QED
      BY <1>4, <3>2, <3>3, <3>4
  <2>8. Live(t) /\ \A u \in Threads : u # t => thread[u].pc \notin Published
    <3>1. Live(t)
      BY <2>2 DEF Live, Tracing
    <3>2. \A u \in Threads : u # t => ~Live(u)
      BY <3>1 DEF HandleInv
    <3> QED
      BY <3>1, <3>2 DEF Live, Published
  <2>9. g.running = TRUE => thread[t].pc \in Published
    BY <2>8 DEF StatusInv
  <2>10. thread[t].pc \in Letting => target.stopped = FALSE
    BY DEF StatusInv
  <2> DEFINE Kept == /\ g'.running = TRUE => thread'[t].pc \in Published
                     /\ thread'[t].pc \in Letting => target'.stopped = FALSE
                     /\ thread'[t].pc = "detach" /\ g'.running = TRUE
                          => target'.stopped = FALSE
  <2>11. Kept
    <3>1. CASE CheckStop(t)
      <4>1. thread'[t].pc \in {"detach", "resume first", "publish", "wait"}
            /\ (thread'[t].pc = "publish" => thread[t].pc = "resumed")
            /\ (thread'[t].pc = "wait" => thread[t].pc = "loop")
        BY <3>1, ThreadMoves DEF CheckStop
      <4>2. UNCHANGED <<g, target>> /\ thread[t].pc \in {"attached", "resumed", "loop"}
        BY <3>1 DEF CheckStop
      <4>3. g.running = TRUE => thread[t].pc = "loop" /\ thread'[t].pc \in {"detach", "wait"}
        <5>1. g.running = TRUE => thread[t].pc = "loop"
          BY <4>2, <2>9 DEF Published
        <5>2. thread[t].pc = "loop" => thread'[t].pc \in {"detach", "wait"}
          BY <3>1, ThreadMoves DEF CheckStop
        <5> QED
          BY <5>1, <5>2
      <4> QED
        BY <4>1, <4>2, <4>3, <2>10 DEF Published, Letting
    <3>2. CASE ResumeFirst(t)
      <4>1. g.running # TRUE /\ UNCHANGED g
        BY <3>2, <2>9 DEF ResumeFirst, Published
      <4>2. CASE ThreadAt(t, "resumed") /\ target' = [target EXCEPT !.stopped = FALSE]
        BY <4>1, <4>2 DEF TypeOK
      <4>3. CASE ThreadAt(t, "detach")
        <5>1. thread'[t].pc = "detach"
          BY <4>3, ThreadMoves
        <5> QED
          BY <5>1, <4>1 DEF Letting
      <4> QED
        BY <3>2, <4>2, <4>3 DEF ResumeFirst
    <3>3. CASE PublishRunning(t)
      <4>1. thread'[t].pc = "loop" /\ UNCHANGED target /\ target.stopped = FALSE
        BY <3>3, ThreadMoves, <2>10 DEF PublishRunning, Letting
      <4> QED
        BY <4>1 DEF Published
    <3>4. CASE Wait(t)
      <4>1. UNCHANGED g /\ thread'[t].pc \in {"push write", "resume"}
        <5>1. thread[t] \in ThreadRecord
          BY DEF TypeOK
        <5>2. \E pc \in {"push write", "resume"}, e \in Causes :
                thread' = [thread EXCEPT ![t].pc = pc, ![t].ev = e]
          <6>1. target.pending \subseteq Causes /\ "exit" \in Causes
            BY DEF TypeOK, Causes
          <6> QED
            BY <3>4, <6>1 DEF Wait
        <5>3. \E pc \in {"push write", "resume"}, e \in Causes :
                thread'[t] = [thread[t] EXCEPT !.pc = pc, !.ev = e]
          BY <5>2 DEF TypeOK
        <5> QED
          BY <3>4, <5>1, <5>3 DEF Wait, ThreadRecord
      <4> QED
        BY <4>1 DEF Published, Letting
    <3>5. CASE WaitFails(t)
      <4>1. thread'[t].pc \in {"loop", "detach"}
        BY <3>5, ThreadMoves DEF WaitFails
      <4>2. UNCHANGED target /\ target.stopped = FALSE
        BY <3>5, <2>10 DEF WaitFails, Letting
      <4> QED
        BY <4>1, <4>2 DEF Published
    <3>6. CASE PushWrite(t) \/ PushHead(t) \/ PushTail(t)
      <4>1. thread[t] \in ThreadRecord
        BY DEF TypeOK
      <4>2. CASE PushTail(t)
        <5>1. thread'[t].pc \in {"crashed", "resume"}
          BY <4>2, ThreadMoves DEF PushTail
        <5> QED
          BY <5>1 DEF Published, Letting
      <4>3. CASE PushWrite(t) \/ PushHead(t)
        <5>1. \/ thread'[t] = [thread[t] EXCEPT !.pc = "push head", !.h = head]
              \/ thread'[t] = [thread[t] EXCEPT !.pc = "push tail", !.h = 0]
          BY <4>3 DEF PushWrite, PushHead, TypeOK
        <5>2. thread'[t].pc \in {"push head", "push tail"}
          BY <5>1, <4>1 DEF ThreadRecord
        <5> QED
          BY <5>2 DEF Published, Letting
      <4> QED
        BY <3>6, <4>2, <4>3
    <3>7. CASE PublishCrash(t)
      <4>1. g'.running = FALSE
        BY <3>7 DEF PublishCrash, TypeOK
      <4>2. thread'[t] = [thread[t] EXCEPT !.pc = "detach", !.ev = "none"]
            /\ thread[t] \in ThreadRecord
        BY <3>7 DEF PublishCrash, TypeOK
      <4>3. thread'[t].pc = "detach"
        BY <4>2 DEF ThreadRecord
      <4> QED
        BY <4>1, <4>3 DEF Letting
    <3>8. CASE ResumeTarget(t)
      <4>1. thread'[t] = [thread[t] EXCEPT !.pc = "loop", !.ev = "none"]
            /\ thread[t] \in ThreadRecord /\ target'.stopped = FALSE
        BY <3>8 DEF ResumeTarget, TypeOK
      <4>2. thread'[t].pc = "loop"
        BY <4>1 DEF ThreadRecord
      <4> QED
        BY <4>1, <4>2 DEF Published
    <3> QED
      BY <1>4, <3>1, <3>2, <3>3, <3>4, <3>5, <3>6, <3>7, <3>8
  <2> HIDE DEF Kept
  <2>12. HandleInv' /\ ControlInv' /\ StatusInv'
    <3> USE <2>11 DEF Kept
    <3> QED
      BY <2>1, <2>2, <2>4, <2>5, <2>6, <2>7, TracingStep
  <2> QED
    BY <2>12, <1>0
<1> QED
  BY <1>0, <1>1, <1>2, <1>3, <1>4 DEF ThreadStep

LEMMA NextTracerInv ==
  ASSUME TracerInv, [Next]_vars, crossed' = FALSE
  PROVE  TracerInv'
<1> USE DEF TracerInv
<1>1. ASSUME NEW c \in Controls,
             \/ TracerAttach(c) \/ TracerStop(c, FALSE) \/ TracerStop(c, TRUE)
             \/ ControlStep(c)
      PROVE  TracerInv'
  <2>0. Alone(c)
    <3>1. CASE TracerAttach(c) \/ TracerStop(c, FALSE) \/ TracerStop(c, TRUE)
      BY <3>1 DEF TracerAttach, TracerStop, Begins, Alone
    <3>2. CASE ControlStep(c)
      <4>1. control[c].pc # "idle"
        BY <3>2 DEF ControlStep, StartCheck, StartReap, StartReaped, StartReset,
                    StartSpawn, StartMark, StopKill, StopJoin, StopFinal, DebugAttach
      <4> QED
        BY <4>1 DEF Serial
    <3> QED
      BY <1>1, <3>1, <3>2
  <2>1. TypeOK' /\ PollInv'
    BY <1>1, ControlTypes
  <2>2. HandleInv' /\ ControlInv' /\ Serial' /\ StatusInv'
    BY <1>1, <2>0, QuietRequest, JoinStep, ReapedStep, ResetStep, SpawnStep, MarkStep,
       FinalStep DEF ControlStep
  <2> QED
    BY <2>1, <2>2
<1>2. ASSUME NEW t \in Threads, ThreadStep(t) \/ WaitFails(t)
      PROVE  TracerInv'
  BY <1>2, ThreadTypes, ThreadCore
<1>3. ASSUME NEW p \in Pollers, PopTail(p) \/ PollStep(p)
      PROVE  TracerInv'
  <2>1. TypeOK' /\ PollInv'
    BY <1>3, PollTypes
  <2>2. UNCHANGED <<g, handle, joined, thread, control, target>>
    BY <1>3 DEF PopTail, PollStep, PopHead, PopCopy, PopStore
  <2> QED
    BY <2>1, <2>2, CoreStutters
<1>4. CASE Surroundings
  <2>1. TypeOK' /\ PollInv' /\ target'.traced = target.traced
        /\ target'.stopped = target.stopped
    BY <1>4, TargetTypes
  <2>2. UNCHANGED <<g, handle, joined, thread, control>>
    BY <1>4 DEF Surroundings, TargetEnds, TargetEvent, LegacyDebugAttach, DebugDetach
  <2> QED
    BY <2>1, <2>2, CoreStutters
<1>5. CASE UNCHANGED vars
  <2>1. TypeOK' /\ PollInv'
    BY <1>5 DEF vars, TypeOK, PollInv
  <2>2. UNCHANGED <<g, handle, joined, thread, control, target>>
    BY <1>5 DEF vars
  <2> QED
    BY <2>1, <2>2, CoreStutters
<1> QED
  BY <1>1, <1>2, <1>3, <1>4, <1>5 DEF Next, Surroundings

LEMMA NextCrossed ==
  ASSUME TypeOK, [Next]_vars
  PROVE  crossed' = FALSE => crossed = FALSE
<1>1. ASSUME NEW c \in Controls, TracerAttach(c) \/ TracerStop(c, FALSE) \/ TracerStop(c, TRUE)
      PROVE  crossed' = FALSE => crossed = FALSE
  <2>1. Begins
    BY <1>1 DEF TracerAttach, TracerStop
  <2> QED
    BY <2>1 DEF Begins, TypeOK
<1>2. ASSUME NEW c \in Controls, ControlStep(c)
      PROVE  UNCHANGED crossed
  BY <1>2 DEF ControlStep, StartCheck, StartReap, StartReaped, StartReset, StartSpawn,
     StartMark, StopKill, StopJoin, StopFinal, DebugAttach
<1>3. ASSUME NEW t \in Threads, ThreadStep(t) \/ WaitFails(t)
      PROVE  UNCHANGED crossed
  BY <1>3 DEF ThreadStep, WaitFails, Attach, CheckStop, ResumeFirst, PublishRunning, Wait,
     PushWrite, PushHead, PushTail, PublishCrash, ResumeTarget, Detach, ThreadDone
<1>4. ASSUME NEW p \in Pollers, PopTail(p) \/ PollStep(p)
      PROVE  UNCHANGED crossed
  BY <1>4 DEF PopTail, PollStep, PopHead, PopCopy, PopStore
<1>5. CASE Surroundings \/ UNCHANGED vars
  BY <1>5 DEF Surroundings, TargetEvent, TargetEnds, LegacyDebugAttach, DebugDetach, vars
<1> QED
  BY <1>1, <1>2, <1>3, <1>4, <1>5 DEF Next, Surroundings

(* Overlapping requests stay on record, and spoil nobody's types. *)
LEMMA NextUncrossed ==
  ASSUME UncrossedInv, [Next]_vars
  PROVE  UncrossedInv'
<1> USE DEF UncrossedInv
<1>2. crossed' = FALSE => crossed = FALSE
  BY NextCrossed DEF UncrossedInv
<1>3. TypeOK' /\ PollInv'
  <2>1. CASE UNCHANGED vars
    BY <2>1 DEF vars, TypeOK, PollInv
  <2> QED
    BY <2>1, ControlTypes, ThreadTypes, PollTypes, TargetTypes DEF Next, Surroundings
<1>4. crossed' = FALSE => TracerInv'
  BY <1>2, NextTracerInv
<1> QED
  BY <1>3, <1>4

LEMMA UncrossedImplies ==
  ASSUME UncrossedInv
  PROVE  OneTracer /\ StatusTruthful
<1> USE DEF UncrossedInv, TracerInv
<1>0. crossed = FALSE \/ crossed = TRUE
  BY DEF TypeOK
<1>1. CASE crossed = FALSE
  <2>1. \A t, u \in Threads : Live(t) /\ Live(u) => t = u
    BY <1>1 DEF HandleInv
  <2>2. ASSUME NEW c \in Controls, control[c].pc # "idle" PROVE RequestInv(c)
    BY <1>1, <2>2 DEF Serial, ControlInv
  <2>3. ASSUME NEW c \in Controls,
               control[c].pc = "reap" \/ (control[c].pc = "join" /\ control[c].join)
        PROVE  handle \notin joined
    <3>1. RequestInv(c) /\ control[c] \in ControlRecord
      BY <2>2, <2>3 DEF TypeOK
    <3>2. g.created = TRUE
      BY <2>3, <3>1 DEF RequestInv, ControlRecord
    <3> QED
      BY <2>3, <3>1, <3>2 DEF RequestInv
  <2>4. OneTracer
    BY <2>1, <2>3 DEF OneTracer
  <2>5. g.state \in {"IDLE", "STOPPED"} => NobodyLives
    BY <1>1 DEF StatusInv, NobodyLives
  <2>6. g.running => target.traced /\ ~NobodyLives
    <3>1. \A t \in Threads : thread[t].pc \in Published => Live(t)
      BY DEF Live, Published
    <3>2. g.running \in BOOLEAN /\ target.traced \in BOOLEAN
      BY DEF TypeOK
    <3> QED
      BY <1>1, <3>1, <3>2 DEF StatusInv, NobodyLives
  <2>7. \A c \in Controls : control[c].pc = "debug" => NobodyLives
    BY <2>2 DEF RequestInv
  <2> QED
    BY <2>4, <2>5, <2>6, <2>7 DEF StatusTruthful
<1>2. CASE crossed = TRUE
  BY <1>2 DEF OneTracer, StatusTruthful
<1> QED
  BY <1>0, <1>1, <1>2

(* Until two control requests overlap the tracer's bookkeeping is exact,   *)
(* however many connections send them: g_thread is the thread that may be  *)
(* alive, every start and stop knows whether one is, and the published     *)
(* status follows its program counter.                                     *)
THEOREM TracerBookkeeping == Spec => []UncrossedInv
<1>1. Init => UncrossedInv
  BY InitTracerInv DEF UncrossedInv, TracerInv
<1>2. UncrossedInv /\ [Next]_vars => UncrossedInv'
  BY NextUncrossed
<1> QED
  BY <1>1, <1>2, PTL DEF Spec

(* memdbg_tracer_daemon_start never has two tracer threads alive, and no   *)
(* start and no stop joins a handle twice, until two requests overlap.     *)
THEOREM TracerIsAlone == Spec => []OneTracer
<1>1. UncrossedInv => OneTracer
  BY UncrossedImplies
<1> QED
  BY <1>1, TracerBookkeeping, PTL

(* TRACER_STATUS tells the truth about the tracer thread, and DEBUG_ATTACH *)
(* finds none that could still attach, until two requests overlap.         *)
THEOREM StatusIsTruthful == Spec => []StatusTruthful
<1>1. UncrossedInv => StatusTruthful
  BY UncrossedImplies
<1> QED
  BY <1>1, TracerBookkeeping, PTL

-----------------------------------------------------------------------------
(***************************************************************************)
(* The ring.  As long as no reader was overtaken, its newest slots hold    *)
(* the newest events, the tail is behind the event last delivered, and a   *)
(* poll has copied a run of events that starts at its tail.                *)
(***************************************************************************)

(* The tracer has filled the slot at the head and not yet published it. *)
Filling == \E t \in Threads : thread[t].pc = "push head"

(* The tracer has published a slot and not yet looked at the tail. *)
Settling == \E t \in Threads : thread[t].pc = "push tail"

Newest ==
  /\ Filling => ring[head % RingSize] = pushed
  /\ \A j \in 1..RingSize :
       j <= Backlog /\ (Filling => j < RingSize)
         => ring[(head - j) % RingSize] = pushed - j

Fits == Backlog <= RingSize \/ (Settling /\ Backlog = RingSize + 1)

Delivered == last # None => last = pushed - Backlog - 1

Copying(p) ==
  /\ poller[p].t = tail
  /\ Backlog <= RingSize /\ (Filling => Backlog < RingSize)
  /\ poller[p].pc = "copy" => poller[p].n <= Backlog
  /\ \A i \in 1..Len(poller[p].out) : poller[p].out[i] = pushed - Backlog + i - 1

RingInv ==
  /\ \A t \in Threads : thread[t].pc = "push head" => thread[t].h = head
  /\ raced = FALSE =>
       /\ Newest /\ Fits /\ Delivered
       /\ \A p \in Pollers : poller[p].pc # "idle" => Copying(p)

OnePoller == \A p, q \in Pollers : p = q

(* Indices that wrap around. *)
LEMMA Wrapped ==
  ASSUME NEW x \in Int
  PROVE  /\ x >= 0 /\ x < IndexMod => x % IndexMod = x
         /\ x >= IndexMod /\ x < IndexMod + IndexMod => x % IndexMod = x - IndexMod
         /\ x < 0 /\ x >= -IndexMod => x % IndexMod = x + IndexMod
<1> USE Sizes
<1>1. ASSUME x >= 0 /\ x < IndexMod PROVE x % IndexMod = x
  <2>1. x \in 0..IndexMod - 1 /\ IndexMod * 0 + x = x
    BY <1>1
  <2>2. (IndexMod * 0 + x) % IndexMod = x
    BY <2>1, ModUnique
  <2> QED
    BY <2>1, <2>2
<1>2. ASSUME x >= IndexMod /\ x < IndexMod + IndexMod
      PROVE  x % IndexMod = x - IndexMod
  <2>1. PICK r \in 0..IndexMod - 1 : r = x - IndexMod
    BY <1>2
  <2>2. IndexMod * 1 + r = x
    BY <2>1
  <2>3. (IndexMod * 1 + r) % IndexMod = r
    BY ModUnique
  <2> QED
    BY <2>1, <2>2, <2>3
<1>3. ASSUME x < 0 /\ x >= -IndexMod
      PROVE  x % IndexMod = x + IndexMod
  <2>1. PICK r \in 0..IndexMod - 1 : r = x + IndexMod
    BY <1>3
  <2>2. IndexMod * (-1) + r = x
    BY <2>1
  <2>3. (IndexMod * (-1) + r) % IndexMod = r
    BY ModUnique
  <2> QED
    BY <2>1, <2>2, <2>3
<1> QED
  BY <1>1, <1>2, <1>3

LEMMA Distance ==
  ASSUME NEW x \in 0..IndexMod - 1, NEW y \in 0..IndexMod - 1
  PROVE  /\ (x - y) % IndexMod = IF x >= y THEN x - y ELSE x - y + IndexMod
         /\ (x - y) % IndexMod \in 0..IndexMod - 1
<1> PICK d \in Int : d = x - y
  BY Sizes
<1>1. /\ d >= 0 /\ d < IndexMod => d % IndexMod = d
      /\ d < 0 /\ d >= -IndexMod => d % IndexMod = d + IndexMod
  BY Wrapped
<1> QED
  BY <1>1, Sizes

(* The size of the ring divides 2^32: a wrapped index is the same slot. *)
LEMMA SameSlot ==
  ASSUME NEW x \in Int
  PROVE  (x + IndexMod) % RingSize = x % RingSize
<1> USE Sizes
<1>1. PICK c \in Int : IndexMod = RingSize * c
  <2>1. IndexMod = RingSize * (IndexMod \div RingSize) + (IndexMod % RingSize)
        /\ IndexMod \div RingSize \in Int
    BY DivMod
  <2>2. IndexMod % RingSize = 0
    BY TracerAssumption
  <2>3. PICK c : c = IndexMod \div RingSize
    OBVIOUS
  <2>4. c \in Int /\ IndexMod = RingSize * c + 0
    BY ONLY <2>1, <2>2, <2>3
  <2> QED
    BY <2>4
<1>2. PICK q \in Int, r \in 0..RingSize - 1 : x = RingSize * q + r /\ x % RingSize = r
  BY DivMod
<1>3. PICK s \in Int : s = q + c
  OBVIOUS
<1>4. RingSize * s = RingSize * q + RingSize * c
  BY <1>3
<1>5. x + IndexMod = RingSize * s + r
  BY <1>1, <1>2, <1>4
<1>6. (RingSize * s + r) % RingSize = r
  BY ModUnique
<1> QED
  BY <1>2, <1>5, <1>6

LEMMA OtherSlot ==
  ASSUME NEW x \in Int, NEW j \in 1..RingSize - 1
  PROVE  (x - j) % RingSize # x % RingSize
<1> USE Sizes
<1>1. PICK q \in Int : x = RingSize * q + (x % RingSize)
  BY DivMod
<1>2. PICK y \in Int : y = x - j
  OBVIOUS
<1>3. PICK p \in Int : y = RingSize * p + (y % RingSize)
  BY DivMod
<1>4. PICK d \in Int : d = q - p
  OBVIOUS
<1>5. RingSize * d = RingSize * q - RingSize * p
  BY <1>4
<1>6. x % RingSize \in Int /\ y % RingSize \in Int
  BY Indices
<1>7. ASSUME y % RingSize = x % RingSize PROVE FALSE
  <2>1. RingSize * d = j
    BY <1>1, <1>2, <1>3, <1>5, <1>6, <1>7
  <2> QED
    BY <2>1, Multiples
<1> QED
  BY <1>2, <1>7

-----------------------------------------------------------------------------
(* Steps that do not touch the ring. *)
LEMMA RingFrame ==
  ASSUME RingInv, UNCHANGED <<ring, head, tail, poller, pushed, last, raced>>,
         \A u \in Threads : \/ thread'[u] = thread[u]
                            \/ /\ thread[u].pc \notin {"push head", "push tail"}
                               /\ thread'[u].pc \notin {"push head", "push tail"}
  PROVE  RingInv'
<1>1. (Filling' <=> Filling) /\ (Settling' <=> Settling)
  BY DEF Filling, Settling
<1>2. Backlog' = Backlog
  BY DEF Backlog
<1>3. \A t \in Threads : thread'[t].pc = "push head" => thread'[t].h = head'
  BY DEF RingInv
<1>4. ASSUME raced' = FALSE
      PROVE  /\ Newest' /\ Fits' /\ Delivered'
             /\ \A p \in Pollers : poller'[p].pc # "idle" => Copying(p)'
  <2>1. Newest /\ Fits /\ Delivered
    BY <1>4 DEF RingInv
  <2>2. Newest'
    BY <2>1, <1>1, <1>2 DEF Newest
  <2>3. Fits' /\ Delivered'
    BY <2>1, <1>1, <1>2 DEF Fits, Delivered
  <2>4. ASSUME NEW p \in Pollers, poller'[p].pc # "idle" PROVE Copying(p)'
    <3>1. Copying(p)
      BY <1>4, <2>4 DEF RingInv
    <3> QED
      BY <3>1, <1>1, <1>2 DEF Copying
  <2> QED
    BY <2>2, <2>3, <2>4
<1> QED
  BY <1>3, <1>4 DEF RingInv

(* The thread that pushes is the only one that does. *)
LEMMA OnlyProducer ==
  ASSUME TracerInv, NEW t \in Threads,
         thread[t].pc \in {"push write", "push head", "push tail"}
  PROVE  /\ \A u \in Threads : u # t => thread[u].pc \in {"none", "exited"}
         /\ Filling <=> thread[t].pc = "push head"
         /\ Settling <=> thread[t].pc = "push tail"
<1>1. Live(t)
  BY DEF Live
<1>2. \A u \in Threads : u # t => thread[u].pc \in {"none", "exited"}
  BY <1>1 DEF TracerInv, HandleInv, Live
<1> QED
  BY <1>2 DEF Filling, Settling

LEMMA PushWriteRing ==
  ASSUME TracerInv, RingInv, NEW t \in Threads, PushWrite(t)
  PROVE  RingInv'
<1>0. TypeOK /\ thread[t] \in ThreadRecord
  BY DEF TracerInv, TypeOK
<1>1. /\ \A u \in Threads : u # t => thread[u].pc \in {"none", "exited"}
      /\ ~Filling /\ ~Settling
  BY OnlyProducer DEF PushWrite
<1>2. thread'[t].pc = "push head" /\ thread'[t].h = head
      /\ \A u \in Threads : u # t => thread'[u] = thread[u]
  BY <1>0 DEF PushWrite, ThreadRecord, TypeOK
<1>3. Filling' /\ ~Settling'
  BY <1>1, <1>2 DEF Filling, Settling
<1>4. UNCHANGED <<head, tail, pushed, last, poller>> /\ Backlog' = Backlog
  BY DEF PushWrite, Backlog
<1>5. \A u \in Threads : thread'[u].pc = "push head" => thread'[u].h = head'
  BY <1>1, <1>2, <1>4
<1>6. ASSUME raced' = FALSE
      PROVE  /\ Newest' /\ Fits' /\ Delivered'
             /\ \A p \in Pollers : poller'[p].pc # "idle" => Copying(p)'
  <2>1. raced = FALSE /\ ~(Reading /\ Backlog >= RingSize)
    BY <1>0, <1>6 DEF PushWrite, TypeOK
  <2>2. Newest /\ Fits /\ Delivered
    BY <2>1 DEF RingInv
  <2>3. Newest'
    <3>0. head \in Int
      BY <1>0, Sizes DEF TypeOK
    <3>1. head \in Int /\ head % RingSize \in 0..RingSize - 1
      BY <3>0, Indices
    <3>2. ring' = [ring EXCEPT ![head % RingSize] = pushed]
          /\ ring \in [0..RingSize - 1 -> Nat]
      BY <1>0 DEF PushWrite, TypeOK
    <3>3. ring'[head % RingSize] = pushed
      BY <3>1, <3>2
    <3>4. ASSUME NEW j \in 1..RingSize, j <= Backlog, j < RingSize
          PROVE  ring'[(head - j) % RingSize] = pushed - j
      <4>1. ring[(head - j) % RingSize] = pushed - j
        BY <2>2, <3>4, <1>1 DEF Newest
      <4>2. (head - j) % RingSize # head % RingSize
        <5>1. j \in 1..RingSize - 1
          BY <3>4, Sizes
        <5> QED
          BY <5>1, <3>0, OtherSlot
      <4>3. PICK x \in Int : x = head - j
        BY <3>1
      <4>4. x % RingSize \in 0..RingSize - 1
        BY Indices
      <4> QED
        BY <4>1, <4>2, <4>3, <4>4, <3>2
    <3> QED
      BY <3>3, <3>4, <1>3, <1>4 DEF Newest
  <2>4. Fits' /\ Delivered'
    BY <2>2, <1>1, <1>4 DEF Fits, Delivered
  <2>5. ASSUME NEW p \in Pollers, poller'[p].pc # "idle" PROVE Copying(p)'
    <3>1. Copying(p) /\ Reading
      BY <2>1, <2>5, <1>4 DEF RingInv, Reading
    <3>2. Backlog \in Int
      BY <1>0, Distance DEF TypeOK, Backlog
    <3>3. Backlog < RingSize
      BY <3>1, <3>2, <2>1, Sizes
    <3> QED
      BY <3>1, <3>3, <1>4 DEF Copying
  <2> QED
    BY <2>3, <2>4, <2>5
<1> QED
  BY <1>5, <1>6 DEF RingInv

LEMMA PushHeadRing ==
  ASSUME TracerInv, RingInv, NEW t \in Threads, PushHead(t)
  PROVE  RingInv'
<1>0. TypeOK /\ thread[t] \in ThreadRecord /\ head \in 0..IndexMod - 1
      /\ tail \in 0..IndexMod - 1 /\ pushed \in Nat
  BY DEF TracerInv, TypeOK
<1>1. /\ \A u \in Threads : u # t => thread[u].pc \in {"none", "exited"}
      /\ Filling /\ ~Settling
  BY OnlyProducer DEF PushHead
<1>2. thread'[t].pc = "push tail"
      /\ \A u \in Threads : u # t => thread'[u] = thread[u]
  BY <1>0 DEF PushHead, ThreadRecord, TypeOK
<1>3. ~Filling' /\ Settling'
  BY <1>1, <1>2 DEF Filling, Settling
<1>4. UNCHANGED <<ring, tail, last, poller, raced>> /\ pushed' = pushed + 1
      /\ head' = (head + 1) % IndexMod
  BY DEF PushHead, RingInv
<1>5. \A u \in Threads : thread'[u].pc # "push head"
  BY <1>1, <1>2
<1>6. head' \in 0..IndexMod - 1 /\ (head' = head + 1 \/ head' = head + 1 - IndexMod)
  <2>1. PICK x \in Int : x = head + 1
    BY <1>0
  <2>2. x >= 0 /\ (x < IndexMod \/ (x >= IndexMod /\ x < IndexMod + IndexMod))
    BY <2>1, <1>0, Sizes
  <2>3. x % IndexMod \in 0..IndexMod - 1
    BY Indices
  <2>4. x % IndexMod = x \/ x % IndexMod = x - IndexMod
    BY <2>2, Wrapped
  <2>5. head' = x % IndexMod
    BY <2>1, <1>4
  <2>6. head' \in 0..IndexMod - 1
    BY ONLY <2>3, <2>5
  <2>7. head' = x \/ head' = x - IndexMod
    BY ONLY <2>4, <2>5
  <2> QED
    BY <2>1, <2>6, <2>7, <1>0, Sizes
<1>7. ASSUME raced' = FALSE
      PROVE  /\ Newest' /\ Fits' /\ Delivered'
             /\ \A p \in Pollers : poller'[p].pc # "idle" => Copying(p)'
  <2>1. Newest /\ Fits /\ Delivered
    BY <1>4, <1>7 DEF RingInv
  <2>2. Backlog \in 0..RingSize
    BY <2>1, <1>0, <1>1, Distance, Sizes DEF Fits, Backlog
  <2>3. Backlog' = Backlog + 1
    <3>1. Backlog = IF head >= tail THEN head - tail ELSE head - tail + IndexMod
      BY <1>0, Distance DEF Backlog
    <3>2. Backlog' = IF head' >= tail THEN head' - tail ELSE head' - tail + IndexMod
      BY <1>0, <1>4, <1>6, Distance DEF Backlog
    <3>3. PICK b, k, h : b = Backlog /\ k = Backlog' /\ h = head'
      OBVIOUS
    <3>4. /\ b = IF head >= tail THEN head - tail ELSE head - tail + IndexMod
          /\ k = IF h >= tail THEN h - tail ELSE h - tail + IndexMod
          /\ b \in 0..RingSize /\ h \in 0..IndexMod - 1
          /\ h = head + 1 \/ h = head + 1 - IndexMod
      BY <3>1, <3>2, <3>3, <2>2, <1>6
    <3>5. head \in 0..IndexMod - 1 /\ tail \in 0..IndexMod - 1
      BY <1>0
    <3>6. k = b + 1
      BY ONLY <3>4, <3>5, Sizes
    <3> QED
      BY <3>3, <3>6
  <2>4. Newest'
    <3> SUFFICES ASSUME NEW j \in 1..RingSize, j <= Backlog'
                 PROVE  ring'[(head' - j) % RingSize] = pushed' - j
      BY <1>3 DEF Newest
    <3>1. PICK i \in 0..RingSize - 1 : i = j - 1
      BY Sizes
    <3>2. PICK x \in Int : x = head - i
      BY <1>0
    <3>3. (head' - j) % RingSize = x % RingSize
      <4>1. PICK h, y : h = head' /\ y = h - j
        OBVIOUS
      <4>2. h \in Int /\ head \in Int /\ IndexMod \in Int
            /\ (h = head + 1 \/ h = head + 1 - IndexMod)
        BY <4>1, <1>0, <1>6, Sizes
      <4>3. j \in Int /\ i \in Int /\ i = j - 1 /\ x = head - i /\ y = h - j
        BY <4>1, <3>1, <3>2, Sizes
      <4>4. y \in Int /\ (y = x \/ x = y + IndexMod)
        BY ONLY <4>2, <4>3
      <4> QED
        BY <4>1, <4>4, SameSlot
    <3>4. ring[x % RingSize] = pushed - i
      <4>1. CASE i = 0
        BY <4>1, <3>2, <2>1, <1>0, <1>1 DEF Newest
      <4>2. CASE i # 0
        <5>1. i \in 1..RingSize /\ i < RingSize /\ i <= Backlog
          BY <4>2, <3>1, <2>2, <2>3, Sizes
        <5> QED
          BY <5>1, <2>1, <3>2 DEF Newest
      <4> QED
        BY <4>1, <4>2
    <3> QED
      BY <3>1, <3>3, <3>4, <1>0, <1>4
  <2>5. Fits'
    BY <2>2, <2>3, <1>3, Sizes DEF Fits
  <2>6. Delivered'
    BY <2>1, <2>2, <2>3, <1>0, <1>4 DEF Delivered
  <2>7. ASSUME NEW p \in Pollers, poller'[p].pc # "idle" PROVE Copying(p)'
    <3>1. Copying(p) /\ Backlog < RingSize
      BY <1>1, <1>7, <1>4, <2>7 DEF RingInv, Copying
    <3>2. poller[p].n \in Nat
      BY <1>0 DEF TypeOK, PollerRecord
    <3>3. pushed' - Backlog' = pushed - Backlog
      BY <2>2, <2>3, <1>4, <1>0
    <3> QED
      BY <3>1, <3>2, <3>3, <2>2, <2>3, <1>3, <1>4, Sizes DEF Copying
  <2> QED
    BY <2>4, <2>5, <2>6, <2>7
<1> QED
  BY <1>5, <1>7 DEF RingInv

LEMMA PushTailRing ==
  ASSUME TracerInv, RingInv, NEW t \in Threads, PushTail(t)
  PROVE  RingInv'
<1>0. TypeOK /\ head \in 0..IndexMod - 1 /\ tail \in 0..IndexMod - 1 /\ pushed \in Nat
  BY DEF TracerInv, TypeOK
<1>1. /\ \A u \in Threads : u # t => thread[u].pc \in {"none", "exited"}
      /\ ~Filling /\ Settling
  BY OnlyProducer DEF PushTail
<1>2. thread'[t].pc \in {"crashed", "resume"}
      /\ \A u \in Threads : u # t => thread'[u] = thread[u]
  BY <1>0, ThreadMoves DEF PushTail
<1>3. ~Filling' /\ ~Settling' /\ \A u \in Threads : thread'[u].pc # "push head"
  BY <1>1, <1>2 DEF Filling, Settling
<1>4. UNCHANGED <<ring, head, pushed, poller, raced>>
  BY DEF PushTail
<1>5. ASSUME raced' = FALSE
      PROVE  /\ Newest' /\ Fits' /\ Delivered'
             /\ \A p \in Pollers : poller'[p].pc # "idle" => Copying(p)'
  <2>1. /\ Newest /\ Fits /\ Delivered
        /\ \A p \in Pollers : poller[p].pc # "idle" => Copying(p)
    BY <1>4, <1>5 DEF RingInv
  <2>2. Backlog \in Int
    BY <1>0, Distance, Sizes DEF Backlog
  <2>3. CASE Backlog <= RingSize
    <3>1. tail' = tail /\ last' = last /\ Backlog' = Backlog
      <4>1. ~(Backlog > RingSize)
        BY <2>2, <2>3, Sizes
      <4>2. tail' = tail
        BY <4>1 DEF PushTail
      <4>3. last' = last
        BY <4>2 DEF PushTail
      <4> QED
        BY <4>2, <4>3, <1>4 DEF Backlog
    <3>2. Newest'
      BY <3>1, <2>1, <1>1, <1>3, <1>4 DEF Newest
    <3>3. Fits' /\ Delivered'
      BY <3>1, <2>1, <2>3, <1>4 DEF Fits, Delivered
    <3>4. \A p \in Pollers : poller'[p].pc # "idle" => Copying(p)'
      BY <3>1, <2>1, <1>3, <1>4 DEF Copying
    <3> QED
      BY <3>2, <3>3, <3>4
  <2>4. CASE Backlog = RingSize + 1
    <3>1. tail' = (head - RingSize) % IndexMod
      <4>1. Backlog > RingSize
        BY <2>4, Sizes
      <4> QED
        BY <4>1 DEF PushTail
    <3>2. PICK x \in Int : x = head - RingSize
      BY <1>0, Sizes
    <3>3. x % IndexMod = IF x >= 0 THEN x ELSE x + IndexMod
      BY <3>2, <1>0, Wrapped, Sizes
    <3>4. PICK k : k = tail'
      OBVIOUS
    <3>5. k = IF x >= 0 THEN x ELSE x + IndexMod
      BY <3>1, <3>2, <3>3, <3>4
    <3>6. k \in 0..IndexMod - 1
      BY <3>5, <3>2, <1>0, Sizes
    <3>7. Backlog' = RingSize
      <4>1. (head - k) % IndexMod = IF head >= k THEN head - k ELSE head - k + IndexMod
        BY <3>6, <1>0, Distance
      <4>2. Backlog' = (head - k) % IndexMod
        BY <3>4, <1>4 DEF Backlog
      <4> QED
        BY <4>1, <4>2, <3>5, <3>6, <3>2, <1>0, Sizes
    <3>8. tail' # tail
      <4>1. RingSize # RingSize + 1
        BY Sizes
      <4>2. Backlog' # Backlog
        BY <4>1, <3>7, <2>4
      <4> QED
        BY <4>2, <1>4 DEF Backlog
    <3>9. last' = None
      BY <3>8 DEF PushTail
    <3>10. Newest'
      <4> SUFFICES ASSUME NEW j \in 1..RingSize
                   PROVE  ring'[(head' - j) % RingSize] = pushed' - j
        BY <1>3 DEF Newest
      <4>1. j <= Backlog
        BY <2>4, Sizes
      <4>2. ring[(head - j) % RingSize] = pushed - j
        BY <4>1, <2>1, <1>1 DEF Newest
      <4> QED
        BY <4>2, <1>4
    <3>11. Fits' /\ Delivered'
      BY <3>7, <3>9, Sizes DEF Fits, Delivered
    <3>12. \A p \in Pollers : poller'[p].pc = "idle"
      BY <2>1, <2>4, <1>4, Sizes DEF Copying
    <3> QED
      BY <3>10, <3>11, <3>12
  <2> QED
    BY <2>1, <2>3, <2>4 DEF Fits
<1> QED
  BY <1>3, <1>5 DEF RingInv

LEMMA ResetRing ==
  ASSUME TracerInv, RingInv, NEW c \in Controls, StartReset(c)
  PROVE  RingInv'
<1>1. NobodyLives
  BY DEF TracerInv, ControlInv, Serial, RequestInv, StartReset
<1>2. UNCHANGED <<thread, poller>> /\ head' = 0 /\ tail' = 0 /\ last' = None
      /\ raced' = Reading
  BY DEF StartReset
<1>3. \A u \in Threads : thread'[u].pc \notin {"push head", "push tail"}
  BY <1>1, <1>2 DEF NobodyLives, Live
<1>4. ~Filling' /\ ~Settling'
  BY <1>3 DEF Filling, Settling
<1>5. Backlog' = 0
  <2>1. 0 \in 0..IndexMod - 1 /\ 0 - 0 = 0
    BY Sizes
  <2>2. (0 - 0) % IndexMod = 0
    BY <2>1, Distance
  <2> QED
    BY <2>2, <1>2 DEF Backlog
<1>6. ASSUME raced' = FALSE
      PROVE  \A p \in Pollers : poller'[p].pc = "idle"
  BY <1>2, <1>6 DEF Reading
<1>7. Newest' /\ Fits' /\ Delivered'
  BY <1>2, <1>4, <1>5, Sizes DEF Newest, Fits, Delivered
<1> QED
  BY <1>3, <1>6, <1>7 DEF RingInv

LEMMA PopTailRing ==
  ASSUME OnePoller, TracerInv, RingInv, NEW p \in Pollers, PopTail(p)
  PROVE  RingInv'
<1>0. TypeOK /\ head \in 0..IndexMod - 1 /\ tail \in 0..IndexMod - 1
  BY DEF TracerInv, TypeOK
<1>1. UNCHANGED <<thread, ring, head, tail, pushed, last>>
  BY DEF PopTail
<1>2. (Filling' <=> Filling) /\ (Settling' <=> Settling) /\ Backlog' = Backlog
  BY <1>1 DEF Filling, Settling, Backlog
<1>3. poller'[p].t = tail /\ poller'[p].pc = "head" /\ poller'[p].out = <<>>
  BY <1>0 DEF PopTail, TypeOK
<1>4. Backlog \in Int
  BY <1>0, Distance, Sizes DEF Backlog
<1>5. ASSUME raced' = FALSE
      PROVE  /\ Newest' /\ Fits' /\ Delivered' /\ Copying(p)'
  <2>1. raced = FALSE /\ ~(Filling /\ Backlog >= RingSize)
        /\ ~(Settling /\ Backlog > RingSize)
    BY <1>0, <1>5 DEF PopTail, TypeOK, Filling, Settling
  <2>2. Newest /\ Fits /\ Delivered
    BY <2>1 DEF RingInv
  <2>3. Backlog <= RingSize /\ (Filling => Backlog < RingSize)
    BY <2>1, <2>2, <1>4, Sizes DEF Fits
  <2>4. Copying(p)'
    BY <2>3, <1>1, <1>2, <1>3 DEF Copying
  <2>5. Newest'
    BY <2>2, <1>1, <1>2 DEF Newest
  <2>6. Fits' /\ Delivered'
    BY <2>2, <1>1, <1>2 DEF Fits, Delivered
  <2> QED
    BY <2>4, <2>5, <2>6
<1>6. \A t \in Threads : thread'[t].pc = "push head" => thread'[t].h = head'
  BY <1>1 DEF RingInv
<1> QED
  BY <1>5, <1>6 DEF RingInv, OnePoller

LEMMA PopHeadRing ==
  ASSUME OnePoller, TracerInv, RingInv, NEW p \in Pollers, PopHead(p)
  PROVE  RingInv'
<1>0. TypeOK /\ poller[p] \in PollerRecord /\ head \in 0..IndexMod - 1
      /\ tail \in 0..IndexMod - 1
  BY DEF TracerInv, TypeOK
<1>1. UNCHANGED <<thread, ring, head, tail, pushed, last, raced>>
  BY DEF PopHead, ring_vars
<1>2. (Filling' <=> Filling) /\ (Settling' <=> Settling) /\ Backlog' = Backlog
  BY <1>1 DEF Filling, Settling, Backlog
<1>3. PICK n : n = IF (head - poller[p].t) % IndexMod < PollMax
                   THEN (head - poller[p].t) % IndexMod ELSE PollMax
  OBVIOUS
<1>4. poller'[p] = IF n = 0 THEN IdlePoller ELSE [poller[p] EXCEPT !.pc = "copy", !.n = n]
  BY <1>0, <1>3 DEF PopHead, TypeOK
<1>5. ASSUME raced' = FALSE
      PROVE  /\ Newest' /\ Fits' /\ Delivered'
             /\ poller'[p].pc # "idle" => Copying(p)'
  <2>1. Newest /\ Fits /\ Delivered /\ Copying(p)
    BY <1>1, <1>5 DEF RingInv, PopHead
  <2>2. Newest'
    BY <2>1, <1>1, <1>2 DEF Newest
  <2>3. Fits' /\ Delivered'
    BY <2>1, <1>1, <1>2 DEF Fits, Delivered
  <2>4. ASSUME poller'[p].pc # "idle" PROVE Copying(p)'
    <3>1. n # 0
      BY <2>4, <1>4 DEF IdlePoller
    <3>2. /\ poller'[p].t = poller[p].t /\ poller'[p].pc = "copy" /\ poller'[p].n = n
          /\ poller'[p].out = poller[p].out
      BY <3>1, <1>0, <1>4 DEF PollerRecord
    <3>3. n = IF Backlog < PollMax THEN Backlog ELSE PollMax
      BY <2>1, <1>3 DEF Copying, Backlog
    <3>4. Backlog \in Int
      BY <1>0, Distance, Sizes DEF Backlog
    <3>5. n <= Backlog
      BY <3>3, <3>4, Sizes
    <3> QED
      BY <3>2, <3>5, <2>1, <1>1, <1>2 DEF Copying
  <2> QED
    BY <2>2, <2>3, <2>4
<1>6. \A t \in Threads : thread'[t].pc = "push head" => thread'[t].h = head'
  BY <1>1 DEF RingInv
<1> QED
  BY <1>5, <1>6 DEF RingInv, OnePoller

LEMMA PopCopyRing ==
  ASSUME OnePoller, TracerInv, RingInv, NEW p \in Pollers, PopCopy(p)
  PROVE  RingInv'
<1>0. TypeOK /\ poller[p] \in PollerRecord /\ head \in 0..IndexMod - 1
      /\ tail \in 0..IndexMod - 1 /\ pushed \in Nat
  BY DEF TracerInv, TypeOK
<1>1. UNCHANGED <<thread, ring, head, tail, pushed, last, raced>>
  BY DEF PopCopy, ring_vars
<1>2. (Filling' <=> Filling) /\ (Settling' <=> Settling) /\ Backlog' = Backlog
  BY <1>1 DEF Filling, Settling, Backlog
<1>3. PICK out, k, n : out = poller[p].out /\ k = Len(poller[p].out) /\ n = poller[p].n
  OBVIOUS
<1>4. out \in Seq(Nat) /\ k \in Nat /\ k = Len(out) /\ n \in Nat /\ k < n
      /\ poller[p].pc = "copy"
  BY <1>0, <1>3 DEF PollerRecord, PopCopy
<1>5. PICK e : e = ring[(poller[p].t + k) % RingSize]
  OBVIOUS
<1>6. poller'[p] = [poller[p] EXCEPT !.out = Append(@, e)]
  BY <1>0, <1>3, <1>5 DEF PopCopy, TypeOK
<1>7. /\ poller'[p].t = poller[p].t /\ poller'[p].pc = "copy" /\ poller'[p].n = n
      /\ poller'[p].out = Append(out, e)
  BY <1>0, <1>3, <1>4, <1>6 DEF PollerRecord
<1>8. ASSUME raced' = FALSE
      PROVE  Newest' /\ Fits' /\ Delivered' /\ Copying(p)'
  <2>1. Newest /\ Fits /\ Delivered /\ Copying(p)
    BY <1>1, <1>4, <1>8 DEF RingInv
  <2>2. Newest'
    BY <2>1, <1>1, <1>2 DEF Newest
  <2>3. Fits' /\ Delivered'
    BY <2>1, <1>1, <1>2 DEF Fits, Delivered
  <2>4. /\ Backlog = IF head >= tail THEN head - tail ELSE head - tail + IndexMod
        /\ Backlog \in Int
    BY <1>0, Distance, Sizes DEF Backlog
  <2>5. n <= Backlog /\ Backlog <= RingSize /\ (Filling => Backlog < RingSize)
        /\ poller[p].t = tail
    BY <2>1, <1>3, <1>4 DEF Copying
  <2>6. PICK j : j = Backlog - k
    OBVIOUS
  <2>7. j \in 1..RingSize /\ j <= Backlog /\ (Filling => j < RingSize) /\ j \in Int
    BY <2>4, <2>5, <2>6, <1>4, Sizes
  <2>8. ring[(head - j) % RingSize] = pushed - j
    BY <2>1, <2>7 DEF Newest
  <2>9. PICK x, y : x = tail + k /\ y = head - j
    OBVIOUS
  <2>10. x \in Int /\ y \in Int /\ (y = x \/ x = y + IndexMod)
    <3>1. PICK b : b = Backlog
      OBVIOUS
    <3>2. b = (IF head >= tail THEN head - tail ELSE head - tail + IndexMod) /\ j = b - k
      BY <3>1, <2>4, <2>6
    <3>3. head \in Int /\ tail \in Int /\ IndexMod \in Int /\ k \in Int
      BY <1>0, <1>4, Sizes
    <3> QED
      BY ONLY <3>2, <3>3, <2>9
  <2>11. x % RingSize = y % RingSize
    BY <2>10, SameSlot
  <2>12. e = pushed - Backlog + k
    <3>1. e = ring[x % RingSize]
      BY <1>5, <2>5, <2>9
    <3>2. e = pushed - j
      BY <3>1, <2>8, <2>9, <2>11
    <3> QED
      BY <3>2, <2>6, <2>4, <1>0, <1>4
  <2>13. ASSUME NEW i \in 1..Len(Append(out, e))
         PROVE  Append(out, e)[i] = pushed - Backlog + i - 1
    <3>1. Len(Append(out, e)) = k + 1
      BY <1>4
    <3>2. CASE i = k + 1
      BY <3>2, <2>12, <2>4, <1>0, <1>4
    <3>3. CASE i # k + 1
      <4>1. i \in 1..Len(out)
        BY <3>1, <3>3, <1>4
      <4>2. out[i] = pushed - Backlog + i - 1
        BY <4>1, <2>1, <1>3 DEF Copying
      <4> QED
        BY <4>1, <4>2, <1>4
    <3> QED
      BY <3>2, <3>3
  <2>14. Copying(p)'
    BY <2>5, <2>13, <1>1, <1>2, <1>7 DEF Copying
  <2> QED
    BY <2>2, <2>3, <2>14
<1>9. \A t \in Threads : thread'[t].pc = "push head" => thread'[t].h = head'
  BY <1>1 DEF RingInv
<1> QED
  BY <1>8, <1>9 DEF RingInv, OnePoller

LEMMA PopStoreRing ==
  ASSUME OnePoller, TracerInv, RingInv, NEW p \in Pollers, PopStore(p)
  PROVE  RingInv'
<1>0. TypeOK /\ poller[p] \in PollerRecord /\ head \in 0..IndexMod - 1
      /\ tail \in 0..IndexMod - 1 /\ pushed \in Nat
  BY DEF TracerInv, TypeOK
<1>1. UNCHANGED <<thread, ring, head, pushed, raced>> /\ poller'[p].pc = "idle"
  BY <1>0 DEF PopStore, IdlePoller, TypeOK
<1>2. (Filling' <=> Filling) /\ (Settling' <=> Settling)
  BY <1>1 DEF Filling, Settling
<1>3. PICK n : n = poller[p].n
  OBVIOUS
<1>4. n \in Nat /\ n >= 1 /\ Len(poller[p].out) = n /\ poller[p].pc = "copy"
  BY <1>0, <1>3 DEF PollerRecord, PopStore, TracerInv, PollInv
<1>5. ASSUME raced' = FALSE
      PROVE  Newest' /\ Fits' /\ Delivered'
  <2>1. Newest /\ Fits /\ Delivered /\ Copying(p)
    BY <1>1, <1>4, <1>5 DEF RingInv
  <2>2. n <= Backlog /\ Backlog <= RingSize /\ poller[p].t = tail
    BY <2>1, <1>3, <1>4 DEF Copying
  <2>3. PICK b, k, x : b = Backlog /\ k = tail' /\ x = tail + n
    OBVIOUS
  <2>4. b = (IF head >= tail THEN head - tail ELSE head - tail + IndexMod) /\ b \in Int
    BY <2>3, <1>0, Distance, Sizes DEF Backlog
  <2>5. x \in Int /\ x >= 0 /\ x < IndexMod + IndexMod
    BY <2>2, <2>3, <2>4, <1>0, <1>4, Sizes
  <2>6. x % IndexMod = IF x < IndexMod THEN x ELSE x - IndexMod
    BY <2>5, Wrapped, Sizes
  <2>7. k = x % IndexMod
    BY <2>2, <2>3, <1>3 DEF PopStore
  <2>8. k = (IF x < IndexMod THEN x ELSE x - IndexMod) /\ k \in 0..IndexMod - 1
    BY <2>5, <2>6, <2>7, Sizes
  <2>9. Backlog' = b - n
    <3>1. (head - k) % IndexMod = IF head >= k THEN head - k ELSE head - k + IndexMod
      BY <2>8, <1>0, Distance
    <3>2. Backlog' = (head - k) % IndexMod
      BY <2>3, <1>1 DEF Backlog
    <3>3. PICK y : y = Backlog'
      OBVIOUS
    <3>4. y = (IF head >= k THEN head - k ELSE head - k + IndexMod)
      BY <3>1, <3>2, <3>3
    <3>5. n <= b /\ x = tail + n
      BY <2>2, <2>3
    <3>6. y = b - n
      <4>1. CASE x < IndexMod
        <5>1. k = tail + n
          BY <4>1, <3>5, <2>5, <2>8, <1>0, <1>4, Sizes
        <5> QED
          BY <5>1, <3>4, <3>5, <2>4, <1>0, <1>4, Sizes
      <4>2. CASE ~(x < IndexMod)
        <5>1. k = tail + n - IndexMod
          BY <4>2, <3>5, <2>5, <2>8, <1>0, <1>4, Sizes
        <5>2. n \in Nat /\ head \in Int /\ tail \in Int /\ head < IndexMod
              /\ IndexMod \in Int
          BY <1>0, <1>4, Sizes
        <5>3. ~(head >= tail)
          BY <5>2, <4>2, <3>5, <2>4
        <5>4. b = head - tail + IndexMod
          BY <5>3, <2>4
        <5>5. head >= k
          BY <5>1, <5>2, <5>4, <3>5
        <5>6. y = head - k
          BY <5>5, <3>4
        <5> QED
          BY <5>1, <5>2, <5>4, <5>6
      <4> QED
        BY <4>1, <4>2
    <3> QED
      BY <3>3, <3>6
  <2>10. Newest'
    <3>1. Filling' => ring'[head' % RingSize] = pushed'
      BY <2>1, <1>1, <1>2 DEF Newest
    <3>2. ASSUME NEW j \in 1..RingSize, j <= Backlog', Filling' => j < RingSize
          PROVE  ring'[(head' - j) % RingSize] = pushed' - j
      <4>1. j <= Backlog
        BY <3>2, <2>9, <2>3, <2>4, <1>4, Sizes
      <4>2. ring[(head - j) % RingSize] = pushed - j
        BY <4>1, <3>2, <2>1, <1>2 DEF Newest
      <4> QED
        BY <4>2, <1>1
    <3> QED
      BY <3>1, <3>2 DEF Newest
  <2>11. Fits'
    BY <2>9, <2>2, <2>3, <2>4, <1>4, Sizes DEF Fits
  <2>12. Delivered'
    <3>1. last' = poller[p].out[n]
      BY <1>3 DEF PopStore
    <3>2. poller[p].out[n] = pushed - Backlog + n - 1
      BY <2>1, <1>4 DEF Copying
    <3>3. last' = pushed - Backlog' - 1
      <4>1. last' = pushed - b + n - 1 /\ Backlog' = b - n
        BY <3>1, <3>2, <2>9, <2>3
      <4>2. pushed \in Int /\ b \in Int /\ n \in Int
        BY <2>4, <1>0, <1>4
      <4>3. pushed - b + n - 1 = pushed - (b - n) - 1
        BY ONLY <4>2
      <4> QED
        BY ONLY <4>1, <4>3
    <3> QED
      BY <3>3, <1>1 DEF Delivered
  <2> QED
    BY <2>10, <2>11, <2>12
<1>6. \A t \in Threads : thread'[t].pc = "push head" => thread'[t].h = head'
  BY <1>1 DEF RingInv
<1>7. \A q \in Pollers : poller'[q].pc = "idle"
  BY <1>1 DEF OnePoller
<1> QED
  BY <1>5, <1>6, <1>7 DEF RingInv

-----------------------------------------------------------------------------
LEMMA InitRingInv == Init => RingInv
<1> SUFFICES ASSUME Init PROVE RingInv
  OBVIOUS
<1>1. \A t \in Threads : thread[t].pc = "none"
  BY DEF Init
<1>2. ~Filling /\ ~Settling
  BY <1>1 DEF Filling, Settling
<1>3. Backlog = 0
  <2>1. 0 \in 0..IndexMod - 1 /\ 0 - 0 = 0
    BY Sizes
  <2>2. (0 - 0) % IndexMod = 0
    BY <2>1, Distance
  <2> QED
    BY <2>2 DEF Backlog, Init
<1>4. Newest /\ Fits /\ Delivered
  BY <1>2, <1>3, Sizes DEF Newest, Fits, Delivered, Init
<1>5. \A p \in Pollers : poller[p].pc = "idle"
  BY DEF Init, IdlePoller
<1> QED
  BY <1>1, <1>4, <1>5 DEF RingInv

LEMMA NextRingInv ==
  ASSUME OnePoller, TracerInv, RingInv, [Next]_vars
  PROVE  RingInv'
<1>0. TypeOK
  BY DEF TracerInv
<1>1. ASSUME NEW c \in Controls,
             \/ TracerAttach(c) \/ TracerStop(c, FALSE) \/ TracerStop(c, TRUE)
             \/ ControlStep(c)
      PROVE  RingInv'
  <2>1. CASE StartReset(c)
    BY <2>1, ResetRing
  <2>2. CASE StartSpawn(c)
    <3>1. UNCHANGED <<ring, head, tail, poller, pushed, last, raced>>
      BY <2>2 DEF StartSpawn, ring_vars
    <3>2. \A u \in Threads :
            \/ thread'[u] = thread[u]
            \/ /\ thread[u].pc \notin {"push head", "push tail"}
               /\ thread'[u].pc \notin {"push head", "push tail"}
      <4>1. ASSUME NEW t \in Threads, thread[t].pc = "none", ThreadAt(t, "attach")
            PROVE  \A u \in Threads :
                     \/ thread'[u] = thread[u]
                     \/ /\ thread[u].pc \notin {"push head", "push tail"}
                        /\ thread'[u].pc \notin {"push head", "push tail"}
        BY <4>1, <1>0, ThreadMoves
      <4> QED
        BY <2>2, <4>1 DEF StartSpawn, ThreadAt
    <3> QED
      BY <3>1, <3>2, RingFrame
  <2>3. CASE ~StartReset(c) /\ ~StartSpawn(c)
    <3>1. UNCHANGED <<thread, ring, head, tail, poller, pushed, last, raced>>
      BY <1>1, <2>3 DEF TracerAttach, TracerStop, ControlStep, StartCheck, StartReap,
         StartReaped, StartMark, StopKill, StopJoin, StopFinal, DebugAttach, ring_vars
    <3> QED
      BY <3>1, RingFrame
  <2> QED
    BY <2>1, <2>2, <2>3
<1>2. ASSUME NEW t \in Threads, ThreadStep(t) \/ WaitFails(t)
      PROVE  RingInv'
  <2>1. CASE PushWrite(t) \/ PushHead(t) \/ PushTail(t)
    BY <2>1, PushWriteRing, PushHeadRing, PushTailRing
  <2>2. CASE ~PushWrite(t) /\ ~PushHead(t) /\ ~PushTail(t)
    <3>1. UNCHANGED <<ring, head, tail, poller, pushed, last, raced>>
      BY <1>2, <2>2 DEF ThreadStep, WaitFails, Attach, CheckStop, ResumeFirst,
         PublishRunning, Wait, PublishCrash, ResumeTarget, Detach, ThreadDone, ring_vars
    <3>2. thread[t].pc \notin {"push head", "push tail"}
      BY <1>2, <2>2 DEF ThreadStep, WaitFails, Attach, CheckStop, ResumeFirst,
         PublishRunning, Wait, PublishCrash, ResumeTarget, Detach, ThreadDone
    <3>3. \A u \in Threads : u # t => thread'[u] = thread[u]
      BY <1>0, <1>2, <2>2 DEF ThreadStep, WaitFails, Attach, CheckStop, ResumeFirst,
         PublishRunning, Wait, PublishCrash, ResumeTarget, Detach, ThreadDone,
         ThreadAt, TypeOK
    <3>4. thread'[t].pc \notin {"push head", "push tail"}
      <4>1. thread[t] \in ThreadRecord
        BY <1>0 DEF TypeOK
      <4>2. CASE Attach(t) \/ CheckStop(t) \/ ResumeFirst(t) \/ PublishRunning(t)
                 \/ WaitFails(t) \/ Detach(t) \/ ThreadDone(t)
        <5>1. \E pc \in {"attached", "exited", "detach", "resume first", "publish",
                         "wait", "resumed", "loop", "done"} : ThreadAt(t, pc)
          BY <4>2 DEF Attach, CheckStop, ResumeFirst, PublishRunning, WaitFails, Detach,
                      ThreadDone
        <5> QED
          BY <5>1, <1>0, ThreadMoves
      <4>3. CASE Wait(t)
        <5>1. \E pc \in {"push write", "resume"}, e \in Causes :
                 thread'[t] = [thread[t] EXCEPT !.pc = pc, !.ev = e]
          <6>1. target.pending \subseteq Causes /\ "exit" \in Causes
            BY <1>0 DEF TypeOK, Causes
          <6>2. \E pc \in {"push write", "resume"}, e \in Causes :
                   thread' = [thread EXCEPT ![t].pc = pc, ![t].ev = e]
            BY <4>3, <6>1 DEF Wait
          <6> QED
            BY <6>2, <1>0 DEF TypeOK
        <5> QED
          BY <5>1, <4>1 DEF ThreadRecord
      <4>4. CASE PublishCrash(t) \/ ResumeTarget(t)
        <5>1. \/ thread'[t] = [thread[t] EXCEPT !.pc = "detach", !.ev = "none"]
              \/ thread'[t] = [thread[t] EXCEPT !.pc = "loop", !.ev = "none"]
          BY <4>4, <1>0 DEF PublishCrash, ResumeTarget, TypeOK
        <5> QED
          BY <5>1, <4>1 DEF ThreadRecord
      <4> QED
        BY <1>2, <2>2, <4>2, <4>3, <4>4 DEF ThreadStep
    <3> QED
      BY <3>1, <3>2, <3>3, <3>4, RingFrame
  <2> QED
    BY <2>1, <2>2
<1>3. ASSUME NEW p \in Pollers, PopTail(p) \/ PollStep(p)
      PROVE  RingInv'
  BY <1>3, PopTailRing, PopHeadRing, PopCopyRing, PopStoreRing DEF PollStep
<1>4. CASE Surroundings
  <2>1. UNCHANGED <<thread, ring, head, tail, poller, pushed, last, raced>>
    BY <1>4 DEF Surroundings, TargetEnds, TargetEvent, LegacyDebugAttach, DebugDetach,
       ring_vars
  <2> QED
    BY <2>1, RingFrame
<1>5. CASE UNCHANGED vars
  <2>1. UNCHANGED <<thread, ring, head, tail, poller, pushed, last, raced>>
    BY <1>5 DEF vars
  <2> QED
    BY <2>1, RingFrame
<1> QED
  BY <1>1, <1>2, <1>3, <1>4, <1>5 DEF Next, Surroundings

(* A run of numbers, with its predecessor put in front of it. *)
LEMMA RunGoesOn ==
  ASSUME NEW base \in Int, NEW run \in Seq(Nat), NEW before \in Seq(Nat),
         \A i \in 1..Len(run) : run[i] = base + i - 1,
         before = <<>> \/ (Len(before) = 1 /\ before[1] = base - 1)
  PROVE  \A i \in 1..Len(before \o run) - 1 :
           (before \o run)[i + 1] = (before \o run)[i] + 1
<1>1. PICK n, m : n = Len(run) /\ m = Len(before)
  OBVIOUS
<1>2. n \in Nat /\ m \in {0, 1}
  BY <1>1
<1>3. /\ Len(before \o run) = m + n
      /\ \A i \in 1..m + n :
           (before \o run)[i] = IF i <= m THEN before[i] ELSE run[i - m]
  BY ONLY <1>1, ConcatProperties, run \in Seq(Nat), before \in Seq(Nat)
<1>4. ASSUME NEW i \in 1..m + n
      PROVE  (before \o run)[i] = base + i - m - 1
  <2>1. (before \o run)[i] = IF i <= m THEN before[i] ELSE run[i - m]
    BY <1>3
  <2>2. CASE i <= m
    <3>1. m = 1 /\ i = 1 /\ before[1] = base - 1
      BY <2>2, <1>1, <1>2
    <3>2. (before \o run)[i] = base - 1
      BY ONLY <2>1, <2>2, <3>1
    <3>3. base + i - m - 1 = base - 1
      BY <3>1
    <3> QED
      BY ONLY <3>2, <3>3
  <2>3. CASE ~(i <= m)
    <3>1. PICK k \in 1..n : k = i - m
      BY <2>3, <1>2
    <3>2. run[k] = base + k - 1
      BY <1>1
    <3>3. (before \o run)[i] = base + k - 1
      BY ONLY <2>1, <2>3, <3>1, <3>2
    <3>4. base + k - 1 = base + i - m - 1
      BY <3>1, <1>2
    <3> QED
      BY ONLY <3>3, <3>4
  <2> QED
    BY <2>2, <2>3
<1>5. ASSUME NEW i \in 1..m + n - 1
      PROVE  (before \o run)[i + 1] = (before \o run)[i] + 1
  <2>1. i \in 1..m + n /\ i + 1 \in 1..m + n
    BY <1>2
  <2>2. (before \o run)[i] = base + i - m - 1
    BY ONLY <1>4, <2>1
  <2>3. (before \o run)[i + 1] = base + (i + 1) - m - 1
    BY ONLY <1>4, <2>1
  <2>4. base + (i + 1) - m - 1 = (base + i - m - 1) + 1
    BY <1>2
  <2> QED
    BY ONLY <2>2, <2>3, <2>4
<1>6. PICK len : len = Len(before \o run)
  OBVIOUS
<1>7. len = m + n
  BY ONLY <1>3, <1>6
<1>8. ASSUME NEW i \in 1..len - 1
      PROVE  (before \o run)[i + 1] = (before \o run)[i] + 1
  <2>1. i \in 1..m + n - 1
    BY ONLY <1>2, <1>7, i \in 1..len - 1
  <2> QED
    BY ONLY <1>5, <2>1
<1> QED
  BY ONLY <1>6, <1>8

LEMMA StoreInOrder ==
  ASSUME TracerInv, RingInv, NEW p \in Pollers, PopStore(p), ~raced
  PROVE  LET got == (IF last = None THEN <<>> ELSE <<last>>) \o poller[p].out
         IN  \A i \in 1..Len(got) - 1 : got[i + 1] = got[i] + 1
<1>0. /\ TypeOK /\ poller[p] \in PollerRecord /\ pushed \in Nat /\ raced = FALSE
      /\ last \in Nat \cup {None} /\ head \in 0..IndexMod - 1 /\ tail \in 0..IndexMod - 1
  BY DEF TracerInv, TypeOK
<1>1. PICK out, before, base :
         /\ out = poller[p].out
         /\ before = IF last = None THEN <<>> ELSE <<last>>
         /\ base = pushed - Backlog
  OBVIOUS
<1>2. out \in Seq(Nat)
  BY <1>0, <1>1 DEF PollerRecord
<1>3. base \in Int
  <2>1. Backlog \in Int
    BY <1>0, Distance, Sizes DEF Backlog
  <2> QED
    BY <2>1, <1>0, <1>1
<1>4. Delivered /\ Copying(p)
  BY <1>0 DEF RingInv, PopStore
<1>5. \A i \in 1..Len(out) : out[i] = base + i - 1
  BY <1>1, <1>4 DEF Copying
<1>6. before \in Seq(Nat) /\ (before = <<>> \/ (Len(before) = 1 /\ before[1] = base - 1))
  <2>1. CASE last = None
    BY <2>1, <1>1
  <2>2. CASE last # None
    <3>1. last \in Nat /\ last = base - 1 /\ before = <<last>>
      BY <2>2, <1>0, <1>1, <1>4 DEF Delivered
    <3> QED
      BY <3>1
  <2> QED
    BY <2>1, <2>2
<1>7. \A i \in 1..Len(before \o out) - 1 : (before \o out)[i + 1] = (before \o out)[i] + 1
  BY <1>2, <1>3, <1>5, <1>6, RunGoesOn
<1> QED
  BY <1>1, <1>7

(* The ring keeps its newest events in its newest slots, whatever the      *)
(* indices wrap around to, until a push or a reset meets a poll, or two    *)
(* control requests overlap.                                               *)
THEOREM RingIsSound ==
  ASSUME OnePoller
  PROVE  Spec => [](crossed = FALSE => RingInv)
<1> DEFINE I == UncrossedInv /\ (crossed = FALSE => RingInv)
<1>1. Init => I
  BY InitRingInv, InitTracerInv DEF UncrossedInv, TracerInv
<1>2. I /\ [Next]_vars => I'
  <2> SUFFICES ASSUME I, [Next]_vars PROVE I'
    OBVIOUS
  <2>1. UncrossedInv'
    BY NextUncrossed
  <2>2. crossed' = FALSE => crossed = FALSE /\ TracerInv
    BY NextCrossed DEF UncrossedInv
  <2>3. crossed' = FALSE => RingInv'
    BY <2>2, NextRingInv
  <2> QED
    BY <2>1, <2>3
<1> QED
  BY <1>1, <1>2, PTL DEF Spec

(* ring_pop and ring_push share no lock.  With one client that polls, what *)
(* the polls deliver is a gap-free, ordered run of what ring_push          *)
(* recorded, as long as neither an overflow nor a reset meets a poll, and  *)
(* no two control requests overlap.                                        *)
THEOREM PollsAreInOrder ==
  ASSUME OnePoller
  PROVE  Spec => PollsInOrder
<1> DEFINE Step == \A p \in Pollers : PopStore(p) /\ ~raced /\ ~crossed =>
                     LET got == (IF last = None THEN <<>> ELSE <<last>>) \o poller[p].out
                     IN  \A i \in 1..Len(got) - 1 : got[i + 1] = got[i] + 1
<1>1. UncrossedInv /\ (crossed = FALSE => RingInv) => Step
  <2> SUFFICES ASSUME UncrossedInv, crossed = FALSE => RingInv, ~crossed PROVE Step
    OBVIOUS
  <2>1. TracerInv /\ RingInv
    BY DEF UncrossedInv, TypeOK
  <2> QED
    BY <2>1, StoreInOrder
<1>2. UncrossedInv /\ (crossed = FALSE => RingInv) /\ [Next]_vars => [Step]_vars
  BY <1>1
<1> QED
  BY <1>2, RingIsSound, TracerBookkeeping, PTL DEF Spec, PollsInOrder

=============================================================================
