# MemDBG: TLA+ models, model checking and proofs

MemDBG is a memory debugger for consoles: a payload (a daemon in C, `src/src`)
that runs next to a game, and a desktop frontend (`src/frontend`) that drives
it over TCP. This directory models the concurrent core of the daemon: how
connections are accepted, counted, served and given back, how the one debugger
session controls the traced process, the tracer thread with its ring of events,
and scans that run on several threads; and, on the other side of the wire, how
the frontend survives a console that goes to rest and comes back with new
processes. All paths below are relative to
the repository, whose root is `src/`; so `src/src/core` is its `src/core`.

## 1. Inventory

### Components, their state, operations and interactions

| Component | State | Operations | What is hard about it |
|---|---|---|---|
| Handler pool (`core/daemon/thread_pool.c`) | linked queue, `queue_mtx`, `queue_cv`, atomic `shutting_down`, threads | create, enqueue, `pool_worker`, shutdown | the flag is set outside the mutex; wake-ups; drain |
| Acceptor (`core/daemon/acceptor.c`) | `g_active_connections`, `g_clients[64]`, `g_sessions[64]`, `g_accept_rates[64]` | accept loop, register/unregister client, HELLO session register/unregister, rate check, shutdown of clients | refusal paths, descriptor reuse, full tables, edges of the rate window |
| Connection handler (`core/daemon/command_handler.c`) | per thread: budget, session cookie | request loop, last-client detach, cleanup | unlocked read of the counter, order of the cleanup, blocking reads |
| Supervisor (`core/daemon/daemon_main.c`) | `g_stop_requested`, listener, entry guard | run, request_stop, listener recovery | nothing is reset between two pools; stop during recovery |
| Debugger session (`debug/session/*.c`) | `g_dbg` (attached, stopped, stop_lwp, breakpoints, watchpoints, cached debug registers), `g_dbg_mtx` | attach, detach, stop, continue, step, poll, set/clear breakpoints and watchpoints, registers | target threads run during a step over; platform calls fail half way; signals pending |
| FlashScan (`scanner/flashscan`) | `g_sessions`, `g_session_owner_fd`, snapshots, worker threads | slot_for_client, release_client, snapshot, rescan, cancel | slots keyed by descriptor; snapshots shared with workers |
| Scan jobs (`core/daemon/handlers/scan.c`, `scanner/scan/parallel.c`, `partition.c`) | `g_scan_jobs`, atomic progress counters, workers | begin, status, cancel, finish; partition, spawn, scan, join, merge | cancel against completion; counters without a lock; threads that fail to start; slots that are reused |
| Legacy server (`core/daemon/legacy`) | second listener, detached threads, own session | ps4debug-style commands | shares scan slots and the traced process |
| Tracer (`tracer/memdbg_tracer_daemon.c`, `handlers/tracer.c`) | `g_running`, `g_starting`, `g_stop_req`, `g_state`, static `g_thread`, ring with 32-bit indices | start, stop, `tracer_thread_fn`, push, poll | start and stop release the mutex half way; blocking `waitpid`; lock-free ring; second ptrace client |
| Instance takeover (`core/memdbg_instance.c`) | pid file | probe, request shutdown, wait, replace | two processes |
| Frontend connection (`frontend/src/app/shell/connection.cpp`, `session.cpp`, `core/client/client_pool.cpp`, `docs/reconnect.md`) | phase, stale, epoch, connect generation, saved target, futures of tasks | connect, cancel, disconnect, heartbeat, back off, restore, refresh maps | tasks that end after the connection they belong to; PIDs that change; flags that decide what a late result means |
| Trainer locks (`frontend/src/screens/trainer/screen_trainer.cpp`) | entries with the PID they were made for | add, load, lock, unlock, `apply_locked_cheats` in every frame | the PIDs are of the life of the console they were made in |
| Rest: packet encoding, capability flags, configuration, process and map services, assembler, scanner kernels, privilege layer, PAL, utilities, other clients, vendored SDKs | none, or constants | | not modelled, see section 8 |

How they interact: the acceptor enqueues into the pool; a pool worker runs
`handle_client`, which dispatches to the handlers; these call the debugger and
the scanner, which have process-wide state. The supervisor owns the pool and
the acceptor and replaces both when the listener is lost; the counter, the
registry, the sessions and the debugger survive that. Debugger and target
interact through ptrace (requests need a stop that has been waited for),
memory writes (no stop needed) and signals. The tracer is a second client of
ptrace; the dispatcher stops it before it attaches the debugger, and the tracer
request detaches the debugger first. A tracked scan runs in its connection's
handler and shares its progress with handlers that ask for it. The frontend is
one thread that polls tasks; each task works on a socket of the pool.

### What makes each component correct

* pool: what is taken is served once; nothing is left to the drain loop; no
  connection waits beside an idle worker; shutdown returns.
* acceptor, handler and supervisor: the counter counts; registry, sessions and
  scan slots name live connections only, each once; stop and recovery come to
  an end whatever clients do; the debugger is released with the last client.
* rate limit: nobody is refused for someone else's connections; what passes is
  bounded.
* debugger: the text of the target and the breakpoint table agree at every
  instant; the debug registers never hold what the table does not; no thread runs
  through a breakpoint; no call keeps the mutex.
* tracer: one thread at a time, joined once; what it reports is true; polls
  deliver what was recorded, in order; stop returns.
* scan jobs: a slot and its counters belong to one scan until it is finished;
  a scan that reports success has scanned every map, once; a cancel ends the
  job.
* frontend: nothing read over an earlier connection is shown, counted or written
  to, be it the selected process or one that a locked trainer entry names; the
  user's word is final; a loss is noticed and retried.

`PROJECT.json` lists the hazards line by line.

## 2. Modules

| Module | Models | Extends / uses |
|---|---|---|
| `ConnectionService` | what the pool promises: a connection is refused, or taken and served once | |
| `ThreadPool` | `thread_pool.c` at the grain of mutex, condition variable and flag | refines `ConnectionService` |
| `ThreadPoolProofs` | theorems about `ThreadPool` | `ThreadPool`, `TLAPS` |
| `Connections` | acceptor, handlers, supervisor and the tables they share | uses the pool as `ConnectionService` describes it |
| `ConnectionsProofs` | theorems about `Connections` | `Connections`, `TLAPS` |
| `RateLimit` | `accept_rate_check` with its clock and table | |
| `RateLimitProofs` | theorems about `RateLimit` | `RateLimit`, `TLAPS` |
| `Debugger` | the debugger session and the traced process | |
| `DebuggerProofs` | theorems about `Debugger` | `Debugger`, `TLAPS` |
| `Tracer` | the tracer thread, start and stop, the ring, the target | |
| `TracerProofs` | theorems about `Tracer` | `Tracer`, `TLAPS` |
| `ScanJobs` | the job table, the parallel scan, the partition by bytes | |
| `PartitionProofs` | the theorem about the partition | `ScanJobs`, `TLAPS` |
| `ScanJobsProofs` | theorems about `ScanJobs` | `PartitionProofs` |
| `Reconnect` | the frontend's connection, reconnection and session restore against a console that sleeps and wakes | |
| `TrainerLocks` | the trainer's locked entries and what they write to | extends `Reconnect` |
| `ReconnectProofs` | theorems about `Reconnect` and `TrainerLocks` | `TrainerLocks`, `TLAPS` |
| `MC*` | instances for TLC | |

In every module an operator whose name ends in `Slip` (or `Early`) is not part of the model:
it is a plausible mistake in the definition that follows it. Putting it in that
definition's place makes TLC refute the property the mistake endangers
(`mutants` in `PROJECT.json`), which shows that the property is not vacuous.

### ThreadPool

`queue` is the list from `queue_head` to `queue_tail`; `worker`, `acceptor`
and `shutter` are program counters; `mtx` is the enqueuing thread inside
`queue_mtx`. What a thread does inside the mutex is one action, except for the
enqueue, whose second test of `shutting_down` and whose append are two actions
because the flag can be set in between. `Init` allows any non-empty set of
workers to have started, as `memdbg_thread_pool_create` does. `fate` is a
history variable that says what became of each connection.

### Connections

One locked section or one atomic access is one action (the decrement and the
close of a refused connection are one: the acceptor is the only thread that
could reuse the number in between). `acceptor` and
`handler[w]` hold a program counter and the locals that matter (`fd`, the
result of the increment, the cookie, the budget); `sock` is the kernel's view of
a descriptor, which is free again as soon as it is closed. A request is in two
actions: the bytes begin to arrive (`RequestArrives`), and the complete request
is dispatched; between them the handler is in a read that only the peer or
`shutdown()` ends. Refusals before the counter is raised (allowlist, rate
limit) have no effect and are not actions. The end of `handle_client` is five
actions in the order of the code (`After`). The debugger appears as the flag
`attached`.

### RateLimit

`Check(p)` is one call of `accept_rate_check`, `Tick` a second of
`monotonic_seconds`. `admitted`, `refused` and `evicted` are history variables;
the first forgets seconds that no window reaches any more, so that states
repeat. What was admitted in an interval (`Between`) is the difference of two
sums of the log from its start (`Before`), which TLC computes and the proofs can
reason about.

### Debugger

Every `memdbg_debugger_*` call holds `g_dbg_mtx`, so it is one action, unless
it lets the target run before it returns: the step over a software breakpoint
(inside step and continue) and the detach of a running target. Those are
recorded in `op` and interleave with the target. The target is external: a loop
over the instructions at `Insns`, some threads, INT3 traps, single steps, data
watchpoints, SIGSTOP, thread creation and exit. An instruction is one byte long
exactly when the next address is an instruction too; that is what tells
`rip - 1` from "the instruction before". `Faults`
names what may go wrong on the platform's side: memory writes, registers,
resumes, debug registers and their rollback and the thread list may be refused,
a wait for a stop may time out ("timeout": the first of the two waits of a step
over, after which SIGSTOP does stop the target; "hang": the second one as well,
`StepOverGivesUp`), and the target may exit. `SetDbregs` writes any registers
(`ClientRegisters`), whatever the watchpoint table says. There is one target process; attaching to
another one first detaches, which is the same `Detach*` and `Attach`.
Conditions of conditional breakpoints are a free choice at each hit. The list of
threads comes in any order the kernel chooses (`ThreadLists`), so which thread is
stepped over first, or reported first, is not fixed.

### Tracer

`g` holds the fields that `g_mtx` guards; `control[c]` is a handler inside
start, stop or attach, with the locals that stop copied under the mutex;
`thread[t]` the tracer threads ever started, `handle` the static `g_thread` and
`joined` the handles a join has consumed. A push is three actions (slot, index,
tail), a pop one per load, per copied event and for its store. An event is the
number of its push, so that a poll's output shows losses, repetitions and
reordering; `last`, `raced` and `crossed` are history variables, the last of which
says that a control request has begun while another was under way. The target is
external: it makes system calls, faults, exits, and receives SIGSTOP. PT_DETACH
works on a stopped target only and its result is ignored (`Detach`), as in the
code. `dbg` is the debugger session as far as the tracer meets it: a tracer
request is refused unless there is a session to detach, and a session may begin
over the native protocol, which stops the tracer first, or over the legacy one,
which does not. `IndexMod` stands for 2^32.

### ScanJobs

`slot` is `g_scan_jobs` with the counters of its progress block; `handler[h]`
is the thread that runs a tracked scan and `worker[h][w]` a part of that scan,
worker 1 being the part the handler scans itself. A worker scans a map in one
action and records which. `Partition` translates `partition_maps_by_bytes` as a
recursive function (`Splits`, one `AddMap` per turn of the loop).
`PartitionExact` says what it is for: every map that passes the filters is in
exactly one part, there are at most `Threads` parts, and where the list is split
each part begins with a map that is scanned. `PartitionCovers` in `MCScanJobs`
checks it for every list of up to seven maps of at most two bytes, and
`PartitionProofs` proves it for every list. `alive` turns FALSE where the code frees or joins what was never
initialised and the process may end.

### Reconnect

A poll of a frame that changes something is one action, and so is what the user
does in a frame; the tasks started with `std::async` end at any moment. What is
read from the console is tagged with the life of the console it was read in
(`console.life`), since PIDs change with it. Epochs and generations are only ever
compared with the current one, so a task keeps whether it is `current`
respectively whether the generation has `moved` on. `QuiesceTransport` is
`quiesce_transport`: a task that has not ended runs on, but its result is no
longer looked at. `freed` says that the client `AppState::client` refers to has
been destroyed; reads through it then return anything. The target's identity is
matched by content id, title id, path and name; the first two are looked up by
PID in a cache that may be of the life before, so `Matches` allows a wrong
process of the new life. A PID of an earlier life that is asked for its maps is
answered for whichever process has the number now (`Answering`). The six tasks
that hold off a ping and are not modelled (telemetry, scan, task manager
resources, prefetch, plugin refresh and run) are the free choice `busy` in
`HealthSend`.

### TrainerLocks

`Reconnect` with one more variable: `locks`, the processes that enabled and
locked entries name, each tagged with the life it was selected in, like
everything read from the console. No operation of `Reconnect` touches them;
`add_cheat_from_fields` and the loaders set an entry's PID and nothing sets it
again. `ApplyLockedCheats` writes over the control client; on a socket that no
longer works the write fails and may close it.

## 3. Runs

| Run | Bounds | Distinct states | Shows |
|---|---|---|---|
| `pool` | 2 workers, 2 enqueuing threads, 3 connections | 9.5 thousand | type invariant, `DrainFindsNothing`, refinement of `ConnectionService`, `WaitsOnlyForClients`, `ShutdownReturns` |
| `connections` | 3 descriptors, 2 handlers, 2 addresses with 2 identities, every table of 2 entries, budget 1 | 1.1 million | `CountExact`, `RegistryExact`, `SessionsExact`, `OwnersLive`, `CleanRestart`, `ScanSlotKept` |
| `stop_and_recovery` | 2 descriptors, 2 handlers | 63 thousand | `StopCompletes`, `ListenerRecovers` |
| `last_client_race` | 3 descriptors, 2 handlers | stops at the violation | finding: `LastClientDetaches` |
| `rate_limit` | 3 addresses, 2 entries, limit 2, window 3 s, 7 s, 3 admissions per address and second | 0.9 million | `RefusedOnlyOnBurst`, `BurstBound` |
| `debug_faults` | 2 threads (one born later), 2 breakpoints, 1 watchpoint, instructions of two bytes; every fault but the thread list | 2.3 million | `TextIntact`, `NoGhost` |
| `debug_calls` | 2 threads (one born later), 1 breakpoint, 1 watchpoint, a one-byte instruction; registers fail, waits time out, the target exits | 0.31 million | `StoppedIsTrue`, `BreakpointsArmed`, `MutexReleased`, `ArmedOnResume` |
| `breakpoints_honoured` | 2 threads, 1 breakpoint, no fault | stops at the violation | finding: `BreakpointsHonoured` |
| `tracer` | 2 control connections until their requests overlap, 1 polling connection, 2 tracer threads, ring of 2, indices modulo 4, 2 events, polls of 2 | 0.7 million | `OneTracer`, `StatusTruthful`, `PollsInOrder`, `StopReturns` |
| `scan_jobs` | 2 handlers, 2 jobs, 2 slots, 2 workers, a process of 5 maps (one rejected) and one of 1 map | 0.58 million | `SlotKept`, `ProgressTrue`, `CompleteScanCoversMaps`, `CancelEnds` |
| `reconnect` | 2 processes, 1 outage (2 lives), the game gone, replaced or back after it | 0.44 million | type invariant, `SelectionOfThisLife`, `PingsOfThisConnection`, `AttemptKeepsPhase`, `MapsOfThisConnection`, `CancelIsFinal`, `RetriesSucceed`, `LossNoticed` |
| `trainer_locks` | 1 process, 1 outage | stops at the violation | finding: `LocksHitThisLife` |

The type invariant of a module is a conjunct of one of its invariants
(`CountExact`, `RefusedOnlyOnBurst`, `TextIntact`, `OneTracer`, `SlotKept`)
where it is not a property of its own.

Why the bounds are enough to be interesting. Pool: two workers distinguish
signal from broadcast, two enqueuing threads contend for the mutex, and three
connections outnumber the workers. Connections: one descriptor more than
handlers, so that a number is reused while its last handler is still on its way
out and a connection waits in the queue; tables that are full; four session
identities for two entries. `PreAuthBudget = 1` reaches the exhausted budget
with a scan slot held. `stop_and_recovery` leaves out a pool or an acceptor that
fails to start, which ends the daemon instead of recovering. Rate limit: three
addresses for two entries evict; seven seconds hold two windows and their edges; `MaxRate` only stops a single second
from being repeated for ever. Debugger: two threads are what step over, thread
lists and partial register updates need; two breakpoints show that the wrong one
is not touched. `debug_faults` gives up on targets that cannot be stopped as
well; it sends no "detach", no "clear all" and no registers of the client's own,
and `debug_calls`, which does, has fewer faults: section 6 says what the code
does beyond that. Tracer: a ring of two overflows with three pushes (the SIGSTOP
of a stop and the exit are events too); two threads are what a restart needs; a
behaviour is followed until two control requests overlap (`UntilCrossed`), since
nothing is claimed after that. At most three events are recorded between two
resets, so the indices do not wrap in the run: that they may rests on the
theorems `RingIsSound` and `PollsAreInOrder`, which hold for any number of
events. Scan jobs: two scans at once compete for slots, four maps are the fewest
that are split, and the rejected map lies inside the second part
(`PartitionCovers` and the theorem have it at every place, the boundary
included). Reconnect: one outage has a life
before and one after. The theorems of section 5 hold for any values of these
bounds; only the liveness properties depend on the instance. What an instance of
`Debugger` sends and lets fail is not a bound: the debugger's theorems name the
commands and faults under which they hold, and each run keeps within them.

Deadlock is checked in the runs of `Connections` (the daemon can always be
entered again). It is not in the others: a pool may be shut down and its
connections used up, the clock of `RateLimit` ends, a target may exit, a tracer
may use up its threads, and a process may end (`alive`).

## 4. Fairness

* `ThreadPool`: threads are scheduled and a contended mutex is granted (strong
  fairness of what a thread does after it gets the mutex). A handler runs as
  long as its client stays connected, so it is assumed to return only once the
  flag is up: by then the supervisor has shut the clients' sockets down, and
  `Connections` shows what follows. Nothing forces an enqueue, a shutdown or a
  spurious wake-up. A queued connection can therefore wait for ever: 16
  connections are admitted for 2, 4 or 8 workers, and the idle timeout may be 0.
  `WaitsOnlyForClients` says that this is the only way.
* `Connections`: threads run. A handler at the top of its loop wakes every
  250 ms and sees the stop flag; a blocking call on a socket that
  `acceptor_shutdown_clients` shut down returns. Nothing is assumed of
  clients: one may stop in the middle of a request for ever. The retry of the
  listener succeeds if it is repeated for ever (strong fairness of
  `ListenerReopens`); the code retries without limit.
* `Debugger`: the kernel schedules runnable threads and delivers SIGSTOP; the
  holder of the mutex goes on, and a wait for a stop gives up after its time
  limit (`DetachGivesUp`, `StepOverForced`, `StepOverGivesUp`). No client is obliged to send
  anything.
* `Tracer`: handlers inside a request and the tracer thread run; what the target
  does, new requests and the errors of `waitpid` are free. A resume or a kill is
  taken to succeed (the code ignores their results).
* `ScanJobs`: threads run. No client has to cancel or to ask.
* `Reconnect`: every frame runs every poll, tasks end because their sockets have
  timeouts, timers expire. No fairness is assumed of the ping: seven other tasks
  hold it off, and a scan may take for ever, or telemetry be pending whenever the
  health poll looks. `LossNoticed` has as its premise that pings are sent again
  and again while the socket seems open. The console need not wake;
  `RetriesSucceed` assumes that it does.

## 5. Proofs

`ThreadPoolProofs` proves for any numbers of workers, enqueuing threads and
connections, from the one assumption that there is a worker and that `Nobody`
is none of them:

* `TypeCorrect`: `Spec => []TypeOK`;
* `DrainIsEmpty`: `Spec => []DrainFindsNothing`;
* `PoolImplementsService`: `Spec => ImplementsService` (safety refinement);
* `PoolInvariant`: `Spec => []PoolInv`, on which the others rest.

Why an inductive invariant is needed: `DrainFindsNothing` speaks of the moment
after the join and says nothing of how an append could get there. The append
happens with the mutex held by a thread that saw the flag down inside the
mutex; a worker leaves only with the mutex free, the queue empty and the flag
up. So the argument needs, all at once:

* `MutexInv`: who is at "locked" is who `mtx` names, hence at most one;
* `ExitInv`: once a worker has left, the flag is up, the queue is empty and
  nobody is between the second test and the append;
* `ShutterInv`: how far the shutdown got, against flag and workers;
* `OfferInv` and `PlaceInv`: which connection is in whose hands, in the queue or
  with a worker, and that no connection is in two places, against its `fate`;
* `NoneDropped`: the conclusion for the drain.

The proof has one step per action and below it one per conjunct that the action
can disturb; what `Head`, `Tail` and `Append` do to the elements of the queue is
stated in lemmas. The refinement follows from the same invariant: a worker
serves a connection whose fate is "taken".

`ReconnectProofs` proves, for any set of processes, any process lists of the
console's lives and any number of outages, from `ReconnectAssumption` alone:

* `Typing`: `Spec => []TypeOK`;
* `PhaseKept`: `Spec => []AttemptKeepsPhase`;
* `PingsKept`: `Spec => []PingsOfThisConnection`;
* `CancelFinal`: `Spec => CancelIsFinal`;
* `FreshMaps`: `Spec => MapsOfThisConnection`;
* `SelectionIsFresh`: `Spec => []SelectionOfThisLife`;
* `LocksLeaveSessionAlone`: `LockSpec => Spec`: the frontend with trainer locks
  implements the one without, so the others hold with locks too.

None of these is inductive. That a result of the maps refresh is of the
connection in use depends on who may change the connection while it runs; that
a phase survives an attempt depends on every poll that could change it being
held off. The argument is in two layers. `Coherent` says how tasks, connection
and phase fit together:

* `Quiet`: while an attempt is under way no ping and no refresh is pending and
  the control socket is closed, so no poll can begin a reconnection under it;
* `Marked`: an attempt that outlives the user's cancel carries the mark;
* `InUse`: an open control socket belongs to Online or Restoring, and a refresh
  whose epoch is current reads the life that socket was opened in;
* `Grounded`: where a life or a process is used it is not the null one, and the
  console has had no more lives than outages allow;
* `TypeOK`, `AttemptKeepsPhase` and `PingsOfThisConnection` themselves.

On top of it, `Verified` says what "not stale" rests on: while the session is
online and fresh, or restoring its maps, every listed process, the matched and
the selected one are of the life of the connection in use. There is one lemma
per poll, task and user action; what each record becomes is a step of its own,
below which the fields are typed.

`ConnectionsProofs` proves, for any finite sets of descriptors and handlers and
any sizes of the tables, from `ConnectionsAssumption` alone. Its one clause that
relates constants, `MaxClients <= MaxSessions`, holds in the code (both tables
have 64 entries). The theorems are

* `CountIsExact`, `RegistryIsExact`, `SessionsAreExact`, `OwnersAreLive` and
  `RestartsAreClean`: `Spec => []` of `CountExact`, `RegistryExact`,
  `SessionsExact`, `OwnersLive` and `CleanRestart`;
* `ScanSlotsAreKept`: `Spec => ScanSlotKept`, an action property;
* `Ownership`: `Spec => []ConnInv`, on which the others rest.

Each table goes by descriptor numbers, and a number is free again as soon as it
is closed. That no entry is left behind for the next owner of the number, and
that nobody removes someone else's, only follows when every open descriptor is
known to be in one place: `PlaceInv` says so (with the acceptor, once in the
queue, or with one handler that has not closed it yet). `CountInv` bounds the
counter by the result of the acceptor's increment, which others can only have
lowered since; `PhaseInv` says that without a pool nothing is under way;
`RegistryInv`, `SessionInv` and `OwnerInv` give each table by its members. That
a connection that says HELLO finds an entry is a pigeonhole argument: every used
entry has a member, and members are registered clients.

`RateLimitProofs` proves, for any addresses, limit, window and number of
entries, and for any end of the clock (`MaxTime` and `MaxRate` are arbitrary):

* `RefusalsAreEarned`: `Spec => []RefusedOnlyOnBurst`;
* `BurstsAreBounded`: `Spec => []BurstBound`;
* `RateBookkeeping`: `Spec => []RateInv`, on which both rest.

Both properties compare a counter with a history of admissions. `TableInv` says
that an address has one entry; `EntryInv` that an entry whose window is in use
counts no more than its address was admitted since its start, which makes
refusals earned; `KeptInv` the converse for an address that never lost its
entry: nothing escaped the count, and the `Window` seconds that ended where this
window began saw fewer than `Limit`. The last clause is what turns the bound of
one fixed window into the bound of any interval, `2 * Limit - 1`. The sums are
recursive functions; what is needed of them (they exist, are monotone, and
change by one where the log does) is shown with a least counterexample.

`TracerProofs` proves, for any number of threads, events and restarts, any ring
size, poll size and index width with `IndexMod` a multiple of the ring size:

* `TracerIsAlone`, `StatusIsTruthful` and the invariant `TracerBookkeeping`:
  `OneTracer` and `StatusTruthful`;
* `PollsAreInOrder` and the invariant `RingIsSound`: `PollsInOrder`, given that
  one connection polls (`OnePoller`).

They hold for any number of control connections and speak of a behaviour until
two control requests overlap (`crossed`); section 6 says what happens then. What
makes the bookkeeping inductive is that until then at most one request is under
way (`Alone`), whoever sent it. `TracerInv` follows start and stop through the
points where they release
the mutex: `RequestInv` says, for each such point, whether a thread can be
alive, whether the static handle is one that was not joined, and that what stop
copied under the mutex is still so; `HandleInv` and `StatusInv` tie handle,
status and target to the program counter of the one thread. `RingInv` states the
ring by distance from the head (`Newest`), where the indices wrap: slot
`(head - j) % RingSize` holds the event pushed `j` pushes ago, even while a push
or a poll is half done (`Filling`, `Settling`, `Copying`). Like the property, it
speaks of polls that no overflow and no reset has crossed (`raced`).

`PartitionProofs` proves `PartitionIsExact`: `PartitionExact(maps)` for every
`maps \in Seq(Nat)` and every number of threads. What a loop computes needs
induction over data; it is done with the well-foundedness of the natural
numbers: a least length at which the claim fails is not 0 and its predecessor
does not fail. That the recursive function exists at all is shown in the same
way. The argument never looks at the share of bytes, so the saturation of the
total in the code cannot affect it. The bytes of a part are natural numbers in the
model: maps are disjoint parts of one address space, so the 64-bit sum does not
wrap.

`ScanJobsProofs` proves, for any handlers, jobs, lists of maps, slots and number
of threads:

* `SlotsAreKept`, `ProgressIsTrue` and `ScansAreComplete`: `Spec => []` of
  `SlotKept`, `ProgressTrue` and `CompleteScanCoversMaps`;
* `ScanBookkeeping`: `Spec => []ScanInv`, on which they rest.

`CompleteScanCoversMaps` speaks of the end of a scan. `ScanInv` says on the way
there, for each handler: where its loops over the workers stand and which of
them have been started, run inline or joined (`StageInv`, `PhaseInv`); that a
worker has scanned exactly the maps of its part before the one it is at
(`ScannedInv`); that one that ended without an error and without a cancel has
scanned its whole part (`EndInv`); and that `active` is the number of workers
under way and `maps_done` no more than the maps scanned (`CounterInv`). With
`PartitionIsExact` the parts are disjoint and cover the list. A handler, its
workers and its slot are passed to these predicates as values, so that what a
step does to one handler is a lemma without primes; that it does nothing to the
others is what `SlotKept` gives.

`DebuggerProofs` proves, for any numbers of threads, breakpoints and
watchpoints and any program, from `DebuggerAssumption`, every safety
property of `Debugger` that a passing run checks. The code does not uphold them under every command and
fault (section 6), so each theorem names what it leaves out; what it does not
name may happen:

| Theorem | Shows | Leaves out |
|---|---|---|
| `SessionBookkeeping` | `Spec => []CoreInv` | nothing |
| `TextStaysIntact` | `TextIntact` | "clear all" together with refused writes |
| `StoppedStaysTrue` | `StoppedIsTrue` | "set hw"; a target that cannot be stopped ("hang") |
| `BreakpointsStayArmed` | `BreakpointsArmed` | refused writes; "hang"; "detach" together with refused resumes or "set hw" |
| `NoRegisterOutlives` | `NoGhost` | thread lists that fail; "clear all" together with "set hw"; "detach" together with refused debug registers; "set dbregs" |
| `EveryThreadArmed` | `ArmedOnResume` | thread lists that fail; refused debug registers |

No hypothesis is there for the proof's sake: with any one of them dropped, TLC
finds a behaviour that violates the property on an instance of the size of
section 3, and section 6 says which lines of the code are behind it.

`CoreInv` is what the session knows whatever happens: the types, one breakpoint
per instruction (`Sound`), only software breakpoints in the text, no table
without a session, which breakpoint a step over has lifted and whose step it is
(`TableInv`), and how the run state and the unreported event fit together
(`ProcInv`). Without it nothing else is inductive: that putting the INT3 back
after a step over restores the agreement of text and table needs that no other
entry has the same address, and that no call between lifting and replanting
frees the entry. On top of it

* `TextInv` adds that the table remembers the program's own byte, not an INT3,
  as the byte to restore;
* `CalmInv` says when nothing runs: while continue goes through the threads, and
  whenever the session counts as stopped and no step over is under way. For this
  the step that continue makes must be one that is waited for, that is, over a
  software breakpoint (`OnlySw`);
* `ArmInv` says that the only breakpoint not installed is the one being stepped
  over;
* `GhostInv` adds to `NoGhost` what a failed update falls back on: unused entries
  are zero, nothing is watched before the registers have been read, and threads
  not born yet have clean registers.

There is one lemma per action (`TrapCore`, `StepOverBeginCore`, ...), which shows
that `CoreInv` is kept and exports what the action does to the table, the text,
the run state and the registers; the further invariants follow from these
effects without expanding the action again. What planting, lifting, clearing and
adding do to a table and a text are lemmas about values, without primes.

Only model-checked: liveness (`WaitsOnlyForClients`, `ShutdownReturns`,
`StopCompletes`, `ListenerRecovers`, `MutexReleased`, `StopReturns`,
`CancelEnds`, `RetriesSucceed`, `LossNoticed`), which with fairness and ENABLED
is out of the prover's reach. Every invariant and action property of a passing
run is a theorem; the three findings are properties that do not hold.

## 6. Findings

`last_client_race`: `handle_client` (`command_handler.c:197`) loads
`g_active_connections` before it gives back its own count and without a lock.
Two clients that leave together, or one that leaves while a connection is being
refused, both read more than 1, and the target stays attached, although the log
line at `command_handler.c:200` promises to detach "because the last client
disconnected".

`breakpoints_honoured`: the step over a breakpoint takes the INT3 out and uses
PT_STEP (`breakpoints.c:272`, `:287`), which resumes every thread of the
process; another thread executes the instruction without a trap.
`github-pages/docs/debugger.md:89` says "Software breakpoints pause execution
when the instruction pointer reaches a specific address." With one thread the
property holds.

`trainer_locks`: `apply_locked_cheats` (`screen_trainer.cpp:657`, `:664`) writes
to the PID an entry was made with. Nothing resolves it again, so once the session
is Online and not stale after an outage, the locks write to a PID of the
console's previous life. In TLC's shortest trace the user connects again by hand;
with the user's second connect taken away it is a successful automatic restoration
that leads there. The comment at `screen_trainer.cpp:633` says "Suspend trainer
writes after reconnect until session is fully verified. Writing to old PIDs or
addresses after rest mode can corrupt memory.", and `docs/reconnect.md:385` "PID
(numeric) — always re-resolved". What the guard does achieve is
`SelectionOfThisLife`: an entry without a PID writes to the selected process,
which is of the present life.

### Further deviations

These were met while the models were written and the bounds of the passing runs
were chosen. They explain why a run leaves a command, a fault, a thread or a
second actor out. Where a property and a command, a fault or a constant are named,
adding them to the `.cfg` of the run that checks it reproduces the deviation.

Debugger:

* `memdbg_debugger_detach` (`debugger.c:264`) restores the bytes and lets go
  without moving RIP back from behind the INT3: the process resumes one byte
  into the instruction. `github-pages/docs/debugger.md:29` says "The process
  resumes from where it was paused."
* `memdbg_debugger_poll_events` (`debugger.c:441`) resumes the same way when a
  condition is not met; `github-pages/docs/debugger.md:105` says "The breakpoint
  now only triggers when `RAX == <value>`."
* Step and continue take "there is a breakpoint at RIP - 1" for "this thread has
  hit it" (`breakpoints.c:262`). After a step over a one-byte instruction (a
  `push` at a function's entry) the next step rewinds and executes it again;
  `github-pages/docs/debugger.md:159` says of a step "Execute one instruction."
* Clear and clear-all (`breakpoints.c:466`, `:498`) take away a breakpoint that a
  thread has just hit and leave its RIP behind it: there is nothing to step over
  any more, and continue resumes one byte into the instruction.
* A continue that cannot list the threads, or cannot read a thread's registers,
  goes on to PT_CONTINUE without the step over (`debugger.c:331`), with the same
  effect. No property states that the target executes its own instructions, each
  once: these five cases break it.
* A step over whose target does not stop within the second wait either returns
  with the INT3 lifted, the target running and `stopped` as it was
  (`breakpoints.c:318`). A detach after it patches the text of a running target,
  which the comment at `debugger.c:229` warns of: "Restoring software breakpoints
  while the target is running races its instruction stream and can leave an INT3
  behind. Stop first" (add the fault "hang" to `debug_calls`: `StoppedIsTrue` and
  `BreakpointsArmed` fail; `TextIntact` holds under it).
* `debug_faults` leaves out "clear all": it forgets a
  breakpoint whose byte could not be written back (`breakpoints.c:510`), so
  `TextIntact` fails; clear of a single one keeps the entry. `debug_calls` leaves
  out "set hw": continue tests for any breakpoint at RIP - 1 (`debugger.c:335`), but
  only the step over a software breakpoint is waited for. After a one-byte
  instruction at a hardware breakpoint, or when a hardware breakpoint has taken
  the place of a cleared software breakpoint that was hit, the target is still
  running from that step when PT_CONTINUE is refused, and the session counts as
  stopped: `StoppedIsTrue` fails.
* A detach whose PT_DETACH is refused keeps the session "for retry"
  (`debugger.c:264`), with every breakpoint active in the table and none planted:
  a continue after it runs through them all (add the fault "resume" to
  `debug_calls`: `BreakpointsArmed` fails; so it does with "set hw", where
  the target may be running when the detach is tried).
* `debug_faults` also leaves out "clear all" because of "set hw", and "detach":
  both ignore a refused update of the debug registers (`breakpoints.c:520`,
  `debugger.c:261`), so `NoGhost` fails. A detach without refused registers, and
  under refused writes or resumes, is covered by the theorems. It leaves out "set
  dbregs", with which a client arms what the table does not list (`regs.c:183`),
  and "lwplist": the list that continue falls back on names one thread, and
  the registers of the others are not updated (`regs.c:56`).
* Continue ignores a refused update of the debug registers too
  (`debugger.c:308`): threads born since the watchpoints were set run without
  them (add the fault "dbregs" to `debug_calls`: `ArmedOnResume` fails).
* A watchpoint hit by the very instruction that continue steps over sets
  DR6.BS as well, and the test at `breakpoints.c:333` takes it for a plain
  step: the hit is resumed silently.
* A SIGSTOP that stop has sent and that is still pending when another event
  stops the target survives a detach and stops the released process
  (`debugger.c:281`).
* `clear_breakpoint` looks the debug register of a hardware breakpoint up by
  address only (`breakpoints.c:484`), and can take away a data watchpoint on the
  same address.
* A stop request's SIGSTOP can be consumed together with a false conditional
  breakpoint (`debugger.c:441`), and stop then times out. A target that exits
  during a step over is not reported (`breakpoints.c:290`).

Connections and rate limit:

* The detach of `last_client_race` also errs in the other direction: a handler that read
  1 can detach after a new client has arrived.
* HELLO and PING are not charged to the pre-auth budget, although the comment at
  `command_handler.c:51` says they are counted.
* The rate window does not slide, although the comment at `acceptor.c:36` says
  so; `BurstBound` is what holds instead.

Tracer:

* Two control requests that overlap break `OneTracer` (`crossed`): two that start
  at the same moment both pass the test at `memdbg_tracer_daemon.c:332` and spawn
  two threads that share the ring; with a stop they join one handle twice. The
  daemon serves every client on a thread of its own and nothing keeps them apart;
  `include/memdbg/tracer/daemon.h:11` speaks of a "single producer" and `:13` says
  "State transitions (start/stop/status) are guarded by a mutex", but start and
  stop release that mutex half way.
* On the ordinary way out the thread has resumed the target
  (`memdbg_tracer_daemon.c:267-270`, `:130`) when it issues PT_DETACH (`:275`).
  That is refused for a running process and the result is ignored: the status
  becomes STOPPED while the target stays traced, and later attaches of the
  debugger or of a new tracer fail. `StatusTruthful` therefore speaks of the
  thread, and of the target only while the tracer is reported running.
* `handle_tracer_attach` (`handlers/tracer.c:18-37`) refuses the request when there
  is no debugger session to detach, although its comment calls the detach
  idempotent.
* A push into a full ring overwrites the slot a poll is copying, and a start
  resets the indices under it; `raced` exempts both from `PollsInOrder`. The
  comment at `memdbg_tracer_daemon.c:38` calls the ring single producer, single
  consumer, but `ring_push` moves the consumer's index.
* The SIGSTOP of a stop that arrives after the thread has detached stops the
  released process for good (`memdbg_tracer_daemon.c:391`).

Scan jobs:

* A cancel between the scan's last look at the flag (`api.c:149`) and
  `scan_job_finish` leaves the table at CANCELLED and the response unflagged.
* `threaded` is never initialised (`parallel.c:198`): after a failed
  `pthread_create` the join at `parallel.c:261` may be applied to a handle that
  was never filled in, against the comment at `parallel.c:242` that the failure
  "degrades inline".
* The early errors of a tracked scan leave `result` uninitialised and the handler
  frees it (`handlers/scan.c:174-179`).

Frontend:

* `AppState::client` (`app_state.hpp:688`) keeps referring to the control client
  that `replace_control` frees at the first automatic reconnection. That is why
  `RetriesSucceed` and `LossNoticed` speak of `~freed` only.
* A connection lost while the session is being restored is never noticed:
  `poll_session_health` acts in Online only and `poll_restore_session` returns
  while not connected (`session.cpp:155`, `:234`).
* One failed ping is enough to reconnect: it closes the socket, and the next
  frame takes the path of a closed socket; `session.cpp:186` says "Require 2
  consecutive failures before triggering reconnect."
* A maps refresh of the old connection that is still running makes the
  restoration's own request return at once (`connection.cpp:435`); with no maps
  error and old maps on display the restoration then declares them verified.
* `memory_lease` may return null between a test and its use
  (`client_pool.cpp:233`), and the task dereferences it (`alive`).
* After a failed restoration nothing clears `stale` when the user selects a
  process, although the comment at `session.cpp:490` says so; `remote_ready()`
  is never called.
* `disconnect_console` has its phase and flag overwritten by
  `quiesce_transport`, and a failed first connect leaves the phase at
  Connecting.

## 7. Plan

Done: the pool with its proofs, the connections with their tables, the rate
limit, the debugger; then the tracer, the tracked scans and the frontend's
connection with its proofs and the trainer's locks; then the proofs of the connections, the rate limit,
the tracer, the partition, the tracked scans and the debugger. The most important
behaviour came first: what every request goes through, then the components with
the most intricate failures.

Next, in this order:

1. `FlashScan`: snapshot stores and their workers, cancel and release against a
   running scan; abstract specification: a scan works on one consistent snapshot
   of its owner.
2. `Legacy`: the legacy server composed with `Connections` over the shared scan
   slots and the debugger.
3. `Takeover`: two payload processes and the pid file.
4. The GDB bridge, if it proves to have a protocol of its own.

## 8. Not modelled

* Request decoding, response formatting, capability flags, configuration,
  logging, discovery: no shared state, or output only.
* Process lists, maps and memory reads: reads of kernel tables.
* Assembler, disassembler, SIMD kernels, LZ4, JSON: pure functions over large
  tables, out of TLC's reach.
* Privilege layer and PAL: platform code; what the debugger needs of it is in
  `Debugger` as external actions.
* In the debugger: suspending single threads, FP registers, FS/GS base, reading
  of registers, and the five-second deadline of stop.
* In the supervisor: start and stop of the auxiliary services, notifications.
* In the tracer: the contents of events, system call names, crash dumps.
* In the scanner: comparison kernels, page aliases, pointer scans, values that
  span two segments of a map.
* In the frontend: payload injection; prefetch, telemetry, scans, plugins and the
  task manager (they appear as what holds off a ping); the maintenance
  thread of the role sockets, the counters of attempts and the heartbeat timer;
  and the screens but for the trainer's locks, which are the bulk of the repository's lines: immediate-mode
  drawing code and embedded assets without a protocol of their own.
* FlashScan beyond slot ownership, the legacy server and the takeover: planned
  (section 7).
