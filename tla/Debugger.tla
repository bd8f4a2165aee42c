------------------------------ MODULE Debugger ------------------------------
(***************************************************************************)
(* The debugger session of src/debug/session (debugger.c, breakpoints.c,   *)
(* regs.c) against the traced process it controls.                         *)
(*                                                                         *)
(* Grain.  Every memdbg_debugger_* call holds the recursive g_dbg_mtx, so  *)
(* a call is one action - unless it lets the target run before it returns. *)
(* Those calls (the step over a software breakpoint inside continue and    *)
(* step, and the detach that must first stop the target) keep the mutex    *)
(* and are recorded in op, while the target's threads take steps of their  *)
(* own.  memdbg_debugger_stop gives the mutex back after sending SIGSTOP   *)
(* and polls: its loop is a sequence of PollEvents actions.                *)
(*                                                                         *)
(* The target is external.  It is a loop of instructions at the addresses  *)
(* Insns; an instruction is one byte long exactly when the next address is *)
(* also in Insns.  ptrace requests work only on a stopped process whose    *)
(* stop has been waited for (EBUSY otherwise); memory is written through   *)
(* another door and works at any time; PT_STEP and PT_CONTINUE resume all  *)
(* threads.                                                                *)
(***************************************************************************)
EXTENDS Integers, Sequences, FiniteSets, FiniteSetsExt, Functions

CONSTANTS Lwps,         \* the thread ids the target may use, 1 is the main LWP
          InitialLwps,  \* those it starts with
          Insns,        \* addresses of the instructions
          WatchAddrs,   \* addresses clients put watchpoints on
          MaxBp,        \* MEMDBG_DEBUGGER_MAX_BREAKPOINTS
          MaxWp,        \* MEMDBG_DEBUGGER_MAX_WATCHPOINTS
          Commands,     \* the commands the clients of this instance send
          Faults        \* the ways in which the platform may refuse a request

ASSUME DebuggerAssumption ==
  /\ 1 \in InitialLwps /\ InitialLwps \subseteq Lwps
  /\ Lwps \subseteq Nat \ {0} /\ IsFiniteSet(Lwps)
  /\ Insns \subseteq Nat \ {0} /\ Insns # {} /\ IsFiniteSet(Insns)
  /\ MaxBp \in Nat \ {0} /\ MaxWp \in Nat \ {0}
  /\ Faults \subseteq {"write", "regs", "resume", "dbregs", "rollback",
                       "lwplist", "timeout", "hang", "exit"}

BpSlots == 1..MaxBp
WpSlots == 1..MaxWp
Main    == 1
BS      == 0            \* the single-step bit of DR6; bit s is watchpoint slot s

ZeroBp == [active |-> FALSE, address |-> 0, kind |-> "sw", installed |-> FALSE,
           original |-> "code", conditional |-> FALSE]
ZeroWp == [installed |-> FALSE, address |-> 0, type |-> "data"]
NoWps  == [s \in WpSlots |-> ZeroWp]

VARIABLES g_dbg,        \* memdbg_debugger_state_t
          op,           \* the call that holds g_dbg_mtx across target steps
          proc,         \* run state, unreported wait event, pending SIGSTOP,
                        \* the thread under PT_STEP, the live threads
          rip,          \* program counter of each thread
          int3,         \* addresses whose first byte is 0xCC
          dr, dr6       \* DR0-3/DR7 and DR6 of each thread

vars == <<g_dbg, op, proc, rip, int3, dr, dr6>>
thread == <<rip, dr, dr6>>

NoSession == [attached |-> FALSE, stopped |-> FALSE, stop_lwp |-> 0,
              breakpoints |-> [s \in BpSlots |-> ZeroBp],
              watchpoints |-> NoWps, dbregs |-> NoWps, dbregs_valid |-> FALSE]

NoOp == [cmd |-> "none", todo |-> <<>>, lwp |-> 0, slot |-> 0]

Rips == Insns \cup {a + 1 : a \in Insns}

Breakpoint == [active: BOOLEAN, address: Insns \cup {0}, kind: {"sw", "hw"},
               installed: BOOLEAN, original: {"code", "int3"}, conditional: BOOLEAN]
Watchpoint == [installed: BOOLEAN, address: Insns \cup WatchAddrs \cup {0},
               type: {"data", "exec"}]
Registers  == [WpSlots -> Watchpoint]

Session == [attached: BOOLEAN, stopped: BOOLEAN, stop_lwp: Lwps \cup {0},
            breakpoints: [BpSlots -> Breakpoint], watchpoints: Registers,
            dbregs: Registers, dbregs_valid: BOOLEAN]
Call    == [cmd: {"none", "continue", "continue wait", "step wait", "detach"},
            todo: Seq(Lwps), lwp: Lwps \cup {0}, slot: BpSlots \cup {0}]
Process == [state: {"run", "stop", "exit"}, event: {"none", "stop", "exit"},
            sigstop: BOOLEAN, stepping: Lwps \cup {0}, live: SUBSET Lwps]

TypeOK ==
  /\ g_dbg \in Session /\ op \in Call /\ proc \in Process
  /\ rip \in [Lwps -> Rips]
  /\ int3 \subseteq Insns
  /\ dr \in [Lwps -> Registers]
  /\ dr6 \in [Lwps -> SUBSET (WpSlots \cup {BS})]

Init ==
  /\ g_dbg = NoSession
  /\ op = NoOp
  /\ proc = [state |-> "run", event |-> "none", sigstop |-> FALSE,
             stepping |-> 0, live |-> InitialLwps]
  /\ rip = [t \in Lwps |-> Min(Insns)]
  /\ int3 = {}
  /\ dr = [t \in Lwps |-> NoWps] /\ dr6 = [t \in Lwps |-> {}]

-----------------------------------------------------------------------------
(* The target *)

Flow(a) == IF \E b \in Insns : b > a THEN Min({b \in Insns : b > a}) ELSE Min(Insns)

Resumed(lwp) == [proc EXCEPT !.state = "run", !.stepping = lwp]
Reported     == [proc EXCEPT !.event = "none"]
Halted       == [proc EXCEPT !.state = "stop", !.stepping = 0,
                             !.event = IF g_dbg.attached THEN "stop" ELSE "none"]

(* A thread executes an INT3: RIP is left behind it and the process stops. *)
Trap(t) ==
  /\ proc.state = "run" /\ t \in proc.live /\ rip[t] \in int3
  /\ rip' = [rip EXCEPT ![t] = @ + 1]
  /\ proc' = Halted
  /\ UNCHANGED <<g_dbg, op, int3, dr, dr6>>

(* A thread executes an instruction, which may touch a watched address.   *)
(* One debug trap reports the single step and the watchpoint together.    *)
Execute(t) ==
  /\ proc.state = "run" /\ t \in proc.live /\ rip[t] \notin int3
  /\ rip' = [rip EXCEPT ![t] = Flow(@)]
  /\ \E hit \in {{}} \cup {{s} : s \in {w \in WpSlots : dr[t][w].installed
                                                        /\ dr[t][w].type = "data"}} :
       LET bits == IF proc.stepping = t THEN hit \cup {BS} ELSE hit
       IN /\ dr6' = [dr6 EXCEPT ![t] = @ \cup bits]
          /\ proc' = IF bits = {} THEN proc ELSE Halted
  /\ UNCHANGED <<g_dbg, op, int3, dr>>

(* A pending SIGSTOP stops a running process, traced or not. *)
DeliverSigstop ==
  /\ proc.state = "run" /\ proc.sigstop
  /\ proc' = [Halted EXCEPT !.sigstop = FALSE]
  /\ UNCHANGED <<g_dbg, op, int3, thread>>

SpawnThread(t) ==
  /\ proc.state = "run" /\ t \in Lwps \ proc.live
  /\ proc' = [proc EXCEPT !.live = @ \cup {t}]
  /\ UNCHANGED <<g_dbg, op, int3, thread>>

ExitTarget ==
  /\ "exit" \in Faults /\ proc.state # "exit"
  /\ proc' = [proc EXCEPT !.state = "exit", !.stepping = 0,
                          !.event = IF g_dbg.attached THEN "exit" ELSE "none"]
  /\ UNCHANGED <<g_dbg, op, int3, thread>>

-----------------------------------------------------------------------------
(* Helpers of the session *)

MayFail(fault) == IF fault \in Faults THEN BOOLEAN ELSE {FALSE}
Idle  == op.cmd = "none"
Ready == proc.state = "stop" /\ proc.event = "none"

BpAt(a) == {s \in BpSlots : g_dbg.breakpoints[s].active
                            /\ g_dbg.breakpoints[s].address = a}
WpAt(a) == {s \in WpSlots : g_dbg.watchpoints[s].installed
                            /\ g_dbg.watchpoints[s].address = a}
FreeBp == {s \in BpSlots : ~g_dbg.breakpoints[s].active}
FreeWp == {s \in WpSlots : ~g_dbg.watchpoints[s].installed}
SwBps  == {s \in BpSlots : g_dbg.breakpoints[s].active
                           /\ g_dbg.breakpoints[s].kind = "sw"}

(* get_threads_locked: the enumeration, in the order the kernel chooses,   *)
(* the EIO fallback to the main LWP, or no thread, which stands for an     *)
(* empty list and for a failure.                                           *)
ThreadLists ==
  {lwps \in [1..Cardinality(proc.live) -> proc.live] : Range(lwps) = proc.live}
    \cup IF "lwplist" \in Faults THEN {<<Main>>, <<>>} ELSE {}

(* The text after the original bytes of the installed breakpoints in S are *)
(* written back (uninstall_sw_breakpoint), and the table after it.         *)
Restored(S) ==
  LET inst(o) == {g_dbg.breakpoints[s].address : s \in
                    {b \in S : g_dbg.breakpoints[b].installed
                               /\ g_dbg.breakpoints[b].original = o}}
  IN (int3 \ inst("code")) \cup inst("int3")

Uninstalled(S) == [s \in BpSlots |-> IF s \in S
                     THEN [g_dbg.breakpoints[s] EXCEPT !.installed = FALSE]
                     ELSE g_dbg.breakpoints[s]]

(* install_sw_breakpoint: read the byte to keep, then write INT3. *)
Installed(bp) ==
  IF bp.installed THEN bp
  ELSE [bp EXCEPT !.installed = TRUE,
                  !.original = IF bp.address \in int3 THEN "int3" ELSE "code"]

(* What apply_dbregs_to_all(partial) may do when it gives every listed     *)
(* thread the registers want: all take it; some refuse and either the      *)
(* partial result stands or the others are rolled back.  Without a thread  *)
(* it is an error, except that a strict update of an empty list succeeds.  *)
Applied(want, T) ==
  [dr  |-> [t \in Lwps |-> IF t \in T THEN want ELSE dr[t]],
   dr6 |-> [t \in Lwps |-> IF t \in T THEN {} ELSE dr6[t]]]

apply_dbregs_to_all(want, partial) ==
  UNION {LET L == Range(lwps) IN
         IF L = {} THEN {[ok |-> o, regs |-> Applied(want, {})] : o \in {FALSE, ~partial}}
         ELSE UNION {IF refused = {} \/ (partial /\ refused # L)
                     THEN {[ok |-> TRUE, regs |-> Applied(want, L \ refused)]}
                     ELSE {[ok |-> FALSE, regs |-> Applied(want, kept)] :
                             kept \in IF "rollback" \in Faults
                                      THEN SUBSET (L \ refused) ELSE {{}}}
                     : refused \in IF "dbregs" \in Faults THEN SUBSET L ELSE {{}}}
         : lwps \in ThreadLists}

(* sync_hardware_dbregs_locked(partial) for the table wps: the registers   *)
(* of the threads, and the cached copy with its valid flag, which is read  *)
(* from the first listed thread if it was not valid before.                *)
Unsynced == [ok |-> FALSE, regs |-> Applied(NoWps, {}),
             dbregs |-> g_dbg.dbregs, valid |-> g_dbg.dbregs_valid]

sync_hardware_dbregs(wps, partial) ==
  IF ~Ready THEN {Unsynced}
  ELSE {[ok |-> r.ok, regs |-> r.regs, valid |-> TRUE,
         dbregs |-> IF r.ok THEN wps
                    ELSE IF g_dbg.dbregs_valid THEN g_dbg.dbregs ELSE dr[first]]
          : r \in apply_dbregs_to_all(wps, partial), first \in proc.live}
       \cup IF ~g_dbg.dbregs_valid /\ {"dbregs", "lwplist"} \cap Faults # {}
            THEN {Unsynced} ELSE {}

(* Take over the outcome r of a sync, with the tables bps and wps. *)
Synced(r, bps, wps) ==
  /\ g_dbg' = [g_dbg EXCEPT !.breakpoints = bps, !.watchpoints = wps,
                            !.dbregs = r.dbregs, !.dbregs_valid = r.valid]
  /\ dr' = r.regs.dr /\ dr6' = r.regs.dr6

-----------------------------------------------------------------------------
(* memdbg_debugger_attach; a refused attach leaves everything as it was. *)
Attach ==
  /\ Idle /\ ~g_dbg.attached /\ proc.state # "exit"
  /\ g_dbg' = [NoSession EXCEPT !.attached = TRUE, !.stopped = TRUE]
  /\ proc' = [proc EXCEPT !.state = "stop", !.event = "none", !.stepping = 0]
  /\ UNCHANGED <<op, int3, thread>>

(* memdbg_debugger_stop on a running target; on a stopped one it polls. *)
Stop ==
  /\ Idle /\ g_dbg.attached /\ ~g_dbg.stopped /\ proc.state # "exit"
  /\ proc' = [proc EXCEPT !.sigstop = TRUE]
  /\ UNCHANGED <<g_dbg, op, int3, thread>>

(* memdbg_debugger_poll_events with an event to consume.  The first listed *)
(* thread behind an active breakpoint decides: an unmet condition resumes  *)
(* the target, otherwise that thread is the one that stopped; without one, *)
(* DR6 tells.                                                              *)
Poll ==
  \/ /\ proc.event = "exit"
     /\ g_dbg' = NoSession
     /\ proc' = Reported
     /\ UNCHANGED <<int3, thread>>
  \/ /\ proc.event = "stop"
     /\ \E lwps \in ThreadLists :
          LET at  == {i \in DOMAIN lwps : BpAt(rip[lwps[i]] - 1) # {}}
              hit == {i \in DOMAIN lwps : \E s \in dr6[lwps[i]] \cap WpSlots :
                                            g_dbg.watchpoints[s].installed}
          IN \/ /\ at # {}
                /\ \E s \in BpAt(rip[lwps[Min(at)]] - 1) : g_dbg.breakpoints[s].conditional
                /\ g_dbg' = [g_dbg EXCEPT !.stopped = FALSE, !.stop_lwp = 0]
                /\ \E failed \in MayFail("resume") :
                     proc' = IF failed THEN Reported
                             ELSE [Resumed(0) EXCEPT !.event = "none"]
             \/ /\ g_dbg' = [g_dbg EXCEPT !.stopped = TRUE,
                               !.stop_lwp = IF at # {} THEN lwps[Min(at)]
                                            ELSE IF hit # {} THEN lwps[Min(hit)] ELSE 0]
                /\ proc' = Reported
     /\ UNCHANGED <<int3, thread>>

PollEvents ==
  /\ Idle /\ g_dbg.attached
  /\ Poll
  /\ UNCHANGED op

-----------------------------------------------------------------------------
(* step_over_sw_breakpoint_locked *)

(* clear_hardware_status_locked: rewrite a thread whose DR6 shows a hit. *)
ClearHardwareStatus(t) ==
  \E failed \in MayFail("dbregs") :
    IF failed \/ dr6[t] \cap WpSlots = {} THEN UNCHANGED <<dr, dr6>>
    ELSE /\ dr' = [dr EXCEPT ![t] = g_dbg.watchpoints]
         /\ dr6' = [dr6 EXCEPT ![t] = {}]

Rewound(t) == [rip EXCEPT ![t] = @ - 1]

SwBehind(t) == BpAt(rip[t] - 1) \cap SwBps

(* Original byte back, RIP back, PT_STEP; the wait follows in StepOver*.   *)
StepOverBegin(t, cmd, todo) ==
  \E s \in SwBehind(t) :
    /\ ClearHardwareStatus(t)
    /\ int3' = Restored({s})
    /\ g_dbg' = [g_dbg EXCEPT !.breakpoints = Uninstalled({s})]
    /\ rip' = Rewound(t)
    /\ proc' = Resumed(t)
    /\ op' = [cmd |-> cmd, todo |-> todo, lwp |-> t, slot |-> s]

(* One of its requests is refused: the byte cannot be restored, or it can  *)
(* and the registers or the step are refused, and INT3 is put back - if    *)
(* that is not refused as well.  The call returns the error.               *)
StepOverRefused(t) ==
  /\ ClearHardwareStatus(t)
  /\ \E s \in SwBehind(t) :
       \/ /\ "write" \in Faults
          /\ UNCHANGED <<g_dbg, int3, rip>>
       \/ /\ \/ "regs" \in Faults /\ UNCHANGED rip
             \/ "resume" \in Faults /\ rip' = Rewound(t)
          /\ \E failed \in MayFail("write") :
               /\ int3' = IF failed THEN Restored({s}) ELSE int3
               /\ g_dbg' = IF failed
                           THEN [g_dbg EXCEPT !.breakpoints = Uninstalled({s})]
                           ELSE g_dbg
  /\ op' = NoOp
  /\ UNCHANGED proc

(* No software breakpoint behind RIP: a plain PT_STEP, nobody waits. *)
PlainStep(t) ==
  /\ SwBehind(t) = {}
  /\ ClearHardwareStatus(t)
  /\ proc' = Resumed(t)
  /\ UNCHANGED <<int3, rip>>

(* Slip: the table is updated although INT3 was not written back. *)
ReinstalledTextSlip == int3

(* Slip: INT3 is written back but not recorded as installed. *)
ReinstalledTableSlip == g_dbg.breakpoints

(* install_sw_breakpoint of the breakpoint that was stepped over. *)
ReinstalledText  == int3 \cup {g_dbg.breakpoints[op.slot].address}
ReinstalledTable == [g_dbg.breakpoints EXCEPT ![op.slot] = Installed(@)]

(* The stop arrives: whatever thread caused it, INT3 is put back.  A       *)
(* continue goes on with its next thread, unless DR6 shows a watchpoint    *)
(* hit without the single-step bit; a step is over.                        *)
StepOverStopped ==
  LET t == op.lwp
      sawHit == BS \notin dr6[t]
                /\ \E s \in WpSlots : s \in dr6[t] /\ g_dbg.watchpoints[s].installed
  IN /\ op.cmd \in {"continue wait", "step wait"} /\ proc.event = "stop"
     /\ proc' = Reported
     /\ \/ /\ "write" \in Faults
           /\ op' = NoOp
           /\ UNCHANGED <<g_dbg, int3>>
        \/ /\ int3' = ReinstalledText
           /\ \E watch_hit \in {sawHit} \cup (IF "dbregs" \in Faults THEN {FALSE} ELSE {}) :
                IF op.cmd = "step wait" \/ watch_hit
                THEN /\ op' = NoOp
                     /\ g_dbg' = [g_dbg EXCEPT !.breakpoints = ReinstalledTable,
                                               !.stopped = TRUE, !.stop_lwp = t]
                ELSE /\ op' = [NoOp EXCEPT !.cmd = "continue", !.todo = op.todo]
                     /\ g_dbg' = [g_dbg EXCEPT !.breakpoints = ReinstalledTable]
     /\ UNCHANGED thread

(* No stop within 5 s (the instruction blocks): SIGSTOP, and whichever     *)
(* stop comes first ends the wait; the call returns MEMDBG_ERR_STATE.      *)
StepOverForced ==
  /\ "timeout" \in Faults
  /\ op.cmd \in {"continue wait", "step wait"} /\ proc.state = "run"
  /\ \E pending \in BOOLEAN :
       proc' = [Halted EXCEPT !.event = "none", !.sigstop = pending]
  /\ \/ /\ "write" \in Faults
        /\ UNCHANGED <<g_dbg, int3>>
     \/ /\ int3' = ReinstalledText
        /\ g_dbg' = [g_dbg EXCEPT !.breakpoints = ReinstalledTable]
  /\ op' = NoOp
  /\ UNCHANGED thread

(* Not even SIGSTOP, whose result is ignored, brings a stop within another *)
(* 5 s: the call returns with the INT3 lifted and the target running.      *)
StepOverGivesUp ==
  /\ "hang" \in Faults
  /\ op.cmd \in {"continue wait", "step wait"} /\ proc.state = "run"
  /\ \E pending \in {TRUE, proc.sigstop} : proc' = [proc EXCEPT !.sigstop = pending]
  /\ op' = NoOp
  /\ UNCHANGED <<g_dbg, int3, thread>>

(* The target exits instead: the wait loops swallow its exit status. *)
StepOverExited ==
  /\ op.cmd \in {"continue wait", "step wait"} /\ proc.event = "exit"
  /\ proc' = Reported
  /\ op' = NoOp
  /\ UNCHANGED <<g_dbg, int3, thread>>

(* memdbg_debugger_step(t) *)
Step(t) ==
  /\ Idle /\ g_dbg.attached /\ Ready /\ t \in proc.live
  /\ \/ StepOverBegin(t, "step wait", <<>>)
     \/ StepOverRefused(t)
     \/ /\ PlainStep(t)
        /\ g_dbg' = [g_dbg EXCEPT !.stopped = FALSE, !.stop_lwp = 0]
        /\ UNCHANGED op

-----------------------------------------------------------------------------
(* memdbg_debugger_continue *)

(* Slip: the registers are trusted to be as they were set. *)
MustRearmSlip == FALSE

MustRearm == FreeWp # WpSlots

(* Slip: the resumed session still counts as stopped. *)
RunningSlip == [g_dbg EXCEPT !.stop_lwp = 0]

Running == [g_dbg EXCEPT !.stopped = FALSE, !.stop_lwp = 0]

(* Re-arm every thread if a watchpoint is installed, whatever comes of it, *)
(* and list the threads.  On a target that is not stopped it is refused.   *)
Continue ==
  /\ Idle /\ g_dbg.attached /\ Ready
  /\ IF MustRearm
     THEN \E r \in sync_hardware_dbregs(g_dbg.watchpoints, TRUE) :
            Synced(r, g_dbg.breakpoints, g_dbg.watchpoints)
     ELSE UNCHANGED <<g_dbg, dr, dr6>>
  /\ \E lwps \in ThreadLists : op' = [NoOp EXCEPT !.cmd = "continue", !.todo = lwps]
  /\ UNCHANGED <<proc, rip, int3>>

NeedsStepOver(t) == Ready /\ BpAt(rip[t] - 1) # {}

ContinueThread ==
  /\ op.cmd = "continue" /\ op.todo # <<>>
  /\ LET t    == Head(op.todo)
         rest == Tail(op.todo)
     IN \/ /\ ~NeedsStepOver(t) \/ "regs" \in Faults
           /\ op' = [op EXCEPT !.todo = rest]
           /\ UNCHANGED <<g_dbg, proc, int3, thread>>
        \/ /\ NeedsStepOver(t)
           /\ \/ StepOverBegin(t, "continue wait", rest)
              \/ StepOverRefused(t)
              \/ /\ PlainStep(t)
                 /\ op' = [op EXCEPT !.todo = rest]
                 /\ UNCHANGED g_dbg

ContinueResume ==
  /\ op.cmd = "continue" /\ op.todo = <<>>
  /\ op' = NoOp
  /\ \/ /\ Ready
        /\ proc' = Resumed(0)
        /\ g_dbg' = Running
     \/ /\ ~Ready \/ "resume" \in Faults
        /\ UNCHANGED <<proc, g_dbg>>
  /\ UNCHANGED <<int3, thread>>

-----------------------------------------------------------------------------
(* memdbg_debugger_detach *)

(* A running target is stopped first; the mutex stays held. *)
DetachStop ==
  /\ Idle /\ g_dbg.attached /\ ~g_dbg.stopped /\ proc.state # "exit"
  /\ proc' = [proc EXCEPT !.sigstop = TRUE]
  /\ op' = [NoOp EXCEPT !.cmd = "detach"]
  /\ UNCHANGED <<g_dbg, int3, thread>>

DetachPoll ==
  /\ op.cmd = "detach" /\ ~g_dbg.stopped
  /\ Poll
  /\ op' = IF g_dbg'.attached THEN op ELSE NoOp

(* Slip: the wait for the stop has no time limit. *)
DetachGivesUpSlip == FALSE

DetachGivesUp ==
  /\ op.cmd = "detach" /\ ~g_dbg.stopped /\ "timeout" \in Faults
  /\ op' = NoOp
  /\ UNCHANGED <<g_dbg, proc, int3, thread>>

(* apply_dbregs_to_all(false) with zeroed registers, if they were used. *)
DetachRegs == IF g_dbg.dbregs_valid /\ Ready
              THEN apply_dbregs_to_all(NoWps, FALSE) ELSE {Unsynced}

(* Restore all software breakpoints; any failure keeps the session.  Then  *)
(* clear the debug registers if they were ever used, ignoring the result,  *)
(* and PT_DETACH, which resumes the target; its failure keeps the session. *)
DetachNow ==
  /\ Idle \/ op.cmd = "detach"
  /\ g_dbg.attached /\ g_dbg.stopped
  /\ op' = NoOp
  /\ \E stuck \in IF proc.state = "exit" THEN {SwBps}
                  ELSE IF "write" \in Faults THEN SUBSET SwBps ELSE {{}} :
       LET kept == {s \in stuck : g_dbg.breakpoints[s].installed}
       IN /\ int3' = Restored(SwBps \ kept)
          /\ IF kept = {}
             THEN /\ \E r \in DetachRegs : dr' = r.regs.dr /\ dr6' = r.regs.dr6
                  /\ \/ /\ Ready
                        /\ g_dbg' = NoSession
                        /\ proc' = Resumed(0)
                     \/ /\ ~Ready \/ "resume" \in Faults
                        /\ g_dbg' = [g_dbg EXCEPT !.breakpoints = Uninstalled(SwBps),
                                                  !.dbregs = NoWps]
                        /\ UNCHANGED proc
             ELSE /\ g_dbg' = [g_dbg EXCEPT !.breakpoints = Uninstalled(SwBps \ kept)]
                  /\ UNCHANGED <<proc, dr, dr6>>
  /\ UNCHANGED rip

-----------------------------------------------------------------------------
(* Breakpoints and watchpoints *)

SetSwBreakpoint(a, conditional) ==
  /\ Idle /\ g_dbg.attached /\ BpAt(a) = {} /\ FreeBp # {} /\ proc.state # "exit"
  /\ LET bp == [ZeroBp EXCEPT !.active = TRUE, !.address = a,
                              !.conditional = conditional]
     IN g_dbg' = [g_dbg EXCEPT !.breakpoints[Min(FreeBp)] = Installed(bp)]
  /\ int3' = int3 \cup {a}
  /\ UNCHANGED <<op, proc, thread>>

(* A hardware breakpoint takes a slot of both tables. *)
SetHwBreakpoint(a) ==
  /\ Idle /\ g_dbg.attached /\ BpAt(a) = {} /\ FreeBp # {} /\ FreeWp # {}
  /\ LET bps == [g_dbg.breakpoints EXCEPT ![Min(FreeBp)] =
                   [ZeroBp EXCEPT !.active = TRUE, !.address = a, !.kind = "hw"]]
         wps == [g_dbg.watchpoints EXCEPT ![Min(FreeWp)] =
                   [installed |-> TRUE, address |-> a, type |-> "exec"]]
     IN \E r \in sync_hardware_dbregs(wps, TRUE) :
          IF r.ok THEN Synced(r, bps, wps)
          ELSE Synced(r, g_dbg.breakpoints, g_dbg.watchpoints)
  /\ UNCHANGED <<op, proc, rip, int3>>

ClearBreakpoint(a) ==
  /\ Idle /\ g_dbg.attached
  /\ \E s \in BpAt(a) :
       LET bps == [g_dbg.breakpoints EXCEPT ![s] = ZeroBp]
       IN \/ /\ s \in SwBps /\ proc.state # "exit"
             /\ int3' = Restored({s})
             /\ g_dbg' = [g_dbg EXCEPT !.breakpoints = bps]
             /\ UNCHANGED <<dr, dr6>>
          \/ /\ s \notin SwBps /\ UNCHANGED int3
             /\ IF WpAt(a) = {}
                THEN /\ g_dbg' = [g_dbg EXCEPT !.breakpoints = bps]
                     /\ UNCHANGED <<dr, dr6>>
                ELSE LET wps == [g_dbg.watchpoints EXCEPT ![Min(WpAt(a))] = ZeroWp]
                     IN \E r \in sync_hardware_dbregs(wps, FALSE) :
                          IF r.ok THEN Synced(r, bps, wps)
                          ELSE Synced(r, g_dbg.breakpoints, g_dbg.watchpoints)
  /\ UNCHANGED <<op, proc, rip>>

(* Every failure is ignored: the tables are emptied in any case. *)
ClearAllBreakpoints ==
  /\ Idle /\ g_dbg.attached /\ FreeBp # BpSlots
  /\ LET hw  == {Min(WpAt(a)) : a \in {g_dbg.breakpoints[s].address :
                                       s \in (BpSlots \ FreeBp) \ SwBps} \ {b \in Insns : WpAt(b) = {}}}
         wps == [s \in WpSlots |-> IF s \in hw THEN ZeroWp ELSE g_dbg.watchpoints[s]]
     IN /\ \E r \in sync_hardware_dbregs(wps, FALSE) :
             Synced(r, NoSession.breakpoints, wps)
        /\ \E stuck \in IF proc.state = "exit" THEN {SwBps}
                        ELSE IF "write" \in Faults THEN SUBSET SwBps ELSE {{}} :
             int3' = Restored(SwBps \ stuck)
  /\ UNCHANGED <<op, proc, rip>>

SetWatchpoint(a) ==
  /\ Idle /\ g_dbg.attached /\ WpAt(a) = {} /\ FreeWp # {}
  /\ LET wps == [g_dbg.watchpoints EXCEPT ![Min(FreeWp)] =
                   [installed |-> TRUE, address |-> a, type |-> "data"]]
     IN \E r \in sync_hardware_dbregs(wps, TRUE) :
          Synced(r, g_dbg.breakpoints, IF r.ok THEN wps ELSE g_dbg.watchpoints)
  /\ UNCHANGED <<op, proc, rip, int3>>

(* Slip: a refused sync does not bring the table entries back. *)
TableAfterSlip(r, wps) == wps

TableAfter(r, wps) == IF r.ok THEN wps ELSE g_dbg.watchpoints

(* memdbg_debugger_clear_watchpoint, and ..._clear_all_watchpoints. *)
ClearWatchpoints(S) ==
  /\ Idle /\ g_dbg.attached /\ S # {}
  /\ LET wps == [s \in WpSlots |-> IF s \in S THEN ZeroWp ELSE g_dbg.watchpoints[s]]
     IN \E r \in sync_hardware_dbregs(wps, FALSE) :
          Synced(r, g_dbg.breakpoints, TableAfter(r, wps))
  /\ UNCHANGED <<op, proc, rip, int3>>

(* memdbg_debugger_set_regs, to move RIP to an instruction. *)
SetRip(t, a) ==
  /\ Idle /\ g_dbg.attached /\ Ready /\ t \in proc.live
  /\ rip' = [rip EXCEPT ![t] = a]
  /\ UNCHANGED <<g_dbg, op, proc, int3, dr, dr6>>

(* memdbg_debugger_set_dbregs: the client's registers, which need not be   *)
(* those of the table, also become the cached copy.                        *)
ClientRegisters ==
  [WpSlots -> {ZeroWp} \cup [installed: {TRUE}, address: WatchAddrs, type: {"data"}]]

SetDbregs(t, want) ==
  /\ Idle /\ g_dbg.attached /\ Ready /\ t \in proc.live
  /\ dr' = [dr EXCEPT ![t] = want] /\ dr6' = [dr6 EXCEPT ![t] = {}]
  /\ g_dbg' = [g_dbg EXCEPT !.dbregs = want, !.dbregs_valid = TRUE]
  /\ UNCHANGED <<op, proc, rip, int3>>

-----------------------------------------------------------------------------
TargetNext == \/ \E t \in Lwps : Trap(t) \/ Execute(t) \/ SpawnThread(t)
              \/ DeliverSigstop \/ ExitTarget

(* What the holder of g_dbg_mtx does next. *)
OpNext == \/ StepOverStopped \/ StepOverForced \/ StepOverGivesUp \/ StepOverExited
          \/ ContinueThread \/ ContinueResume
          \/ DetachPoll \/ DetachGivesUp
          \/ op.cmd = "detach" /\ DetachNow

Sent(command) == command \in Commands

CommandNext ==
  \/ Sent("attach") /\ Attach
  \/ Sent("stop") /\ Stop
  \/ Sent("poll") /\ PollEvents
  \/ Sent("continue") /\ Continue
  \/ Sent("step") /\ \E t \in Lwps : Step(t)
  \/ Sent("detach") /\ (DetachStop \/ (Idle /\ DetachNow))
  \/ Sent("set sw") /\ \E a \in Insns : SetSwBreakpoint(a, FALSE)
  \/ Sent("set cond") /\ \E a \in Insns : SetSwBreakpoint(a, TRUE)
  \/ Sent("set hw") /\ \E a \in Insns : SetHwBreakpoint(a)
  \/ Sent("clear") /\ \E a \in Insns : ClearBreakpoint(a)
  \/ Sent("clear all") /\ ClearAllBreakpoints
  \/ Sent("watch") /\ \E a \in WatchAddrs : SetWatchpoint(a)
  \/ Sent("unwatch") /\ \E a \in WatchAddrs \cup Insns :
                          WpAt(a) # {} /\ ClearWatchpoints({Min(WpAt(a))})
  \/ Sent("unwatch all") /\ ClearWatchpoints(WpSlots \ FreeWp)
  \/ Sent("set rip") /\ \E t \in Lwps, a \in Insns : SetRip(t, a)
  \/ Sent("set dbregs") /\ \E t \in Lwps, want \in ClientRegisters : SetDbregs(t, want)

Next == TargetNext \/ OpNext \/ CommandNext

Spec == Init /\ [][Next]_vars

(***************************************************************************)
(* The kernel schedules the threads and delivers SIGSTOP, and a call that  *)
(* holds the mutex goes on, for 5 s at most where it waits for a stop; no  *)
(* client is obliged to send a command.                                    *)
(***************************************************************************)
FairSpec ==
  /\ Spec
  /\ \A t \in Lwps : SF_vars(Trap(t) \/ Execute(t))
  /\ SF_vars(DeliverSigstop) /\ WF_vars(OpNext) /\ WF_vars(DetachGivesUp)

-----------------------------------------------------------------------------
(* Properties *)

Alive == proc.state # "exit"

(* The program text and the breakpoint table tell the same story at every  *)
(* instant, also between the two halves of a step-over and whichever       *)
(* request the platform refuses: an INT3 is in memory exactly where an     *)
(* active software breakpoint is installed, and the byte kept for it is    *)
(* the program's own.                                                      *)
(* The variables also keep their types.                                    *)
TextIntact ==
  /\ TypeOK
  /\ Alive => /\ int3 = {g_dbg.breakpoints[s].address :
                           s \in {b \in SwBps : g_dbg.breakpoints[b].installed}}
              /\ \A s \in SwBps : g_dbg.breakpoints[s].original = "code"

(* g_dbg.stopped is what memdbg_debugger_detach trusts before it patches   *)
(* the text: when it is set and nobody holds the mutex, the target is not  *)
(* running, unless a step over gave up on a target that cannot be stopped. *)
StoppedIsTrue == Idle /\ g_dbg.attached /\ g_dbg.stopped => proc.state # "run"

(* Unless a request is refused or a step over gives up, every active       *)
(* software breakpoint is planted at every instant, except the one that    *)
(* the call under way is stepping over.                                    *)
BreakpointsArmed ==
  Alive => \A s \in SwBps : \/ g_dbg.breakpoints[s].installed
                             \/ /\ op.cmd \in {"continue wait", "step wait"}
                                /\ op.slot = s

(* A thread executes an instruction that carries an active software        *)
(* breakpoint only when the debugger is stepping that very thread over it. *)
BreakpointsHonoured ==
  [][\A t \in Lwps : Execute(t) /\ BpAt(rip[t]) \cap SwBps # {}
                       => proc.stepping = t]_vars

(* Whoever holds g_dbg_mtx across steps of the target gives it back: the   *)
(* daemon's other clients are not locked out.                              *)
MutexReleased == op.cmd # "none" ~> op.cmd = "none"

(* An armed debug register is always one the watchpoint table knows, in    *)
(* every thread, whichever threads refuse PT_SETDBREGS; in particular none *)
(* is left once the session is over.  (Clients that write the registers    *)
(* themselves are left out.)                                               *)
NoGhost ==
  Alive => \A t \in proc.live, s \in WpSlots :
             dr[t][s].installed => g_dbg.watchpoints[s] = dr[t][s]

(* When memdbg_debugger_continue sets out to resume the target and there   *)
(* is a watchpoint, every thread holds exactly those of the table, threads *)
(* born while the target last ran and threads whose registers a client     *)
(* wrote included (a thread born while continue itself steps over a        *)
(* breakpoint has to wait for the next one).                               *)
ArmedOnResume ==
  [][Continue /\ FreeWp # WpSlots
       => \A t \in proc.live : dr'[t] = g_dbg.watchpoints]_vars
=============================================================================
