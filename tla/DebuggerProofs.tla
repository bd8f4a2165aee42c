--------------------------- MODULE DebuggerProofs ---------------------------
(***************************************************************************)
(* Proofs about the debugger session, for any numbers of threads,          *)
(* breakpoints and watchpoints and any program.  Each theorem names the    *)
(* commands and refused requests without which it holds.                   *)
(***************************************************************************)
EXTENDS Debugger, FiniteSetTheorems, NaturalsInduction, TLAPS

bps == g_dbg.breakpoints
wps == g_dbg.watchpoints

Tables == [BpSlots -> Breakpoint]

(* The software breakpoints of a table b, and where it has INT3 installed. *)
Sw(b) == {s \in BpSlots : b[s].active = TRUE /\ b[s].kind = "sw"}
Planted(b) == {b[s].address : s \in {u \in Sw(b) : b[u].installed = TRUE}}

(* A table has at most one breakpoint at an instruction, and only software *)
(* breakpoints are installed in the text.                                  *)
Sound(b) ==
  /\ \A s, u \in BpSlots :
       b[s].active = TRUE /\ b[u].active = TRUE /\ b[s].address = b[u].address => s = u
  /\ \A s \in BpSlots : b[s].active = TRUE => b[s].address \in Insns
  /\ \A s \in BpSlots : b[s].installed = TRUE => s \in Sw(b)

(* The text i has INT3 where the table says so, and the table remembers    *)
(* the program's own bytes.                                                *)
Agrees(b, i) == i = Planted(b) /\ \A s \in Sw(b) : b[s].original = "code"

Waiting == op.cmd \in {"continue wait", "step wait"}

(* The table and the call that holds the mutex. *)
TableInv ==
  /\ Sound(bps)
  /\ g_dbg.attached = FALSE => \A s \in BpSlots : bps[s].active = FALSE
  /\ op.cmd # "none" => g_dbg.attached = TRUE
  /\ op.cmd = "detach" => Sent("detach")
  /\ Waiting => op.slot \in Sw(bps) /\ bps[op.slot].installed = FALSE /\ op.lwp \in Lwps

(* The run state, the unreported event and the thread under PT_STEP. *)
ProcInv ==
  /\ proc.event = "stop" => proc.state = "stop"
  /\ proc.event = "exit" => proc.state = "exit"
  /\ Main \in proc.live
  /\ Waiting /\ proc.state = "run" => proc.stepping = op.lwp

CoreInv == TypeOK /\ TableInv /\ ProcInv

-----------------------------------------------------------------------------
(* Constants and records *)

LEMMA MinIn ==
  ASSUME NEW S \in SUBSET Nat, S # {}
  PROVE  Min(S) \in S
<1>1. PICK x \in S : \A y \in S : ~ (<<y, x>> \in OpToRel(<, Nat))
  BY NatLessThanWellFounded, WFMin, Zenon
<1>2. \A y \in S : ~ (y < x)
  BY <1>1, Zenon DEF OpToRel
<1>3. \A y \in S : x <= y
  BY <1>2
<1> QED
  BY <1>3 DEF Min

LEMMA InsnsFacts ==
  /\ Insns \subseteq Nat \ {0} /\ Min(Insns) \in Insns
  /\ \A a : Flow(a) \in Insns
<1>1. Insns \subseteq Nat \ {0} /\ Insns # {}
  BY DebuggerAssumption
<1>2. Min(Insns) \in Insns
  BY <1>1, MinIn
<1>3. ASSUME NEW a PROVE Flow(a) \in Insns
  <2>1. CASE \E b \in Insns : b > a
    <3>1. {b \in Insns : b > a} \in SUBSET Nat /\ {b \in Insns : b > a} # {}
      BY <2>1, <1>1
    <3>2. Min({b \in Insns : b > a}) \in {b \in Insns : b > a}
      BY <3>1, MinIn
    <3> QED
      BY <2>1, <3>2 DEF Flow
  <2>2. CASE ~ \E b \in Insns : b > a
    BY <2>2, <1>2 DEF Flow
  <2> QED
    BY <2>1, <2>2
<1> QED
  BY <1>1, <1>2, <1>3

LEMMA ZeroBpFacts ==
  /\ ZeroBp \in Breakpoint
  /\ ZeroBp.active = FALSE /\ ZeroBp.installed = FALSE /\ ZeroBp.kind = "sw"
  /\ ZeroBp.original = "code" /\ ZeroBp.conditional = FALSE
BY DEF ZeroBp, Breakpoint

LEMMA ZeroWpFacts ==
  /\ ZeroWp \in Watchpoint /\ ZeroWp.installed = FALSE
  /\ NoWps \in Registers /\ \A s \in WpSlots : NoWps[s] = ZeroWp
BY DEF ZeroWp, Watchpoint, NoWps, Registers

LEMMA BpFields ==
  ASSUME NEW r \in Breakpoint
  PROVE  /\ r.active \in BOOLEAN /\ r.address \in Insns \cup {0} /\ r.kind \in {"sw", "hw"}
         /\ r.installed \in BOOLEAN /\ r.original \in {"code", "int3"}
         /\ r.conditional \in BOOLEAN
BY DEF Breakpoint

LEMMA SessionFields ==
  ASSUME NEW g \in Session
  PROVE  /\ g.attached \in BOOLEAN /\ g.stopped \in BOOLEAN /\ g.stop_lwp \in Lwps \cup {0}
         /\ g.breakpoints \in Tables /\ g.watchpoints \in Registers
         /\ g.dbregs \in Registers /\ g.dbregs_valid \in BOOLEAN
BY DEF Session, Tables

LEMMA NoSessionFacts ==
  /\ NoSession \in Session
  /\ NoSession.attached = FALSE /\ NoSession.stopped = FALSE
  /\ NoSession.breakpoints \in Tables
  /\ \A s \in BpSlots : NoSession.breakpoints[s] = ZeroBp
  /\ NoSession.watchpoints = NoWps /\ NoSession.dbregs_valid = FALSE
<1>1. [s \in BpSlots |-> ZeroBp] \in Tables
  BY ZeroBpFacts DEF Tables
<1> DEFINE b == [s \in BpSlots |-> ZeroBp]
<1>2. \A s \in BpSlots : b[s] = ZeroBp
  OBVIOUS
<1>3. b \in Tables
  BY <1>1
<1>4. NoSession = [attached |-> FALSE, stopped |-> FALSE, stop_lwp |-> 0,
                   breakpoints |-> b, watchpoints |-> NoWps, dbregs |-> NoWps,
                   dbregs_valid |-> FALSE]
  BY DEF NoSession
<1> HIDE DEF b
<1> QED
  BY <1>2, <1>3, <1>4, ZeroWpFacts DEF Session, Tables

LEMMA CallFields ==
  ASSUME NEW o \in Call
  PROVE  /\ o.cmd \in {"none", "continue", "continue wait", "step wait", "detach"}
         /\ o.todo \in Seq(Lwps) /\ o.lwp \in Lwps \cup {0} /\ o.slot \in BpSlots \cup {0}
BY DEF Call

LEMMA NoOpFacts ==
  /\ NoOp \in Call /\ NoOp.cmd = "none"
  /\ \A l \in Seq(Lwps) : /\ [NoOp EXCEPT !.cmd = "continue", !.todo = l] \in Call
                          /\ [NoOp EXCEPT !.cmd = "continue", !.todo = l].cmd = "continue"
                          /\ [NoOp EXCEPT !.cmd = "continue", !.todo = l].todo = l
  /\ [NoOp EXCEPT !.cmd = "detach"] \in Call
  /\ [NoOp EXCEPT !.cmd = "detach"].cmd = "detach"
<1>1. <<>> \in Seq(Lwps)
  OBVIOUS
<1> QED
  BY <1>1 DEF NoOp, Call

LEMMA ProcFields ==
  ASSUME NEW p \in Process
  PROVE  /\ p.state \in {"run", "stop", "exit"} /\ p.event \in {"none", "stop", "exit"}
         /\ p.sigstop \in BOOLEAN /\ p.stepping \in Lwps \cup {0} /\ p.live \in SUBSET Lwps
BY DEF Process

(* The changes of the process the session and the target make. *)
LEMMA ProcMoves ==
  ASSUME proc \in Process
  PROVE  /\ \A l \in Lwps \cup {0} :
              /\ Resumed(l) \in Process
              /\ Resumed(l).state = "run" /\ Resumed(l).stepping = l
              /\ Resumed(l).event = proc.event /\ Resumed(l).live = proc.live
              /\ [Resumed(l) EXCEPT !.event = "none"] \in Process
              /\ [Resumed(l) EXCEPT !.event = "none"].event = "none"
              /\ [Resumed(l) EXCEPT !.event = "none"].state = "run"
              /\ [Resumed(l) EXCEPT !.event = "none"].stepping = l
              /\ [Resumed(l) EXCEPT !.event = "none"].live = proc.live
         /\ Reported \in Process /\ Reported.event = "none"
         /\ Reported.state = proc.state /\ Reported.live = proc.live
         /\ Reported.stepping = proc.stepping
         /\ Halted \in Process /\ Halted.state = "stop" /\ Halted.stepping = 0
         /\ Halted.event \in {"stop", "none"} /\ Halted.live = proc.live
         /\ g_dbg.attached = TRUE => Halted.event = "stop"
<1>1. ASSUME NEW l \in Lwps \cup {0}
      PROVE  /\ Resumed(l) \in Process
             /\ Resumed(l).state = "run" /\ Resumed(l).stepping = l
             /\ Resumed(l).event = proc.event /\ Resumed(l).live = proc.live
  BY DEF Resumed, Process
<1>2. ASSUME NEW l \in Lwps \cup {0}
      PROVE  /\ [Resumed(l) EXCEPT !.event = "none"] \in Process
             /\ [Resumed(l) EXCEPT !.event = "none"].event = "none"
             /\ [Resumed(l) EXCEPT !.event = "none"].state = "run"
             /\ [Resumed(l) EXCEPT !.event = "none"].stepping = l
             /\ [Resumed(l) EXCEPT !.event = "none"].live = proc.live
  BY <1>1 DEF Process
<1>3. /\ Reported \in Process /\ Reported.event = "none"
      /\ Reported.state = proc.state /\ Reported.live = proc.live
      /\ Reported.stepping = proc.stepping
  BY DEF Reported, Process
<1>4. /\ Halted \in Process /\ Halted.state = "stop" /\ Halted.stepping = 0
      /\ Halted.event \in {"stop", "none"} /\ Halted.live = proc.live
      /\ g_dbg.attached = TRUE => Halted.event = "stop"
  <2>1. PICK e : e = IF g_dbg.attached THEN "stop" ELSE "none"
    OBVIOUS
  <2>2. e \in {"stop", "none"} /\ (g_dbg.attached = TRUE => e = "stop")
    BY <2>1
  <2>3. Halted = [proc EXCEPT !.state = "stop", !.stepping = 0, !.event = e]
    BY <2>1 DEF Halted
  <2> QED
    BY <2>2, <2>3 DEF Process
<1> QED
  BY <1>1, <1>2, <1>3, <1>4
-----------------------------------------------------------------------------
(* The breakpoint table *)

LEMMA TableFacts ==
  ASSUME g_dbg \in Session
  PROVE  /\ bps \in Tables /\ SwBps = Sw(bps) /\ FreeBp \in SUBSET BpSlots
         /\ \A s \in BpSlots : bps[s] \in Breakpoint
         /\ \A s \in FreeBp : bps[s].active = FALSE
         /\ FreeBp # {} => Min(FreeBp) \in FreeBp
         /\ \A a : BpAt(a) = {s \in BpSlots : bps[s].active = TRUE /\ bps[s].address = a}
<1>1. bps \in Tables
  BY SessionFields DEF bps
<1>2. \A s \in BpSlots : bps[s] \in Breakpoint
  BY <1>1 DEF Tables
<1>3. \A s \in BpSlots : bps[s].active \in BOOLEAN
  BY <1>2, BpFields
<1>4. SwBps = Sw(bps)
  BY <1>3 DEF SwBps, Sw, bps
<1>5. FreeBp \in SUBSET BpSlots /\ \A s \in FreeBp : bps[s].active = FALSE
  BY <1>3 DEF FreeBp, bps
<1>6. FreeBp # {} => Min(FreeBp) \in FreeBp
  <2>1. BpSlots \subseteq Nat
    BY DebuggerAssumption DEF BpSlots
  <2> QED
    BY <2>1, <1>5, MinIn
<1>7. \A a : BpAt(a) = {s \in BpSlots : bps[s].active = TRUE /\ bps[s].address = a}
  BY <1>3 DEF BpAt, bps
<1> QED
  BY <1>1, <1>2, <1>4, <1>5, <1>6, <1>7

LEMMA PlantedAt ==
  \A b, a : a \in Planted(b) <=> \E s \in Sw(b) : b[s].installed = TRUE /\ a = b[s].address
BY DEF Planted

(* uninstall_sw_breakpoint, of any of them *)
LEMMA Uninstalling ==
  ASSUME g_dbg \in Session, Sound(bps), NEW S \in SUBSET Sw(bps)
  PROVE  /\ Uninstalled(S) \in Tables /\ Sound(Uninstalled(S))
         /\ Sw(Uninstalled(S)) = Sw(bps)
         /\ \A s \in BpSlots :
              /\ Uninstalled(S)[s].active = bps[s].active
              /\ Uninstalled(S)[s].address = bps[s].address
              /\ Uninstalled(S)[s].kind = bps[s].kind
              /\ Uninstalled(S)[s].original = bps[s].original
              /\ Uninstalled(S)[s].conditional = bps[s].conditional
              /\ s \in S => Uninstalled(S)[s].installed = FALSE
              /\ s \notin S => Uninstalled(S)[s].installed = bps[s].installed
<1> PICK b : b = Uninstalled(S)
  OBVIOUS
<1>1. \A s \in BpSlots : bps[s] \in Breakpoint
  BY TableFacts
<1>2. ASSUME NEW s \in BpSlots
      PROVE  /\ b[s] \in Breakpoint
             /\ b[s].active = bps[s].active /\ b[s].address = bps[s].address
             /\ b[s].kind = bps[s].kind /\ b[s].original = bps[s].original
             /\ b[s].conditional = bps[s].conditional
             /\ s \in S => b[s].installed = FALSE
             /\ s \notin S => b[s].installed = bps[s].installed
  <2>1. b[s] = IF s \in S THEN [bps[s] EXCEPT !.installed = FALSE] ELSE bps[s]
    BY DEF Uninstalled, bps
  <2>2. [bps[s] EXCEPT !.installed = FALSE] \in Breakpoint
    BY <1>1 DEF Breakpoint
  <2>3. /\ [bps[s] EXCEPT !.installed = FALSE].active = bps[s].active
        /\ [bps[s] EXCEPT !.installed = FALSE].address = bps[s].address
        /\ [bps[s] EXCEPT !.installed = FALSE].kind = bps[s].kind
        /\ [bps[s] EXCEPT !.installed = FALSE].original = bps[s].original
        /\ [bps[s] EXCEPT !.installed = FALSE].conditional = bps[s].conditional
        /\ [bps[s] EXCEPT !.installed = FALSE].installed = FALSE
    BY <1>1 DEF Breakpoint
  <2>4. CASE s \in S
    BY <2>1, <2>2, <2>3, <2>4
  <2>5. CASE s \notin S
    BY <2>1, <2>5, <1>1
  <2> QED
    BY <2>4, <2>5
<1>3. b \in Tables
  <2>1. b = [s \in BpSlots |-> b[s]]
    BY DEF Uninstalled
  <2> QED
    BY <2>1, <1>2 DEF Tables
<1>4. Sw(b) = Sw(bps)
  <2>1. \A s \in BpSlots : b[s].active = bps[s].active /\ b[s].kind = bps[s].kind
    BY <1>2
  <2> QED
    BY <2>1 DEF Sw
<1>5. Sound(b)
  <2>1. \A s \in BpSlots : b[s].installed = TRUE => s \notin S
    BY <1>2
  <2>2. \A s \in BpSlots : b[s].installed = TRUE => bps[s].installed = TRUE
    BY <1>2, <2>1
  <2>3. \A s \in BpSlots : b[s].active = bps[s].active /\ b[s].address = bps[s].address
    BY <1>2
  <2> QED
    BY <2>2, <2>3, <1>4 DEF Sound
<1> QED
  BY <1>2, <1>3, <1>4, <1>5

(* The text after it. *)
LEMMA Restoring ==
  ASSUME g_dbg \in Session, Sound(bps), NEW S \in SUBSET Sw(bps), Agrees(bps, int3)
  PROVE  Agrees(Uninstalled(S), Restored(S))
<1> PICK b : b = Uninstalled(S)
  OBVIOUS
<1>1. /\ Sw(b) = Sw(bps)
      /\ \A s \in BpSlots : /\ b[s].address = bps[s].address
                            /\ b[s].original = bps[s].original
                            /\ s \in S => b[s].installed = FALSE
                            /\ s \notin S => b[s].installed = bps[s].installed
  BY Uninstalling
<1>2. S \subseteq BpSlots /\ Sw(bps) \subseteq BpSlots
  BY DEF Sw
<1>3. \A s \in BpSlots : bps[s].installed \in BOOLEAN /\ bps[s] \in Breakpoint
  BY TableFacts, BpFields
<1> DEFINE Out == {bps[s].address : s \in {u \in S : bps[u].installed = TRUE}}
<1>4. Restored(S) = int3 \ Out
  <2>1. \A u \in S : bps[u].original = "code"
    BY DEF Agrees
  <2>2. {bps[s].address : s \in {u \in S : bps[u].installed /\ bps[u].original = "int3"}} = {}
    BY <2>1
  <2>3. {bps[s].address : s \in {u \in S : bps[u].installed /\ bps[u].original = "code"}} = Out
    BY <2>1, <1>2, <1>3
  <2> QED
    BY <2>2, <2>3 DEF Restored, bps
<1>5. Planted(b) = Planted(bps) \ Out
  <2>1. ASSUME NEW a \in Planted(b) PROVE a \in Planted(bps) \ Out
    <3>1. PICK s \in Sw(bps) : b[s].installed = TRUE /\ a = bps[s].address
      BY <1>1, <1>2 DEF Planted
    <3>2. s \notin S /\ bps[s].installed = TRUE
      BY <3>1, <1>1, <1>2
    <3>3. ASSUME NEW u \in S, bps[u].address = a PROVE FALSE
      <4>1. bps[u].active = TRUE /\ bps[s].active = TRUE
        BY <3>1 DEF Sw
      <4> QED
        BY <4>1, <3>1, <3>2, <3>3, <1>2 DEF Sound
    <3> QED
      BY <3>1, <3>2, <3>3 DEF Planted
  <2>2. ASSUME NEW a \in Planted(bps), a \notin Out PROVE a \in Planted(b)
    <3>1. PICK s \in Sw(bps) : bps[s].installed = TRUE /\ a = bps[s].address
      BY DEF Planted
    <3>2. s \notin S
      BY <3>1, <2>2
    <3> QED
      BY <3>1, <3>2, <1>1, <1>2 DEF Planted
  <2> QED
    BY <2>1, <2>2
<1>6. \A s \in Sw(b) : b[s].original = "code"
  BY <1>1, <1>2 DEF Agrees
<1> HIDE DEF Out
<1> QED
  BY <1>4, <1>5, <1>6 DEF Agrees

(* Without installed breakpoints nothing is planted. *)
LEMMA AllRestored ==
  ASSUME g_dbg \in Session, Sound(bps), Agrees(bps, int3)
  PROVE  Restored(Sw(bps)) = {}
<1>1. Agrees(Uninstalled(Sw(bps)), Restored(Sw(bps)))
  BY Restoring
<1>2. \A s \in BpSlots : s \in Sw(bps) => Uninstalled(Sw(bps))[s].installed = FALSE
  BY Uninstalling
<1>3. Sw(Uninstalled(Sw(bps))) = Sw(bps) /\ Sw(bps) \subseteq BpSlots
  BY Uninstalling DEF Sw
<1>4. Planted(Uninstalled(Sw(bps))) = {}
  BY <1>2, <1>3 DEF Planted
<1> QED
  BY <1>1, <1>4 DEF Agrees

LEMMA EmptyTable ==
  /\ NoSession.breakpoints \in Tables /\ Sound(NoSession.breakpoints)
  /\ Sw(NoSession.breakpoints) = {} /\ Agrees(NoSession.breakpoints, {})
<1> PICK b : b = NoSession.breakpoints
  OBVIOUS
<1>1. \A s \in BpSlots : b[s].active = FALSE /\ b[s].installed = FALSE
  BY NoSessionFacts, ZeroBpFacts
<1>2. Sw(b) = {}
  BY <1>1 DEF Sw
<1>3. Planted(b) = {}
  BY <1>2 DEF Planted
<1> QED
  BY <1>1, <1>2, <1>3, NoSessionFacts DEF Sound, Agrees

(* Clearing one breakpoint. *)
LEMMA Clearing ==
  ASSUME g_dbg \in Session, Sound(bps), NEW s \in BpSlots, bps[s].active = TRUE,
         NEW b, b = [bps EXCEPT ![s] = ZeroBp]
  PROVE  /\ b \in Tables /\ Sound(b) /\ Sw(b) = Sw(bps) \ {s}
         /\ \A u \in BpSlots : u # s => b[u] = bps[u]
         /\ b[s] = ZeroBp
         /\ Agrees(bps, int3) =>
              Agrees(b, IF s \in Sw(bps) THEN Restored({s}) ELSE int3)
<1>1. bps \in Tables
  BY TableFacts
<1>2. b \in Tables /\ b[s] = ZeroBp /\ \A u \in BpSlots : u # s => b[u] = bps[u]
  BY <1>1, ZeroBpFacts DEF Tables
<1>3. Sw(b) = Sw(bps) \ {s}
  BY <1>2, ZeroBpFacts DEF Sw
<1>4. Sound(b)
  <2>1. \A u \in BpSlots : b[u].active = TRUE => u # s /\ bps[u].active = TRUE /\ b[u] = bps[u]
    BY <1>2, ZeroBpFacts
  <2>2. \A u \in BpSlots : b[u].installed = TRUE => u # s /\ b[u] = bps[u]
    BY <1>2, ZeroBpFacts
  <2> QED
    BY <2>1, <2>2, <1>3 DEF Sound
<1>5. ASSUME Agrees(bps, int3)
      PROVE  Agrees(b, IF s \in Sw(bps) THEN Restored({s}) ELSE int3)
  <2>1. \A u \in Sw(b) : b[u] = bps[u] /\ u \in Sw(bps)
    BY <1>2, <1>3 DEF Sw
  <2>2. \A u \in Sw(b) : b[u].original = "code"
    BY <2>1, <1>5 DEF Agrees
  <2>3. CASE s \in Sw(bps)
    <3>1. {s} \in SUBSET Sw(bps)
      BY <2>3
    <3>2. Agrees(Uninstalled({s}), Restored({s})) /\ Sw(Uninstalled({s})) = Sw(bps)
      BY <3>1, <1>5, Restoring, Uninstalling
    <3>3. \A u \in BpSlots : /\ Uninstalled({s})[u].address = bps[u].address
                             /\ u = s => Uninstalled({s})[u].installed = FALSE
                             /\ u # s => Uninstalled({s})[u].installed = bps[u].installed
      BY <3>1, Uninstalling
    <3>4. Planted(b) = Planted(Uninstalled({s}))
      <4>1. \A u \in Sw(b) : u \in BpSlots /\ u # s
        BY <1>3 DEF Sw
      <4>2. Sw(bps) \subseteq BpSlots
        BY DEF Sw
      <4>3. {u \in Sw(b) : b[u].installed = TRUE} =
              {u \in Sw(Uninstalled({s})) : Uninstalled({s})[u].installed = TRUE}
        BY <4>1, <4>2, <3>2, <3>3, <2>1, <1>3
      <4>4. \A u \in Sw(b) : b[u].address = Uninstalled({s})[u].address
        BY <4>1, <3>3, <2>1
      <4> QED
        BY <4>3, <4>4 DEF Planted
    <3> QED
      BY <3>2, <3>4, <2>2, <2>3 DEF Agrees
  <2>4. CASE s \notin Sw(bps)
    <3>1. Sw(b) = Sw(bps)
      BY <2>4, <1>3
    <3>2. Planted(b) = Planted(bps)
      BY <3>1, <2>1 DEF Planted
    <3> QED
      BY <3>2, <2>2, <2>4, <1>5 DEF Agrees
  <2> QED
    BY <2>3, <2>4
<1> QED
  BY <1>2, <1>3, <1>4, <1>5

(* A new breakpoint in an unused slot. *)
LEMMA Adding ==
  ASSUME g_dbg \in Session, Sound(bps), NEW a \in Insns, BpAt(a) = {},
         NEW n \in BpSlots, bps[n].active = FALSE,
         NEW b \in Tables, \A u \in BpSlots : u # n => b[u] = bps[u],
         b[n].active = TRUE, b[n].address = a
  PROVE  /\ (b[n].installed = TRUE => b[n].kind = "sw") => Sound(b)
         /\ b[n].kind = "hw" => Sw(b) = Sw(bps)
         /\ b[n].kind = "sw" => Sw(b) = Sw(bps) \cup {n}
<1> PICK r : r = b[n]
  OBVIOUS
<1>2. b[n] = r /\ \A u \in BpSlots : u # n => b[u] = bps[u]
  OBVIOUS
<1>3. \A u \in BpSlots : bps[u].active = TRUE => bps[u].address # a
  BY TableFacts
<1>4. r.kind = "hw" => Sw(b) = Sw(bps)
  BY <1>2 DEF Sw
<1>5. r.kind = "sw" => Sw(b) = Sw(bps) \cup {n}
  BY <1>2 DEF Sw
<1>6. ASSUME r.installed = TRUE => r.kind = "sw" PROVE Sound(b)
  <2>1. ASSUME NEW s \in BpSlots, NEW u \in BpSlots, b[s].active = TRUE, b[u].active = TRUE,
               b[s].address = b[u].address
        PROVE  s = u
    <3>1. CASE s # n /\ u # n
      BY <3>1, <2>1, <1>2 DEF Sound
    <3>2. CASE s = n
      BY <3>2, <2>1, <1>2, <1>3
    <3>3. CASE u = n
      BY <3>3, <2>1, <1>2, <1>3
    <3> QED
      BY <3>1, <3>2, <3>3
  <2>2. \A s \in BpSlots : b[s].active = TRUE => b[s].address \in Insns
    BY <1>2 DEF Sound
  <2>3. ASSUME NEW s \in BpSlots, b[s].installed = TRUE PROVE s \in Sw(b)
    <3>1. CASE s = n
      BY <3>1, <2>3, <1>6, <1>2 DEF Sw
    <3>2. CASE s # n
      <4>1. s \in Sw(bps)
        BY <3>2, <2>3, <1>2 DEF Sound
      <4> QED
        BY <4>1, <3>2, <1>2 DEF Sw
    <3> QED
      BY <3>1, <3>2
  <2> QED
    BY <2>1, <2>2, <2>3 DEF Sound
<1> QED
  BY <1>4, <1>5, <1>6

(* INT3 is written at an address without a breakpoint. *)
LEMMA PlantingText ==
  ASSUME g_dbg \in Session, Sound(bps), NEW a \in Insns, BpAt(a) = {},
         NEW n \in BpSlots, bps[n].active = FALSE,
         NEW b \in Tables, \A u \in BpSlots : u # n => b[u] = bps[u],
         b[n].active = TRUE, b[n].address = a, b[n].kind = "sw",
         b[n].installed = TRUE, a \notin int3 => b[n].original = "code"
  PROVE  /\ Sound(b) /\ Sw(b) = Sw(bps) \cup {n}
         /\ Agrees(bps, int3) => Agrees(b, int3 \cup {a})
<1>5. /\ Sound(b) /\ Sw(b) = Sw(bps) \cup {n}
      /\ \A u \in BpSlots : u # n => b[u] = bps[u]
  BY Adding
<1>6. ASSUME Agrees(bps, int3) PROVE Agrees(b, int3 \cup {a})
  <2>1. n \notin Sw(bps) /\ Sw(bps) \subseteq BpSlots
    BY <1>5 DEF Sw
  <2>2. \A u \in Sw(bps) : b[u] = bps[u]
    BY <2>1, <1>5
  <2>3. a \notin int3
    <3>1. \A u \in BpSlots : bps[u].active = TRUE => bps[u].address # a
      <4>1. BpAt(a) = {u \in BpSlots : bps[u].active = TRUE /\ bps[u].address = a}
        BY TableFacts
      <4> QED
        BY <4>1
    <3>2. \A u \in Sw(bps) : bps[u].address # a
      BY <3>1 DEF Sw
    <3>3. int3 = Planted(bps)
      BY <1>6 DEF Agrees
    <3> QED
      BY <3>2, <3>3, PlantedAt
  <2>4. \A u \in Sw(b) : b[u].original = "code"
    BY <2>2, <2>3, <1>5, <1>6 DEF Agrees
  <2>5. Planted(b) = Planted(bps) \cup {a}
    <3>1. ASSUME NEW x \in Planted(b) PROVE x \in Planted(bps) \cup {a}
      <4>1. PICK s \in Sw(b) : b[s].installed = TRUE /\ x = b[s].address
        BY PlantedAt
      <4>2. CASE s = n
        BY <4>1, <4>2, <1>5
      <4>3. CASE s # n
        <5>1. s \in Sw(bps) /\ b[s] = bps[s]
          BY <4>3, <1>5, <2>2
        <5> QED
          BY <5>1, <4>1, PlantedAt
      <4> QED
        BY <4>2, <4>3
    <3>2. ASSUME NEW x \in Planted(bps) PROVE x \in Planted(b)
      <4>1. PICK s \in Sw(bps) : bps[s].installed = TRUE /\ x = bps[s].address
        BY PlantedAt
      <4>2. s \in Sw(b) /\ b[s] = bps[s]
        BY <1>5, <2>2
      <4> QED
        BY <4>1, <4>2, PlantedAt
    <3>3. a \in Planted(b)
      BY <1>5, PlantedAt
    <3> QED
      BY <3>1, <3>2, <3>3
  <2> QED
    BY <2>4, <2>5, <1>6 DEF Agrees
<1> QED
  BY <1>5, <1>6

(* install_sw_breakpoint in an unused slot. *)
LEMMA Planting ==
  ASSUME g_dbg \in Session, Sound(bps), NEW a \in Insns, BpAt(a) = {}, FreeBp # {},
         NEW c \in BOOLEAN, NEW b, NEW r,
         r = Installed([ZeroBp EXCEPT !.active = TRUE, !.address = a, !.conditional = c]),
         b = [bps EXCEPT ![Min(FreeBp)] = r]
  PROVE  /\ b \in Tables /\ Sound(b) /\ Sw(b) = Sw(bps) \cup {Min(FreeBp)}
         /\ r.installed = TRUE /\ r.conditional = c /\ r.active = TRUE
         /\ Agrees(bps, int3) => Agrees(b, int3 \cup {a})
<1> PICK o : o = IF a \in int3 THEN "int3" ELSE "code"
  OBVIOUS
<1>1. o \in {"int3", "code"} /\ (a \notin int3 => o = "code")
  OBVIOUS
<1> DEFINE z == [ZeroBp EXCEPT !.active = TRUE, !.address = a, !.conditional = c]
<1>2. z \in Breakpoint /\ z.installed = FALSE /\ z.address = a
  BY DEF ZeroBp, Breakpoint
<1>3. r = [z EXCEPT !.installed = TRUE, !.original = o]
  BY <1>2 DEF Installed
<1>4. /\ r \in Breakpoint /\ r.active = TRUE /\ r.address = a /\ r.kind = "sw"
      /\ r.installed = TRUE /\ r.original = o /\ r.conditional = c
  BY <1>1, <1>3 DEF ZeroBp, Breakpoint
<1> HIDE DEF z
<1>5. a \notin int3 => r.original = "code"
  BY <1>1, <1>4
<1> PICK n : n = Min(FreeBp)
  OBVIOUS
<1>6. bps \in Tables /\ n \in BpSlots /\ bps[n].active = FALSE
  BY TableFacts
<1>7. b \in Tables /\ b[n] = r /\ \A u \in BpSlots : u # n => b[u] = bps[u]
  BY <1>4, <1>6 DEF Tables
<1>8. \A t \in Tables :
        /\ \A u \in BpSlots : u # n => t[u] = bps[u]
        /\ t[n].active = TRUE /\ t[n].address = a /\ t[n].kind = "sw"
        /\ t[n].installed = TRUE /\ (a \notin int3 => t[n].original = "code")
        => /\ Sound(t) /\ Sw(t) = Sw(bps) \cup {n}
           /\ Agrees(bps, int3) => Agrees(t, int3 \cup {a})
  BY <1>6, PlantingText
<1>9. /\ b[n].active = TRUE /\ b[n].address = a /\ b[n].kind = "sw"
      /\ b[n].installed = TRUE /\ (a \notin int3 => b[n].original = "code")
  BY <1>4, <1>5, <1>7
<1>10. /\ Sound(b) /\ Sw(b) = Sw(bps) \cup {n}
       /\ Agrees(bps, int3) => Agrees(b, int3 \cup {a})
  BY <1>7, <1>8, <1>9, Zenon
<1> QED
  BY <1>4, <1>7, <1>10

(* install_sw_breakpoint of the breakpoint that was stepped over. *)
LEMMA Reinstalling ==
  ASSUME g_dbg \in Session, Sound(bps), op.slot \in Sw(bps), bps[op.slot].installed = FALSE
  PROVE  /\ ReinstalledTable \in Tables /\ Sound(ReinstalledTable)
         /\ Sw(ReinstalledTable) = Sw(bps)
         /\ ReinstalledTable[op.slot].installed = TRUE
         /\ ReinstalledTable[op.slot].conditional = bps[op.slot].conditional
         /\ \A u \in BpSlots : /\ u # op.slot => ReinstalledTable[u] = bps[u]
                               /\ ReinstalledTable[u].address = bps[u].address
                               /\ ReinstalledTable[u].active = bps[u].active
                               /\ ReinstalledTable[u].kind = bps[u].kind
         /\ Agrees(bps, int3) => Agrees(ReinstalledTable, ReinstalledText)
<1> PICK b : b = ReinstalledTable
  OBVIOUS
<1> PICK n : n = op.slot
  OBVIOUS
<1>o. PICK o : o = IF bps[n].address \in int3 THEN "int3" ELSE "code"
  OBVIOUS
<1>r. PICK r : r = [bps[n] EXCEPT !.installed = TRUE, !.original = o]
  OBVIOUS
<1>1. o \in {"int3", "code"} /\ (bps[n].address \notin int3 => o = "code")
  BY <1>o
<1>2. /\ bps \in Tables /\ n \in BpSlots /\ bps[n] \in Breakpoint
      /\ bps[n].active = TRUE /\ bps[n].kind = "sw"
  BY TableFacts DEF Sw
<1>3. b = [bps EXCEPT ![n] = r]
  BY <1>o, <1>r DEF ReinstalledTable, Installed, bps
<1>4. /\ r \in Breakpoint /\ r.active = TRUE /\ r.address = bps[n].address /\ r.kind = "sw"
      /\ r.installed = TRUE /\ r.original = o /\ r.conditional = bps[n].conditional
  BY <1>r, <1>1, <1>2 DEF Breakpoint
<1>5. b \in Tables /\ b[n] = r /\ \A u \in BpSlots : u # n => b[u] = bps[u]
  BY <1>2, <1>3, <1>4 DEF Tables
<1>6. \A u \in BpSlots : /\ b[u].address = bps[u].address /\ b[u].active = bps[u].active
                         /\ b[u].kind = bps[u].kind
  <2> SUFFICES ASSUME NEW u \in BpSlots
               PROVE  /\ b[u].address = bps[u].address /\ b[u].active = bps[u].active
                      /\ b[u].kind = bps[u].kind
    OBVIOUS
  <2>1. CASE u = n
    BY <2>1, <1>2, <1>4, <1>5
  <2>2. CASE u # n
    BY <2>2, <1>5
  <2> QED
    BY <2>1, <2>2
<1>7. Sw(b) = Sw(bps)
  BY <1>6 DEF Sw
<1>8. Sound(b)
  <2>1. ASSUME NEW u \in BpSlots, b[u].installed = TRUE PROVE u \in Sw(b)
    <3>1. CASE u = n
      BY <3>1, <1>7
    <3>2. CASE u # n
      BY <3>2, <2>1, <1>5, <1>7 DEF Sound
    <3> QED
      BY <3>1, <3>2
  <2> QED
    BY <2>1, <1>6 DEF Sound
<1>9. ASSUME Agrees(bps, int3) PROVE Agrees(b, ReinstalledText)
  <2>1. bps[n].address \notin int3
    <3>1. ASSUME NEW u \in Sw(bps), bps[u].installed = TRUE PROVE bps[u].address # bps[n].address
      BY <3>1, <1>2 DEF Sound, Sw
    <3> QED
      BY <3>1, <1>9 DEF Agrees, Planted
  <2>2. \A u \in Sw(bps) : u \in BpSlots /\ (u # n => b[u] = bps[u])
    BY <1>5 DEF Sw
  <2>3. \A u \in Sw(b) : b[u].original = "code"
    <3>1. b[n].original = "code"
      BY <2>1, <1>1, <1>4, <1>5
    <3> QED
      BY <3>1, <2>2, <1>7, <1>9 DEF Agrees
  <2>4. Planted(b) = Planted(bps) \cup {bps[n].address}
    <3>1. \A u \in Sw(bps) : u = n => b[u].installed = TRUE /\ b[u].address = bps[n].address
      BY <1>4, <1>5
    <3>2. \A x : x \in Planted(b) <=> x \in Planted(bps) \/ x = bps[n].address
      BY <3>1, <2>2, <1>7, PlantedAt
    <3> QED
      BY <3>2
  <2>5. ReinstalledText = int3 \cup {bps[n].address}
    BY DEF ReinstalledText, bps
  <2> QED
    BY <2>3, <2>4, <2>5, <1>9 DEF Agrees
<1> QED
  BY <1>4, <1>5, <1>6, <1>7, <1>8, <1>9

-----------------------------------------------------------------------------
(* The debug registers *)

DrTypes == dr \in [Lwps -> Registers] /\ dr6 \in [Lwps -> SUBSET (WpSlots \cup {BS})]

LEMMA ListsFacts ==
  ASSUME proc \in Process, Main \in proc.live, NEW lwps \in ThreadLists
  PROVE  /\ lwps \in Seq(Lwps) /\ Range(lwps) \subseteq proc.live
         /\ "lwplist" \notin Faults => Range(lwps) = proc.live /\ lwps # <<>>
<1>1. proc.live \in SUBSET Lwps /\ IsFiniteSet(Lwps)
  BY ProcFields, DebuggerAssumption
<1>2. Cardinality(proc.live) \in Nat
  BY <1>1, FS_Subset, FS_CardinalityType
<1>3. CASE lwps \in [1..Cardinality(proc.live) -> proc.live] /\ Range(lwps) = proc.live
  <2>1. lwps \in Seq(Lwps)
    BY <1>1, <1>2, <1>3
  <2>2. lwps # <<>>
    <3>1. PICK i \in DOMAIN lwps : lwps[i] = Main
      BY <1>3 DEF Range
    <3>2. DOMAIN <<>> = {}
      OBVIOUS
    <3> QED
      BY <3>1, <3>2
  <2> QED
    BY <2>1, <2>2, <1>3
<1>4. CASE "lwplist" \in Faults /\ lwps \in {<<Main>>, <<>>}
  <2>1. Main \in Lwps
    BY <1>1
  <2>2. CASE lwps = <<Main>>
    BY <2>1, <2>2, <1>4 DEF Range
  <2>3. CASE lwps = <<>>
    BY <2>3, <1>4 DEF Range
  <2> QED
    BY <2>2, <2>3, <1>4
<1>5. \/ lwps \in [1..Cardinality(proc.live) -> proc.live] /\ Range(lwps) = proc.live
      \/ "lwplist" \in Faults /\ lwps \in {<<Main>>, <<>>}
  BY DEF ThreadLists
<1> QED
  BY <1>3, <1>4, <1>5

LEMMA AppliedFacts ==
  ASSUME DrTypes, NEW want \in Registers, NEW T
  PROVE  /\ Applied(want, T).dr \in [Lwps -> Registers]
         /\ Applied(want, T).dr6 \in [Lwps -> SUBSET (WpSlots \cup {BS})]
         /\ \A t \in T : t \in Lwps => Applied(want, T).dr[t] = want
         /\ \A t \in Lwps : t \notin T => /\ Applied(want, T).dr[t] = dr[t]
                                         /\ Applied(want, T).dr6[t] = dr6[t]
<1>1. Applied(want, T).dr = [t \in Lwps |-> IF t \in T THEN want ELSE dr[t]]
  BY DEF Applied
<1>2. Applied(want, T).dr6 = [t \in Lwps |-> IF t \in T THEN {} ELSE dr6[t]]
  BY DEF Applied
<1> QED
  BY <1>1, <1>2 DEF DrTypes

(* apply_dbregs_to_all gives the registers to the set T of threads. *)
Outcome(r, want, partial, T) ==
  /\ r.ok \in BOOLEAN /\ r.regs = Applied(want, T) /\ T \subseteq proc.live
  /\ r.ok = TRUE /\ partial = FALSE /\ "lwplist" \notin Faults => proc.live \subseteq T
  /\ r.ok = FALSE /\ partial = TRUE => T = {}
  /\ "lwplist" \notin Faults /\ "dbregs" \notin Faults =>
       r.ok = TRUE /\ proc.live \subseteq T

LEMMA ApplyCases ==
  ASSUME proc \in Process, Main \in proc.live,
         NEW want, NEW partial \in BOOLEAN, NEW r \in apply_dbregs_to_all(want, partial)
  PROVE  \E T : Outcome(r, want, partial, T)
<1>1. PICK lwps \in ThreadLists :
        r \in LET L == Range(lwps) IN
              IF L = {} THEN {[ok |-> o, regs |-> Applied(want, {})] : o \in {FALSE, ~partial}}
              ELSE UNION {IF refused = {} \/ (partial /\ refused # L)
                          THEN {[ok |-> TRUE, regs |-> Applied(want, L \ refused)]}
                          ELSE {[ok |-> FALSE, regs |-> Applied(want, kept)] :
                                  kept \in IF "rollback" \in Faults
                                           THEN SUBSET (L \ refused) ELSE {{}}}
                          : refused \in IF "dbregs" \in Faults THEN SUBSET L ELSE {{}}}
  BY Zenon DEF apply_dbregs_to_all
<1> PICK L : L = Range(lwps)
  OBVIOUS
<1>2. L \subseteq proc.live /\ ("lwplist" \notin Faults => L = proc.live /\ L # {})
  BY ListsFacts
<1>3. CASE L = {}
  <2>1. PICK o \in {FALSE, ~partial} : r = [ok |-> o, regs |-> Applied(want, {})]
    BY <1>1, <1>3
  <2>2. "lwplist" \in Faults
    BY <1>2, <1>3
  <2>3. Outcome(r, want, partial, {})
    BY <2>1, <2>2 DEF Outcome
  <2> QED
    BY <2>3
<1>4. CASE L # {}
  <2>1. PICK refused \in IF "dbregs" \in Faults THEN SUBSET L ELSE {{}} :
          r \in IF refused = {} \/ (partial /\ refused # L)
                THEN {[ok |-> TRUE, regs |-> Applied(want, L \ refused)]}
                ELSE {[ok |-> FALSE, regs |-> Applied(want, kept)] :
                        kept \in IF "rollback" \in Faults
                                 THEN SUBSET (L \ refused) ELSE {{}}}
    BY <1>1, <1>4, Zenon
  <2>2. refused \subseteq L /\ ("dbregs" \notin Faults => refused = {})
    BY <2>1
  <2>3. CASE refused = {} \/ (partial /\ refused # L)
    <3>1. r = [ok |-> TRUE, regs |-> Applied(want, L \ refused)]
      BY <2>1, <2>3
    <3>2. r.ok = TRUE /\ r.regs = Applied(want, L \ refused)
      BY <3>1
    <3>3. partial = FALSE \/ "dbregs" \notin Faults => refused = {}
      BY <2>2, <2>3
    <3>4. "lwplist" \notin Faults /\ (partial = FALSE \/ "dbregs" \notin Faults)
            => proc.live \subseteq L \ refused
      BY <3>3, <1>2
    <3>5. Outcome(r, want, partial, L \ refused)
      BY <3>2, <3>4, <1>2 DEF Outcome
    <3> QED
      BY <3>5
  <2>4. CASE ~(refused = {} \/ (partial /\ refused # L))
    <3>1. PICK kept \in IF "rollback" \in Faults THEN SUBSET (L \ refused) ELSE {{}} :
            r = [ok |-> FALSE, regs |-> Applied(want, kept)]
      BY <2>1, <2>4
    <3>2. r.ok = FALSE /\ r.regs = Applied(want, kept)
      BY <3>1
    <3>3. (partial = TRUE => kept = {}) /\ kept \subseteq proc.live
      BY <3>1, <2>4, <2>2, <1>2
    <3>4. "dbregs" \in Faults
      BY <2>2, <2>4
    <3>5. Outcome(r, want, partial, kept)
      BY <3>2, <3>3, <3>4 DEF Outcome
    <3> QED
      BY <3>5
  <2> QED
    BY <2>3, <2>4
<1> QED
  BY <1>3, <1>4

(* sync_hardware_dbregs_locked, for the table w. *)
SyncOutcome(r, w, partial) ==
  /\ r.ok \in BOOLEAN /\ r.valid \in BOOLEAN /\ r.dbregs \in Registers
  /\ r.regs.dr \in [Lwps -> Registers]
  /\ r.regs.dr6 \in [Lwps -> SUBSET (WpSlots \cup {BS})]
  /\ \A t \in Lwps : r.regs.dr[t] \in {dr[t], w}
  /\ \A t \in Lwps : t \notin proc.live =>
                      r.regs.dr[t] = dr[t] /\ r.regs.dr6[t] = dr6[t]
  /\ r.ok = TRUE => r.valid = TRUE
  /\ r.valid = FALSE => g_dbg.dbregs_valid = FALSE /\ r.regs.dr = dr
  /\ r.ok = FALSE /\ partial = TRUE => \A t \in Lwps : r.regs.dr[t] = dr[t]
  /\ r.ok = TRUE /\ partial = FALSE /\ "lwplist" \notin Faults =>
       \A t \in proc.live : r.regs.dr[t] = w
  /\ Ready /\ "lwplist" \notin Faults /\ "dbregs" \notin Faults =>
       \A t \in proc.live : r.regs.dr[t] = w

LEMMA SyncFacts ==
  ASSUME TypeOK, Main \in proc.live, NEW w \in Registers, NEW partial \in BOOLEAN,
         NEW r \in sync_hardware_dbregs(w, partial)
  PROVE  SyncOutcome(r, w, partial)
<1> USE DEF SyncOutcome
<1>1. /\ proc \in Process /\ proc.live \in SUBSET Lwps
      /\ g_dbg.dbregs \in Registers /\ g_dbg.dbregs_valid \in BOOLEAN /\ DrTypes
  BY ProcFields, SessionFields DEF TypeOK, DrTypes
<1>2. CASE r = Unsynced /\ (Ready => "lwplist" \in Faults \/ "dbregs" \in Faults)
                        /\ (Ready => g_dbg.dbregs_valid = FALSE)
  <2>1. /\ r.ok = FALSE /\ r.regs = Applied(NoWps, {})
        /\ r.dbregs = g_dbg.dbregs /\ r.valid = g_dbg.dbregs_valid
    BY <1>2 DEF Unsynced
  <2>2. /\ r.regs.dr \in [Lwps -> Registers]
        /\ r.regs.dr6 \in [Lwps -> SUBSET (WpSlots \cup {BS})]
        /\ \A t \in Lwps : r.regs.dr[t] = dr[t] /\ r.regs.dr6[t] = dr6[t]
    BY <2>1, <1>1, AppliedFacts, ZeroWpFacts
  <2>3. r.regs.dr = dr
    BY <2>2, <1>1 DEF DrTypes
  <2> QED
    BY <2>1, <2>2, <2>3, <1>1, <1>2
<1>3. CASE \E q \in apply_dbregs_to_all(w, partial), first \in proc.live :
             r = [ok |-> q.ok, regs |-> q.regs, valid |-> TRUE,
                  dbregs |-> IF q.ok THEN w
                             ELSE IF g_dbg.dbregs_valid THEN g_dbg.dbregs ELSE dr[first]]
  <2>1. PICK q \in apply_dbregs_to_all(w, partial), first \in proc.live :
             r = [ok |-> q.ok, regs |-> q.regs, valid |-> TRUE,
                  dbregs |-> IF q.ok THEN w
                             ELSE IF g_dbg.dbregs_valid THEN g_dbg.dbregs ELSE dr[first]]
    BY <1>3
  <2>2. PICK T : Outcome(q, w, partial, T)
    BY <1>1, ApplyCases
  <2>3. r.ok = q.ok /\ q.ok \in BOOLEAN /\ r.regs = Applied(w, T) /\ r.valid = TRUE
    BY <2>1, <2>2 DEF Outcome
  <2>4. r.dbregs \in Registers
    <3>1. dr[first] \in Registers
      BY <1>1 DEF DrTypes
    <3> QED
      BY <3>1, <2>1, <1>1
  <2>5. /\ r.regs.dr \in [Lwps -> Registers]
        /\ r.regs.dr6 \in [Lwps -> SUBSET (WpSlots \cup {BS})]
        /\ \A t \in T : t \in Lwps => r.regs.dr[t] = w
        /\ \A t \in Lwps : t \notin T => r.regs.dr[t] = dr[t] /\ r.regs.dr6[t] = dr6[t]
    BY <2>3, <1>1, AppliedFacts
  <2>6. /\ r.ok = FALSE /\ partial = TRUE => T = {}
        /\ r.ok = TRUE /\ partial = FALSE /\ "lwplist" \notin Faults => proc.live \subseteq T
        /\ "lwplist" \notin Faults /\ "dbregs" \notin Faults => proc.live \subseteq T
        /\ T \subseteq proc.live
    BY <2>2, <2>3 DEF Outcome
  <2>7. \A t \in Lwps : r.regs.dr[t] \in {dr[t], w}
    BY <2>5
  <2>8. r.ok = FALSE /\ partial = TRUE => \A t \in Lwps : r.regs.dr[t] = dr[t]
    BY <2>5, <2>6
  <2>9. proc.live \subseteq T => \A t \in proc.live : r.regs.dr[t] = w
    BY <2>5, <1>1
  <2> QED
    BY <2>3, <2>4, <2>5, <2>6, <2>7, <2>8, <2>9
<1>4. \/ /\ r = Unsynced /\ (Ready => "lwplist" \in Faults \/ "dbregs" \in Faults)
         /\ Ready => g_dbg.dbregs_valid = FALSE
      \/ \E q \in apply_dbregs_to_all(w, partial), first \in proc.live :
           r = [ok |-> q.ok, regs |-> q.regs, valid |-> TRUE,
                dbregs |-> IF q.ok THEN w
                           ELSE IF g_dbg.dbregs_valid THEN g_dbg.dbregs ELSE dr[first]]
  <2>1. CASE ~Ready
    BY <2>1 DEF sync_hardware_dbregs
  <2>2. CASE Ready
    <3>1. \/ r \in {[ok |-> q.ok, regs |-> q.regs, valid |-> TRUE,
                     dbregs |-> IF q.ok THEN w
                                ELSE IF g_dbg.dbregs_valid THEN g_dbg.dbregs ELSE dr[first]]
                      : q \in apply_dbregs_to_all(w, partial), first \in proc.live}
          \/ /\ ~g_dbg.dbregs_valid /\ {"dbregs", "lwplist"} \cap Faults # {}
             /\ r = Unsynced
      BY <2>2 DEF sync_hardware_dbregs
    <3> QED
      BY <3>1, <1>1
  <2> QED
    BY <2>1, <2>2
<1> QED
  BY <1>2, <1>3, <1>4, Zenon

-----------------------------------------------------------------------------
(* The steps of the target and of the session keep the core invariant. *)

LEMMA TableKept ==
  ASSUME TableInv, bps' = bps, g_dbg'.attached = g_dbg.attached,
         \/ op' = op
         \/ op'.cmd = "none"
         \/ op'.cmd = "continue" /\ g_dbg.attached = TRUE
         \/ op'.cmd = "detach" /\ g_dbg.attached = TRUE /\ Sent("detach")
  PROVE  TableInv'
<1>1. /\ Sound(bps')
      /\ g_dbg'.attached = FALSE => \A s \in BpSlots : bps'[s].active = FALSE
  BY DEF TableInv
<1>2. CASE op' = op
  <2>1. Waiting' <=> Waiting
    BY <1>2 DEF Waiting
  <2> QED
    BY <1>1, <1>2, <2>1 DEF TableInv, Sent
<1>3. CASE op'.cmd # op.cmd \/ op' # op
  <2>1. ~Waiting'
    BY <1>3 DEF Waiting
  <2> QED
    BY <2>1, <1>1, <1>3 DEF TableInv, Sent
<1> QED
  BY <1>2, <1>3

(* Steps that leave the process alone. *)
LEMMA ProcKept ==
  ASSUME ProcInv, proc' = proc, op' = op \/ ~Waiting'
  PROVE  ProcInv'
BY DEF ProcInv, Waiting

LEMMA TrapCore ==
  ASSUME CoreInv, NEW t \in Lwps, Trap(t)
  PROVE  CoreInv'
<1> USE DEF CoreInv
<1>1. UNCHANGED <<g_dbg, op, int3, dr, dr6>> /\ proc' = Halted
  BY DEF Trap
<1>2. /\ proc' \in Process /\ proc'.state = "stop" /\ proc'.event \in {"stop", "none"}
      /\ proc'.live = proc.live
  BY <1>1, ProcMoves DEF TypeOK
<1>3. rip' \in [Lwps -> Rips]
  <2>1. rip[t] \in Insns /\ rip[t] + 1 \in Rips
    BY DEF Trap, TypeOK, Rips
  <2>2. rip' = [rip EXCEPT ![t] = rip[t] + 1]
    BY DEF Trap, TypeOK
  <2> QED
    BY <2>1, <2>2 DEF TypeOK
<1>4. TypeOK'
  BY <1>1, <1>2, <1>3 DEF TypeOK
<1>5. TableInv'
  BY <1>1, TableKept DEF bps
<1>6. ProcInv'
  BY <1>2 DEF ProcInv
<1> QED
  BY <1>4, <1>5, <1>6

LEMMA ExecuteCore ==
  ASSUME CoreInv, NEW t \in Lwps, Execute(t)
  PROVE  /\ CoreInv'
         /\ UNCHANGED <<g_dbg, op, int3, dr>>
         /\ (proc' = proc /\ proc.stepping # t) \/ proc' = Halted
<1> USE DEF CoreInv
<1>1. UNCHANGED <<g_dbg, op, int3, dr>>
  BY DEF Execute
<1>2. PICK hit \in {{}} \cup {{s} : s \in {w \in WpSlots : dr[t][w].installed
                                                        /\ dr[t][w].type = "data"}} :
       LET bits == IF proc.stepping = t THEN hit \cup {BS} ELSE hit
       IN /\ dr6' = [dr6 EXCEPT ![t] = dr6[t] \cup bits]
          /\ proc' = IF bits = {} THEN proc ELSE Halted
  BY DEF Execute
<1> PICK bits : bits = IF proc.stepping = t THEN hit \cup {BS} ELSE hit
  OBVIOUS
<1>3. bits \in SUBSET (WpSlots \cup {BS}) /\ (proc.stepping = t => bits # {})
  BY <1>2
<1>4. /\ dr6' = [dr6 EXCEPT ![t] = dr6[t] \cup bits]
      /\ proc' = IF bits = {} THEN proc ELSE Halted
  BY <1>2
<1>5. dr6' \in [Lwps -> SUBSET (WpSlots \cup {BS})]
  <2>1. dr6[t] \cup bits \in SUBSET (WpSlots \cup {BS})
    BY <1>3 DEF TypeOK
  <2> QED
    BY <2>1, <1>4 DEF TypeOK
<1>6. (proc' = proc /\ proc.stepping # t) \/ proc' = Halted
  BY <1>3, <1>4
<1>7. rip' \in [Lwps -> Rips]
  <2>1. Flow(rip[t]) \in Insns /\ Flow(rip[t]) \in Rips
    BY InsnsFacts DEF Rips
  <2>2. rip' = [rip EXCEPT ![t] = Flow(rip[t])]
    BY DEF Execute, TypeOK
  <2> QED
    BY <2>1, <2>2 DEF TypeOK
<1>8. proc' \in Process
  BY <1>6, ProcMoves DEF TypeOK
<1>9. TypeOK'
  BY <1>1, <1>5, <1>7, <1>8 DEF TypeOK
<1>10. TableInv'
  BY <1>1, TableKept DEF bps
<1>11. ProcInv'
  <2>1. CASE proc' = proc
    BY <2>1, <1>1, ProcKept
  <2>2. CASE proc' = Halted
    <3>1. /\ proc'.state = "stop" /\ proc'.event \in {"stop", "none"}
          /\ proc'.live = proc.live
      BY <2>2, ProcMoves DEF TypeOK
    <3> QED
      BY <3>1 DEF ProcInv
  <2> QED
    BY <2>1, <2>2, <1>6
<1> QED
  BY <1>1, <1>6, <1>9, <1>10, <1>11

LEMMA SigstopCore ==
  ASSUME CoreInv, DeliverSigstop
  PROVE  /\ CoreInv' /\ proc'.state = "stop"
         /\ g_dbg.attached = TRUE => proc'.event = "stop"
<1> USE DEF CoreInv
<1>1. UNCHANGED <<g_dbg, op, int3, rip, dr, dr6>>
      /\ proc' = [Halted EXCEPT !.sigstop = FALSE]
  BY DEF DeliverSigstop, thread
<1>2. /\ Halted \in Process /\ Halted.state = "stop" /\ Halted.event \in {"stop", "none"}
      /\ Halted.live = proc.live /\ (g_dbg.attached = TRUE => Halted.event = "stop")
  BY ProcMoves DEF TypeOK
<1>3. /\ proc' \in Process /\ proc'.state = "stop" /\ proc'.event = Halted.event
      /\ proc'.live = Halted.live
  BY <1>1, <1>2 DEF Process
<1>4. TypeOK'
  BY <1>1, <1>3 DEF TypeOK
<1>5. TableInv'
  BY <1>1, TableKept DEF bps
<1>6. ProcInv'
  BY <1>2, <1>3 DEF ProcInv
<1> QED
  BY <1>2, <1>3, <1>4, <1>5, <1>6

LEMMA SpawnCore ==
  ASSUME CoreInv, NEW t \in Lwps, SpawnThread(t)
  PROVE  /\ CoreInv'
         /\ proc'.state = proc.state /\ proc'.event = proc.event
         /\ proc'.stepping = proc.stepping
<1> USE DEF CoreInv
<1>1. UNCHANGED <<g_dbg, op, int3, rip, dr, dr6>>
      /\ proc' = [proc EXCEPT !.live = proc.live \cup {t}]
  BY DEF SpawnThread, thread
<1>2. /\ proc' \in Process /\ proc'.state = proc.state /\ proc'.event = proc.event
      /\ proc'.stepping = proc.stepping /\ proc'.live = proc.live \cup {t}
  BY <1>1 DEF Process, TypeOK
<1>3. TypeOK'
  BY <1>1, <1>2 DEF TypeOK
<1>4. TableInv'
  BY <1>1, TableKept DEF bps
<1>5. ProcInv'
  BY <1>1, <1>2 DEF ProcInv, Waiting
<1> QED
  BY <1>2, <1>3, <1>4, <1>5

LEMMA ExitCore ==
  ASSUME CoreInv, ExitTarget
  PROVE  CoreInv' /\ proc'.state = "exit"
<1> USE DEF CoreInv
<1>1. UNCHANGED <<g_dbg, op, int3, rip, dr, dr6>>
  BY DEF ExitTarget, thread
<1> PICK e : e = IF g_dbg.attached THEN "exit" ELSE "none"
  OBVIOUS
<1>2. e \in {"exit", "none"} /\ proc' = [proc EXCEPT !.state = "exit", !.stepping = 0,
                                                     !.event = e]
  BY DEF ExitTarget
<1>3. /\ proc' \in Process /\ proc'.state = "exit" /\ proc'.event = e
      /\ proc'.live = proc.live
  BY <1>2 DEF Process, TypeOK
<1>4. TypeOK'
  BY <1>1, <1>3 DEF TypeOK
<1>5. TableInv'
  BY <1>1, TableKept DEF bps
<1>6. ProcInv'
  BY <1>2, <1>3 DEF ProcInv
<1> QED
  BY <1>3, <1>4, <1>5, <1>6
-----------------------------------------------------------------------------
(* The step over a software breakpoint *)

TextInv == Alive => Agrees(bps, int3)

(* Only the breakpoint that is being stepped over is not installed. *)
ArmInv ==
  Alive => \A s \in Sw(bps) : bps[s].installed = FALSE => Waiting /\ op.slot = s

(* A step that installs or uninstalls breakpoints, but adds or clears none. *)
SameTable ==
  /\ Sw(bps') = Sw(bps)
  /\ \A u \in BpSlots : /\ bps'[u].active = bps[u].active /\ bps'[u].kind = bps[u].kind
                        /\ bps'[u].address = bps[u].address
                        /\ bps'[u].conditional = bps[u].conditional

SameSession ==
  /\ g_dbg'.attached = g_dbg.attached /\ wps' = wps
  /\ g_dbg'.dbregs_valid = g_dbg.dbregs_valid

(* A thread keeps its debug registers or gets those of the table. *)
StatusRegs ==
  /\ \A u \in Lwps : dr'[u] \in {dr[u], wps}
  /\ \A u \in Lwps : dr6[u] = {} => dr'[u] = dr[u] /\ dr6'[u] = {}

LEMMA StatusFacts ==
  ASSUME TypeOK, NEW t \in Lwps, ClearHardwareStatus(t)
  PROVE  /\ dr' \in [Lwps -> Registers] /\ dr6' \in [Lwps -> SUBSET (WpSlots \cup {BS})]
         /\ StatusRegs
<1>1. wps \in Registers
  BY SessionFields DEF TypeOK, wps
<1>2. \/ UNCHANGED <<dr, dr6>>
      \/ /\ dr' = [dr EXCEPT ![t] = wps] /\ dr6' = [dr6 EXCEPT ![t] = {}]
         /\ dr6[t] # {}
  BY DEF ClearHardwareStatus, wps
<1> QED
  BY <1>1, <1>2 DEF TypeOK, StatusRegs

LEMMA BehindFacts ==
  ASSUME TypeOK, Sound(bps), NEW t \in Lwps, NEW s \in SwBehind(t)
  PROVE  /\ s \in Sw(bps) /\ s \in BpSlots /\ bps[s].address = rip[t] - 1
         /\ rip[t] - 1 \in Insns
         /\ Rewound(t) \in [Lwps -> Rips] /\ Rewound(t)[t] = rip[t] - 1
<1>1. s \in Sw(bps) /\ s \in BpSlots /\ bps[s].active = TRUE /\ bps[s].address = rip[t] - 1
  BY TableFacts DEF SwBehind, TypeOK
<1>2. rip[t] - 1 \in Insns
  BY <1>1 DEF Sound
<1>3. rip[t] - 1 \in Rips
  BY <1>2 DEF Rips
<1>4. Rewound(t) = [rip EXCEPT ![t] = rip[t] - 1]
  BY DEF Rewound
<1> QED
  BY <1>1, <1>2, <1>3, <1>4 DEF TypeOK

LEMMA StepOverBeginCore ==
  ASSUME CoreInv, NEW t \in Lwps, NEW cmd \in {"continue wait", "step wait"},
         NEW todo \in Seq(Lwps), g_dbg.attached = TRUE, Ready, ~Waiting,
         StepOverBegin(t, cmd, todo)
  PROVE  /\ CoreInv' /\ (TextInv => TextInv') /\ (ArmInv => ArmInv')
         /\ op'.cmd = cmd /\ op'.todo = todo /\ op'.lwp = t /\ op'.slot \in Sw(bps)
         /\ bps[op'.slot].address = rip[t] - 1
         /\ SameTable /\ SameSession /\ g_dbg'.stopped = g_dbg.stopped
         /\ rip' = Rewound(t) /\ proc' = Resumed(t)
         /\ StatusRegs /\ proc'.live = proc.live
<1> USE DEF CoreInv
<1>1. PICK s \in SwBehind(t) :
        /\ ClearHardwareStatus(t)
        /\ int3' = Restored({s})
        /\ g_dbg' = [g_dbg EXCEPT !.breakpoints = Uninstalled({s})]
        /\ rip' = Rewound(t)
        /\ proc' = Resumed(t)
        /\ op' = [cmd |-> cmd, todo |-> todo, lwp |-> t, slot |-> s]
  BY DEF StepOverBegin
<1>2. g_dbg \in Session /\ Sound(bps) /\ proc \in Process
  BY DEF TypeOK, TableInv
<1>3. /\ s \in Sw(bps) /\ s \in BpSlots /\ bps[s].address = rip[t] - 1
      /\ Rewound(t) \in [Lwps -> Rips] /\ {s} \in SUBSET Sw(bps)
  BY <1>2, BehindFacts
<1>4. /\ Uninstalled({s}) \in Tables /\ Sound(Uninstalled({s}))
      /\ Sw(Uninstalled({s})) = Sw(bps)
      /\ \A u \in BpSlots :
              /\ Uninstalled({s})[u].active = bps[u].active
              /\ Uninstalled({s})[u].address = bps[u].address
              /\ Uninstalled({s})[u].kind = bps[u].kind
              /\ Uninstalled({s})[u].conditional = bps[u].conditional
              /\ u \in {s} => Uninstalled({s})[u].installed = FALSE
              /\ u \notin {s} => Uninstalled({s})[u].installed = bps[u].installed
  BY <1>2, <1>3, Uninstalling
<1>5. /\ g_dbg' \in Session /\ g_dbg'.attached = g_dbg.attached
      /\ g_dbg'.stopped = g_dbg.stopped /\ bps' = Uninstalled({s}) /\ wps' = wps
      /\ g_dbg'.dbregs_valid = g_dbg.dbregs_valid
  BY <1>1, <1>2, <1>4 DEF bps, wps, Session, Tables
<1>6. SameTable /\ SameSession
  BY <1>4, <1>5 DEF SameTable, SameSession
<1>7. op' \in Call /\ op'.cmd = cmd /\ op'.todo = todo /\ op'.lwp = t /\ op'.slot = s
  BY <1>1, <1>3 DEF Call
<1>8. /\ proc' \in Process /\ proc'.state = "run" /\ proc'.stepping = t
      /\ proc'.event = "none" /\ proc'.live = proc.live
  BY <1>1, <1>2, ProcMoves DEF Ready
<1>9. int3' \subseteq Insns
  <2>1. \A u \in {s} : bps[u].address \in Insns
    BY <1>3 DEF Sound, TableInv, Sw
  <2>2. Restored({s}) \subseteq int3 \cup {bps[s].address}
    BY DEF Restored, bps
  <2> QED
    BY <2>1, <2>2, <1>1 DEF TypeOK
<1>10. /\ dr' \in [Lwps -> Registers] /\ dr6' \in [Lwps -> SUBSET (WpSlots \cup {BS})]
       /\ StatusRegs
  BY <1>1, StatusFacts
<1>11. TypeOK'
  BY <1>1, <1>3, <1>5, <1>7, <1>8, <1>9, <1>10 DEF TypeOK
<1>12. TableInv'
  BY <1>3, <1>4, <1>5, <1>7 DEF TableInv, Waiting
<1>13. ProcInv'
  BY <1>7, <1>8 DEF ProcInv
<1>14. TextInv => TextInv'
  BY <1>1, <1>2, <1>3, <1>5, Restoring DEF TextInv, Alive, Ready
<1>15. ArmInv => ArmInv'
  <2>1. Waiting' /\ op'.slot = s /\ Sw(bps) \subseteq BpSlots
    BY <1>7 DEF Waiting, Sw
  <2> QED
    BY <2>1, <1>4, <1>5 DEF ArmInv, Alive, Ready
<1> QED
  BY <1>1, <1>3, <1>5, <1>6, <1>7, <1>8, <1>10, <1>11, <1>12, <1>13, <1>14, <1>15

LEMMA UninstallOne ==
  ASSUME TypeOK, Sound(bps), NEW s \in Sw(bps),
         g_dbg' = [g_dbg EXCEPT !.breakpoints = Uninstalled({s})]
  PROVE  /\ g_dbg' \in Session /\ SameTable /\ SameSession /\ g_dbg'.stopped = g_dbg.stopped
         /\ bps' = Uninstalled({s}) /\ Sound(bps') /\ bps'[s].installed = FALSE
         /\ Restored({s}) \subseteq Insns
         /\ Agrees(bps, int3) => Agrees(bps', Restored({s}))
<1>1. g_dbg \in Session /\ {s} \in SUBSET Sw(bps) /\ s \in BpSlots
  BY DEF TypeOK, Sw
<1>2. /\ Uninstalled({s}) \in Tables /\ Sound(Uninstalled({s}))
      /\ Sw(Uninstalled({s})) = Sw(bps)
      /\ \A u \in BpSlots :
              /\ Uninstalled({s})[u].active = bps[u].active
              /\ Uninstalled({s})[u].address = bps[u].address
              /\ Uninstalled({s})[u].kind = bps[u].kind
              /\ Uninstalled({s})[u].conditional = bps[u].conditional
              /\ u \in {s} => Uninstalled({s})[u].installed = FALSE
  BY <1>1, Uninstalling
<1>3. /\ g_dbg' \in Session /\ g_dbg'.attached = g_dbg.attached
      /\ g_dbg'.stopped = g_dbg.stopped /\ bps' = Uninstalled({s}) /\ wps' = wps
      /\ g_dbg'.dbregs_valid = g_dbg.dbregs_valid
  BY <1>1, <1>2 DEF bps, wps, Session, Tables
<1>4. Restored({s}) \subseteq Insns
  <2>1. bps[s].address \in Insns
    BY <1>1 DEF Sound, Sw
  <2>2. Restored({s}) \subseteq int3 \cup {bps[s].address}
    BY DEF Restored, bps
  <2> QED
    BY <2>1, <2>2 DEF TypeOK
<1>5. Agrees(bps, int3) => Agrees(bps', Restored({s}))
  BY <1>1, <1>3, Restoring
<1> QED
  BY <1>1, <1>2, <1>3, <1>4, <1>5 DEF SameTable, SameSession

(* The same table: what depends on it alone is kept. *)
LEMMA SameTableKept ==
  ASSUME TableInv, Sound(bps'), SameTable, SameSession,
         op'.cmd = "none" \/ (op'.cmd = "continue" /\ g_dbg.attached = TRUE)
  PROVE  TableInv'
<1>1. ~Waiting' /\ op'.cmd # "detach"
  BY DEF Waiting
<1> QED
  BY <1>1 DEF TableInv, SameTable, SameSession

LEMMA StepOverRefusedCore ==
  ASSUME CoreInv, NEW t \in Lwps, Ready, ~Waiting, StepOverRefused(t)
  PROVE  /\ CoreInv' /\ (TextInv => TextInv')
         /\ "write" \notin Faults => (ArmInv => ArmInv')
         /\ op' = NoOp /\ UNCHANGED proc
         /\ SameTable /\ SameSession /\ g_dbg'.stopped = g_dbg.stopped
         /\ rip' \in {rip, Rewound(t)} /\ \E s \in Sw(bps) : bps[s].address = rip[t] - 1
         /\ StatusRegs
<1> USE DEF CoreInv
<1>1. ClearHardwareStatus(t) /\ op' = NoOp /\ UNCHANGED proc
  BY DEF StepOverRefused
<1>2. PICK s \in SwBehind(t) :
        /\ rip' \in {rip, Rewound(t)}
        /\ \/ UNCHANGED <<g_dbg, int3>>
           \/ /\ "write" \in Faults /\ int3' = Restored({s})
              /\ g_dbg' = [g_dbg EXCEPT !.breakpoints = Uninstalled({s})]
  <2>1. PICK s \in SwBehind(t) :
          \/ /\ "write" \in Faults
             /\ UNCHANGED <<g_dbg, int3, rip>>
          \/ /\ \/ "regs" \in Faults /\ UNCHANGED rip
                \/ "resume" \in Faults /\ rip' = Rewound(t)
             /\ \E failed \in MayFail("write") :
                  /\ int3' = IF failed THEN Restored({s}) ELSE int3
                  /\ g_dbg' = IF failed
                              THEN [g_dbg EXCEPT !.breakpoints = Uninstalled({s})]
                              ELSE g_dbg
    BY DEF StepOverRefused
  <2> QED
    BY <2>1 DEF MayFail
<1>3. g_dbg \in Session /\ Sound(bps) /\ proc \in Process
  BY DEF TypeOK, TableInv
<1>4. /\ s \in Sw(bps) /\ bps[s].address = rip[t] - 1 /\ Rewound(t) \in [Lwps -> Rips]
  BY <1>3, BehindFacts
<1>5. /\ dr' \in [Lwps -> Registers] /\ dr6' \in [Lwps -> SUBSET (WpSlots \cup {BS})]
      /\ StatusRegs
  BY <1>1, StatusFacts
<1>6. /\ g_dbg' \in Session /\ SameTable /\ SameSession /\ g_dbg'.stopped = g_dbg.stopped
      /\ Sound(bps') /\ int3' \subseteq Insns
      /\ Agrees(bps, int3) => Agrees(bps', int3')
  <2>1. CASE UNCHANGED <<g_dbg, int3>>
    BY <2>1, <1>3 DEF SameTable, SameSession, bps, wps, TypeOK
  <2>2. CASE /\ int3' = Restored({s})
             /\ g_dbg' = [g_dbg EXCEPT !.breakpoints = Uninstalled({s})]
    BY <2>2, <1>3, <1>4, UninstallOne
  <2> QED
    BY <2>1, <2>2, <1>2
<1>7. op' \in Call /\ op'.cmd = "none" /\ ~Waiting'
  BY <1>1, NoOpFacts DEF Waiting
<1>8. TypeOK'
  BY <1>1, <1>2, <1>4, <1>5, <1>6, <1>7 DEF TypeOK
<1>9. TableInv'
  BY <1>6, <1>7, SameTableKept
<1>10. ProcInv'
  BY <1>1, <1>7, ProcKept
<1>11. TextInv => TextInv'
  BY <1>1, <1>6 DEF TextInv, Alive
<1>12. "write" \notin Faults => (ArmInv => ArmInv')
  BY <1>1, <1>2 DEF ArmInv, Alive, bps
<1> QED
  BY <1>1, <1>2, <1>4, <1>5, <1>6, <1>8, <1>9, <1>10, <1>11, <1>12

LEMMA PlainStepCore ==
  ASSUME CoreInv, NEW t \in Lwps, Ready, ~Waiting, PlainStep(t),
         g_dbg' \in Session, bps' = bps, SameSession,
         op' \in Call, op' = op \/ (op'.cmd = "continue" /\ g_dbg.attached = TRUE)
  PROVE  /\ CoreInv' /\ (TextInv => TextInv') /\ (ArmInv => ArmInv')
         /\ UNCHANGED rip /\ proc' = Resumed(t) /\ SwBehind(t) = {}
         /\ StatusRegs /\ proc'.live = proc.live
<1> USE DEF CoreInv
<1>1. /\ ClearHardwareStatus(t) /\ proc' = Resumed(t) /\ SwBehind(t) = {}
      /\ UNCHANGED <<int3, rip>>
  BY DEF PlainStep
<1>2. /\ dr' \in [Lwps -> Registers] /\ dr6' \in [Lwps -> SUBSET (WpSlots \cup {BS})]
      /\ StatusRegs
  BY <1>1, StatusFacts
<1>3. /\ proc' \in Process /\ proc'.state = "run" /\ proc'.stepping = t
      /\ proc'.event = "none" /\ proc'.live = proc.live
  BY <1>1, ProcMoves DEF Ready, TypeOK
<1>4. ~Waiting'
  BY DEF Waiting
<1>5. TypeOK'
  BY <1>1, <1>2, <1>3 DEF TypeOK
<1>6. TableInv'
  BY TableKept DEF SameSession
<1>7. ProcInv'
  BY <1>3, <1>4 DEF ProcInv
<1>8. TextInv => TextInv'
  BY <1>1 DEF TextInv, Alive, Ready
<1>9. ArmInv => ArmInv'
  BY <1>4 DEF ArmInv, Alive, Ready
<1> QED
  BY <1>1, <1>2, <1>3, <1>5, <1>6, <1>7, <1>8, <1>9

LEMMA ReinstallFacts ==
  ASSUME CoreInv, Waiting, bps' = ReinstalledTable
  PROVE  /\ ReinstalledTable \in Tables /\ Sound(bps') /\ ReinstalledText \subseteq Insns
         /\ SameSession => SameTable
         /\ Agrees(bps, int3) => Agrees(bps', ReinstalledText)
         /\ Alive /\ Alive' /\ ~Waiting' => (ArmInv => ArmInv')
<1>1. /\ g_dbg \in Session /\ Sound(bps) /\ op.slot \in Sw(bps) /\ op.slot \in BpSlots
      /\ bps[op.slot].installed = FALSE
  BY DEF CoreInv, TypeOK, TableInv, Sw
<1>2. /\ ReinstalledTable \in Tables /\ Sound(ReinstalledTable)
      /\ Sw(ReinstalledTable) = Sw(bps)
      /\ ReinstalledTable[op.slot].installed = TRUE
      /\ ReinstalledTable[op.slot].conditional = bps[op.slot].conditional
      /\ \A u \in BpSlots : /\ u # op.slot => ReinstalledTable[u] = bps[u]
                            /\ ReinstalledTable[u].address = bps[u].address
                            /\ ReinstalledTable[u].active = bps[u].active
                            /\ ReinstalledTable[u].kind = bps[u].kind
      /\ Agrees(bps, int3) => Agrees(ReinstalledTable, ReinstalledText)
  BY <1>1, Reinstalling
<1>3. ReinstalledText \subseteq Insns
  <2>1. bps[op.slot].address \in Insns
    BY <1>1 DEF Sound, Sw
  <2> QED
    BY <2>1 DEF ReinstalledText, CoreInv, TypeOK, bps
<1>4. \A u \in BpSlots : bps'[u].conditional = bps[u].conditional
  BY <1>2
<1>5. SameTable
  BY <1>2, <1>4 DEF SameTable
<1>6. Alive /\ Alive' /\ ~Waiting' => (ArmInv => ArmInv')
  <2>1. Sw(bps) \subseteq BpSlots
    BY DEF Sw
  <2> QED
    BY <2>1, <1>2 DEF ArmInv
<1> QED
  BY <1>2, <1>3, <1>5, <1>6

LEMMA StepOverStoppedCore ==
  ASSUME CoreInv, StepOverStopped
  PROVE  /\ CoreInv' /\ (TextInv => TextInv')
         /\ "write" \notin Faults => (ArmInv => ArmInv')
         /\ UNCHANGED thread /\ SameTable /\ SameSession
         /\ Waiting /\ ~Waiting' /\ op'.cmd # "detach"
         /\ proc.state = "stop" /\ proc'.state = "stop" /\ proc'.event = "none"
<1> USE DEF CoreInv
<1>1. /\ Waiting /\ proc.event = "stop" /\ proc' = Reported
      /\ UNCHANGED <<rip, dr, dr6>>
  BY DEF StepOverStopped, Waiting, thread
<1>2. \/ /\ "write" \in Faults /\ op' = NoOp /\ UNCHANGED <<g_dbg, int3>>
      \/ /\ int3' = ReinstalledText /\ op' = NoOp
         /\ g_dbg' = [g_dbg EXCEPT !.breakpoints = ReinstalledTable,
                                   !.stopped = TRUE, !.stop_lwp = op.lwp]
      \/ /\ int3' = ReinstalledText
         /\ op' = [NoOp EXCEPT !.cmd = "continue", !.todo = op.todo]
         /\ g_dbg' = [g_dbg EXCEPT !.breakpoints = ReinstalledTable]
  BY DEF StepOverStopped
<1>3. /\ g_dbg \in Session /\ Sound(bps) /\ proc \in Process /\ op \in Call
      /\ op.todo \in Seq(Lwps) /\ op.lwp \in Lwps /\ g_dbg.attached = TRUE
  BY <1>1, CallFields DEF TypeOK, TableInv, Waiting
<1>4. proc.state = "stop" /\ proc' \in Process /\ proc'.state = "stop"
      /\ proc'.event = "none" /\ proc'.live = proc.live
  BY <1>1, <1>3, ProcMoves DEF ProcInv
<1>5. /\ op' \in Call /\ op'.cmd \in {"none", "continue"} /\ ~Waiting' /\ op'.cmd # "detach"
  BY <1>2, <1>3, NoOpFacts DEF Waiting
<1>6. CASE /\ "write" \in Faults /\ op' = NoOp /\ UNCHANGED <<g_dbg, int3>>
  <2>1. /\ g_dbg' \in Session /\ SameTable /\ SameSession /\ Sound(bps') /\ int3' \subseteq Insns
        /\ Agrees(bps, int3) => Agrees(bps', int3')
    BY <1>6, <1>3 DEF SameTable, SameSession, bps, wps, TypeOK
  <2>2. TypeOK'
    BY <2>1, <1>1, <1>4, <1>5 DEF TypeOK
  <2>3. TableInv' /\ ProcInv'
    BY <2>1, <1>3, <1>4, <1>5, SameTableKept DEF ProcInv
  <2>4. TextInv => TextInv'
    BY <2>1, <1>4 DEF TextInv, Alive
  <2> QED
    BY <1>1, <1>4, <1>5, <1>6, <2>1, <2>2, <2>3, <2>4 DEF thread
<1>7. ASSUME int3' = ReinstalledText, g_dbg' \in Session, SameSession, bps' = ReinstalledTable
      PROVE  /\ CoreInv' /\ (TextInv => TextInv') /\ (ArmInv => ArmInv')
             /\ UNCHANGED thread /\ SameTable /\ SameSession
  <2>1. /\ SameTable /\ Sound(bps') /\ int3' \subseteq Insns
        /\ Agrees(bps, int3) => Agrees(bps', int3')
        /\ Alive /\ Alive' /\ ~Waiting' => (ArmInv => ArmInv')
    BY <1>1, <1>7, ReinstallFacts
  <2>2. TypeOK'
    BY <2>1, <1>1, <1>4, <1>5, <1>7 DEF TypeOK
  <2>3. TableInv' /\ ProcInv'
    BY <2>1, <1>3, <1>4, <1>5, <1>7, SameTableKept DEF ProcInv
  <2>4. (TextInv => TextInv') /\ (ArmInv => ArmInv')
    BY <2>1, <1>4, <1>5 DEF TextInv, Alive
  <2> QED
    BY <1>1, <1>7, <2>1, <2>2, <2>3, <2>4 DEF thread
<1>8. \A b \in Tables, l \in Lwps :
        /\ g_dbg' = [g_dbg EXCEPT !.breakpoints = b, !.stopped = TRUE, !.stop_lwp = l]
             => g_dbg' \in Session /\ SameSession /\ bps' = b
        /\ g_dbg' = [g_dbg EXCEPT !.breakpoints = b]
             => g_dbg' \in Session /\ SameSession /\ bps' = b
  BY <1>3 DEF Session, SameSession, bps, wps, Tables
<1>9. ReinstalledTable \in Tables
  BY <1>1, <1>3, Reinstalling DEF TableInv
<1>10. CASE int3' = ReinstalledText /\ ~("write" \in Faults /\ op' = NoOp /\ UNCHANGED <<g_dbg, int3>>)
  <2>1. g_dbg' \in Session /\ SameSession /\ bps' = ReinstalledTable
    BY <1>2, <1>3, <1>8, <1>9, <1>10
  <2> QED
    BY <2>1, <1>1, <1>4, <1>5, <1>7, <1>10
<1> QED
  BY <1>2, <1>6, <1>10

LEMMA StepOverForcedCore ==
  ASSUME CoreInv, StepOverForced
  PROVE  /\ CoreInv' /\ (TextInv => TextInv')
         /\ "write" \notin Faults => (ArmInv => ArmInv')
         /\ UNCHANGED thread /\ SameTable /\ SameSession
         /\ Waiting /\ op' = NoOp
         /\ proc.state = "run" /\ proc'.state = "stop" /\ proc'.event = "none"
<1> USE DEF CoreInv
<1>1. /\ Waiting /\ proc.state = "run" /\ op' = NoOp
      /\ UNCHANGED <<rip, dr, dr6>>
  BY DEF StepOverForced, Waiting, thread
<1>2. PICK pending \in BOOLEAN : proc' = [Halted EXCEPT !.event = "none", !.sigstop = pending]
  BY DEF StepOverForced
<1>3. \/ "write" \in Faults /\ UNCHANGED <<g_dbg, int3>>
      \/ /\ int3' = ReinstalledText
         /\ g_dbg' = [g_dbg EXCEPT !.breakpoints = ReinstalledTable]
  BY DEF StepOverForced
<1>4. g_dbg \in Session /\ Sound(bps) /\ proc \in Process
  BY DEF TypeOK, TableInv
<1>5. /\ proc' \in Process /\ proc'.state = "stop" /\ proc'.event = "none"
      /\ proc'.live = proc.live
  <2>1. Halted \in Process /\ Halted.state = "stop" /\ Halted.live = proc.live
    BY <1>4, ProcMoves
  <2> QED
    BY <2>1, <1>2 DEF Process
<1>6. op' \in Call /\ op'.cmd = "none" /\ ~Waiting'
  BY <1>1, NoOpFacts DEF Waiting
<1>7. /\ g_dbg' \in Session /\ SameTable /\ SameSession /\ Sound(bps') /\ int3' \subseteq Insns
      /\ Agrees(bps, int3) => Agrees(bps', int3')
      /\ "write" \notin Faults => (ArmInv => ArmInv')
  <2>1. CASE "write" \in Faults /\ UNCHANGED <<g_dbg, int3>>
    BY <2>1, <1>4 DEF SameTable, SameSession, bps, wps, TypeOK
  <2>2. CASE /\ int3' = ReinstalledText
             /\ g_dbg' = [g_dbg EXCEPT !.breakpoints = ReinstalledTable]
    <3>1. ReinstalledTable \in Tables
      BY <1>1, <1>4, Reinstalling DEF TableInv
    <3>2. g_dbg' \in Session /\ SameSession /\ bps' = ReinstalledTable
      BY <3>1, <2>2, <1>4 DEF Session, SameSession, bps, wps, Tables
    <3> QED
      BY <3>2, <2>2, <1>1, <1>5, <1>6, ReinstallFacts DEF Alive
  <2> QED
    BY <2>1, <2>2, <1>3
<1>8. TypeOK'
  BY <1>1, <1>5, <1>6, <1>7 DEF TypeOK
<1>9. TableInv' /\ ProcInv'
  BY <1>5, <1>6, <1>7, SameTableKept DEF ProcInv
<1>10. TextInv => TextInv'
  BY <1>1, <1>7 DEF TextInv, Alive
<1> QED
  BY <1>1, <1>5, <1>7, <1>8, <1>9, <1>10 DEF thread

LEMMA StepOverGivesUpCore ==
  ASSUME CoreInv, StepOverGivesUp
  PROVE  /\ CoreInv' /\ (TextInv => TextInv')
         /\ "hang" \in Faults /\ UNCHANGED <<g_dbg, thread>>
         /\ proc'.live = proc.live /\ proc'.state = proc.state /\ op' = NoOp
<1> USE DEF CoreInv
<1>1. /\ op' = NoOp /\ "hang" \in Faults
      /\ UNCHANGED <<g_dbg, int3, rip, dr, dr6>>
  BY DEF StepOverGivesUp, thread
<1>2. PICK pending \in {TRUE, proc.sigstop} : proc' = [proc EXCEPT !.sigstop = pending]
  BY DEF StepOverGivesUp
<1>3. /\ proc' \in Process /\ proc'.state = proc.state /\ proc'.event = proc.event
      /\ proc'.live = proc.live
  BY <1>2 DEF TypeOK, Process
<1>4. op' \in Call /\ op'.cmd = "none" /\ ~Waiting'
  BY <1>1, NoOpFacts DEF Waiting
<1>5. TypeOK'
  BY <1>1, <1>3, <1>4 DEF TypeOK
<1>6. TableInv' /\ ProcInv'
  BY <1>1, <1>3, <1>4, TableKept DEF ProcInv, bps
<1>7. TextInv => TextInv'
  BY <1>1, <1>3 DEF TextInv, Alive, bps
<1> QED
  BY <1>1, <1>3, <1>5, <1>6, <1>7 DEF thread

LEMMA StepOverExitedCore ==
  ASSUME CoreInv, StepOverExited
  PROVE  /\ CoreInv' /\ proc'.state = "exit" /\ ~Alive /\ op' = NoOp
         /\ UNCHANGED <<g_dbg, int3, thread>>
<1> USE DEF CoreInv
<1>1. /\ proc.event = "exit" /\ proc' = Reported /\ op' = NoOp
      /\ UNCHANGED <<g_dbg, int3, rip, dr, dr6>>
  BY DEF StepOverExited, thread
<1>2. /\ proc.state = "exit" /\ proc' \in Process /\ proc'.state = "exit"
      /\ proc'.event = "none" /\ proc'.live = proc.live
  BY <1>1, ProcMoves DEF ProcInv, TypeOK
<1>3. op' \in Call /\ op'.cmd = "none" /\ ~Waiting'
  BY <1>1, NoOpFacts DEF Waiting
<1>4. TypeOK'
  BY <1>1, <1>2, <1>3 DEF TypeOK
<1>5. TableInv' /\ ProcInv'
  BY <1>1, <1>2, <1>3, TableKept DEF ProcInv, bps
<1> QED
  BY <1>1, <1>2, <1>4, <1>5 DEF thread, Alive

LEMMA StepCore ==
  ASSUME CoreInv, NEW t \in Lwps, Step(t)
  PROVE  /\ CoreInv' /\ (TextInv => TextInv')
         /\ "write" \notin Faults => (ArmInv => ArmInv')
         /\ SameTable /\ SameSession
         /\ StatusRegs /\ proc'.live = proc.live /\ (Alive' => Alive)
<1>1. /\ op.cmd = "none" /\ g_dbg.attached = TRUE /\ Ready /\ ~Waiting /\ g_dbg \in Session
      /\ op \in Call
  BY SessionFields DEF Step, Idle, Waiting, CoreInv, TypeOK
<1>2. CASE StepOverBegin(t, "step wait", <<>>)
  <2>1. <<>> \in Seq(Lwps)
    OBVIOUS
  <2> QED
    BY <2>1, <1>1, <1>2, StepOverBeginCore DEF Ready, Alive
<1>3. CASE StepOverRefused(t)
  BY <1>1, <1>3, StepOverRefusedCore DEF Ready, Alive
<1>4. CASE /\ PlainStep(t)
           /\ g_dbg' = [g_dbg EXCEPT !.stopped = FALSE, !.stop_lwp = 0]
           /\ UNCHANGED op
  <2>1. g_dbg' \in Session /\ bps' = bps /\ SameSession
    BY <1>1, <1>4 DEF Session, SameSession, bps, wps
  <2> QED
    BY <2>1, <1>1, <1>4, PlainStepCore DEF SameTable, Ready, Alive
<1> QED
  BY <1>2, <1>3, <1>4 DEF Step

-----------------------------------------------------------------------------
(* memdbg_debugger_continue *)

LEMMA SyncedFacts ==
  ASSUME TypeOK, Main \in proc.live, NEW w \in Registers, NEW partial \in BOOLEAN,
         NEW r \in sync_hardware_dbregs(w, partial), NEW b \in Tables, NEW v \in Registers,
         Synced(r, b, v)
  PROVE  /\ g_dbg' \in Session /\ g_dbg'.attached = g_dbg.attached
         /\ g_dbg'.stopped = g_dbg.stopped /\ bps' = b /\ wps' = v
         /\ g_dbg'.dbregs_valid = r.valid
         /\ dr' = r.regs.dr /\ dr6' = r.regs.dr6 /\ dr' \in [Lwps -> Registers]
         /\ dr6' \in [Lwps -> SUBSET (WpSlots \cup {BS})]
<1>1. /\ r.valid \in BOOLEAN /\ r.dbregs \in Registers
      /\ r.regs.dr \in [Lwps -> Registers]
      /\ r.regs.dr6 \in [Lwps -> SUBSET (WpSlots \cup {BS})]
  BY SyncFacts DEF SyncOutcome
<1>2. /\ g_dbg' = [g_dbg EXCEPT !.breakpoints = b, !.watchpoints = v,
                                !.dbregs = r.dbregs, !.dbregs_valid = r.valid]
      /\ dr' = r.regs.dr /\ dr6' = r.regs.dr6
  BY DEF Synced
<1>3. g_dbg \in Session
  BY DEF TypeOK
<1> PICK d, x : d = r.dbregs /\ x = r.valid
  OBVIOUS
<1>4. d \in Registers /\ x \in BOOLEAN
      /\ g_dbg' = [g_dbg EXCEPT !.breakpoints = b, !.watchpoints = v,
                                !.dbregs = d, !.dbregs_valid = x]
  BY <1>1, <1>2
<1>5. /\ g_dbg' \in Session /\ g_dbg'.attached = g_dbg.attached
      /\ g_dbg'.stopped = g_dbg.stopped /\ bps' = b /\ wps' = v
      /\ g_dbg'.dbregs_valid = x
  BY <1>3, <1>4 DEF Session, Tables, bps, wps
<1> QED
  BY <1>1, <1>2, <1>5

(* A step that changes the table of breakpoints from call to call. *)
LEMMA RecordCore ==
  ASSUME CoreInv, g_dbg' \in Session, g_dbg'.attached = g_dbg.attached,
         op' = op \/ (op' \in Call /\ op'.cmd \in {"none", "continue"}),
         op'.cmd # "none" => g_dbg.attached = TRUE, ~Waiting',
         proc' = proc, UNCHANGED rip,
         dr' \in [Lwps -> Registers], dr6' \in [Lwps -> SUBSET (WpSlots \cup {BS})],
         int3' \subseteq Insns, Sound(bps'), bps' = bps \/ g_dbg.attached = TRUE
  PROVE  CoreInv'
<1> USE DEF CoreInv
<1>1. TypeOK'
  BY DEF TypeOK
<1>2. ProcInv'
  BY ProcKept
<1>3. op'.cmd = "detach" => Sent("detach")
  BY DEF TableInv
<1>4. TableInv'
  BY <1>3 DEF TableInv, Sent
<1> QED
  BY <1>1, <1>2, <1>4

LEMMA ContinueCore ==
  ASSUME CoreInv, Continue
  PROVE  /\ CoreInv' /\ (TextInv => TextInv') /\ (ArmInv => ArmInv')
         /\ op.cmd = "none" /\ Ready /\ g_dbg.attached = TRUE
         /\ op'.cmd = "continue" /\ ("lwplist" \notin Faults => op'.todo # <<>>)
         /\ UNCHANGED <<proc, rip, int3>> /\ bps' = bps /\ wps' = wps
         /\ g_dbg.attached = TRUE /\ g_dbg'.attached = TRUE
         /\ g_dbg'.stopped = g_dbg.stopped
<1> USE DEF CoreInv
<1>1. /\ op.cmd = "none" /\ g_dbg.attached = TRUE /\ Ready /\ g_dbg \in Session
      /\ UNCHANGED <<proc, rip, int3>>
      /\ Main \in proc.live /\ proc \in Process
  BY SessionFields DEF Continue, Idle, TypeOK, ProcInv
<1>2. bps \in Tables /\ wps \in Registers
  BY <1>1, SessionFields DEF bps, wps
<1>3. /\ g_dbg' \in Session /\ g_dbg'.attached = g_dbg.attached
      /\ g_dbg'.stopped = g_dbg.stopped /\ bps' = bps /\ wps' = wps
      /\ dr' \in [Lwps -> Registers] /\ dr6' \in [Lwps -> SUBSET (WpSlots \cup {BS})]
  <2>1. CASE MustRearm
    <3>1. PICK r \in sync_hardware_dbregs(wps, TRUE) : Synced(r, bps, wps)
      BY <2>1 DEF Continue, bps, wps
    <3> QED
      BY <3>1, <1>1, <1>2, SyncedFacts
  <2>2. CASE ~MustRearm
    BY <2>2, <1>1 DEF Continue, bps, wps, TypeOK
  <2> QED
    BY <2>1, <2>2
<1>4. PICK lwps \in ThreadLists : op' = [NoOp EXCEPT !.cmd = "continue", !.todo = lwps]
  BY DEF Continue
<1>5. lwps \in Seq(Lwps) /\ ("lwplist" \notin Faults => lwps # <<>>)
  BY <1>1, ListsFacts
<1>6. /\ op' \in Call /\ op'.cmd = "continue" /\ op'.todo = lwps /\ ~Waiting'
  BY <1>4, <1>5, NoOpFacts DEF Waiting
<1>7. CoreInv'
  BY <1>1, <1>3, <1>6, RecordCore DEF TypeOK, TableInv
<1>8. TextInv => TextInv'
  BY <1>1, <1>3 DEF TextInv, Alive
<1>9. ArmInv => ArmInv'
  <2>1. ~Waiting
    BY <1>1 DEF Waiting
  <2> QED
    BY <2>1, <1>1, <1>3 DEF ArmInv, Alive
<1> QED
  BY <1>1, <1>3, <1>5, <1>6, <1>7, <1>8, <1>9

LEMMA ContinueThreadCore ==
  ASSUME CoreInv, ContinueThread
  PROVE  /\ CoreInv' /\ (TextInv => TextInv')
         /\ "write" \notin Faults => (ArmInv => ArmInv')
         /\ SameTable /\ SameSession
         /\ StatusRegs /\ proc'.live = proc.live /\ (Alive' => Alive)
<1> USE DEF CoreInv
<1>1. /\ op.cmd = "continue" /\ op.todo # <<>> /\ ~Waiting /\ g_dbg.attached = TRUE
      /\ op.todo \in Seq(Lwps) /\ op \in Call /\ g_dbg \in Session
  BY CallFields DEF ContinueThread, Waiting, TypeOK, TableInv
<1> PICK t, rest : t = Head(op.todo) /\ rest = Tail(op.todo)
  OBVIOUS
<1>2. t \in Lwps /\ rest \in Seq(Lwps)
  BY <1>1
<1>3. ASSUME op' = [op EXCEPT !.todo = rest]
      PROVE  op' \in Call /\ op'.cmd = "continue" /\ ~Waiting'
  BY <1>1, <1>2, <1>3 DEF Call, Waiting
<1>4. CASE op' = [op EXCEPT !.todo = rest] /\ UNCHANGED <<g_dbg, proc, int3, thread>>
  <2>1. op' \in Call /\ op'.cmd = "continue" /\ ~Waiting'
    BY <1>3, <1>4
  <2>2. bps' = bps /\ UNCHANGED <<g_dbg, proc, int3, rip, dr, dr6>>
    BY <1>4 DEF bps, thread
  <2>3. CoreInv'
    BY <2>1, <2>2, <1>1, RecordCore DEF TypeOK, TableInv
  <2> QED
    BY <2>1, <2>2, <2>3, <1>1 DEF TextInv, ArmInv, Alive, SameTable, SameSession, wps, StatusRegs
<1>5. CASE NeedsStepOver(t) /\ StepOverBegin(t, "continue wait", rest)
  BY <1>1, <1>2, <1>5, StepOverBeginCore DEF Ready, Alive, NeedsStepOver
<1>6. CASE NeedsStepOver(t) /\ StepOverRefused(t)
  BY <1>1, <1>2, <1>6, StepOverRefusedCore DEF Ready, Alive, NeedsStepOver
<1>7. CASE /\ NeedsStepOver(t) /\ PlainStep(t) /\ op' = [op EXCEPT !.todo = rest]
           /\ UNCHANGED g_dbg
  <2>1. op' \in Call /\ op'.cmd = "continue" /\ ~Waiting'
    BY <1>3, <1>7
  <2>2. g_dbg' \in Session /\ bps' = bps /\ SameSession
    BY <1>1, <1>7 DEF SameSession, bps, wps
  <2> QED
    BY <2>1, <2>2, <1>1, <1>2, <1>7, PlainStepCore DEF Ready, Alive, NeedsStepOver, SameTable
<1> QED
  BY <1>4, <1>5, <1>6, <1>7 DEF ContinueThread

LEMMA ContinueResumeCore ==
  ASSUME CoreInv, ContinueResume
  PROVE  /\ CoreInv' /\ (TextInv => TextInv') /\ (ArmInv => ArmInv')
         /\ op.cmd = "continue" /\ op.todo = <<>> /\ op' = NoOp
         /\ UNCHANGED <<int3, thread>> /\ bps' = bps /\ SameSession
         /\ \/ proc' = Resumed(0) /\ Ready /\ g_dbg'.stopped = FALSE
            \/ UNCHANGED <<proc, g_dbg>>
<1> USE DEF CoreInv
<1>1. /\ op.cmd = "continue" /\ op.todo = <<>> /\ op' = NoOp /\ g_dbg \in Session
      /\ UNCHANGED <<int3, rip, dr, dr6>> /\ proc \in Process
      /\ op'.cmd = "none" /\ op' \in Call /\ ~Waiting /\ ~Waiting'
  BY NoOpFacts DEF ContinueResume, TypeOK, Waiting, thread
<1>2. CASE Ready /\ proc' = Resumed(0) /\ g_dbg' = Running
  <2>1. /\ proc' \in Process /\ proc'.state = "run" /\ proc'.event = "none"
        /\ proc'.live = proc.live
    <3>1. /\ Resumed(0) \in Process /\ Resumed(0).state = "run"
          /\ Resumed(0).event = proc.event /\ Resumed(0).live = proc.live
      BY <1>1, ProcMoves
    <3> QED
      BY <3>1, <1>2 DEF Ready
  <2>2. g_dbg' \in Session /\ bps' = bps /\ SameSession /\ g_dbg'.stopped = FALSE
    BY <1>1, <1>2 DEF Session, SameSession, bps, wps, Running
  <2>3. TypeOK'
    BY <2>1, <2>2, <1>1 DEF TypeOK
  <2>4. TableInv' /\ ProcInv'
    BY <2>1, <2>2, <1>1, TableKept DEF ProcInv, SameSession
  <2>5. (TextInv => TextInv') /\ (ArmInv => ArmInv')
    BY <2>2, <1>1, <1>2 DEF TextInv, ArmInv, Alive, Ready
  <2> QED
    BY <2>2, <2>3, <2>4, <2>5, <1>1, <1>2 DEF thread
<1>3. CASE UNCHANGED <<proc, g_dbg>>
  <2>1. bps' = bps /\ SameSession
    BY <1>3 DEF SameSession, bps, wps
  <2>2. TypeOK'
    BY <1>1, <1>3 DEF TypeOK
  <2>3. TableInv' /\ ProcInv'
    BY <1>1, <1>3, <2>1, TableKept, ProcKept
  <2>4. (TextInv => TextInv') /\ (ArmInv => ArmInv')
    BY <2>1, <1>1, <1>3 DEF TextInv, ArmInv, Alive
  <2> QED
    BY <2>1, <2>2, <2>3, <2>4, <1>1, <1>3 DEF thread
<1> QED
  BY <1>2, <1>3 DEF ContinueResume

-----------------------------------------------------------------------------
(* memdbg_debugger_attach, _stop and _poll_events *)

LEMMA AttachCore ==
  ASSUME CoreInv, Attach
  PROVE  /\ CoreInv' /\ (TextInv => TextInv') /\ ArmInv'
         /\ UNCHANGED <<op, int3, thread>> /\ op.cmd = "none" /\ g_dbg.attached = FALSE
         /\ proc'.state = "stop" /\ proc'.event = "none" /\ Alive
         /\ bps' = NoSession.breakpoints /\ wps' = NoWps
         /\ g_dbg'.dbregs_valid = FALSE /\ proc'.live = proc.live
<1> USE DEF CoreInv
<1>1. /\ op.cmd = "none" /\ proc.state # "exit" /\ proc \in Process /\ g_dbg \in Session
      /\ g_dbg.attached = FALSE
      /\ UNCHANGED <<op, int3, rip, dr, dr6>>
      /\ g_dbg' = [NoSession EXCEPT !.attached = TRUE, !.stopped = TRUE]
      /\ proc' = [proc EXCEPT !.state = "stop", !.event = "none", !.stepping = 0]
  BY SessionFields DEF Attach, Idle, TypeOK, thread
<1>2. /\ proc' \in Process /\ proc'.state = "stop" /\ proc'.event = "none"
      /\ proc'.live = proc.live
  BY <1>1 DEF Process
<1>3. /\ g_dbg' \in Session /\ g_dbg'.attached = TRUE /\ bps' = NoSession.breakpoints
      /\ wps' = NoWps /\ g_dbg'.dbregs_valid = FALSE
  BY <1>1, NoSessionFacts DEF Session, bps, wps
<1>4. Sound(bps') /\ Sw(bps') = {} /\ Agrees(bps', {})
  BY <1>3, EmptyTable
<1>5. TypeOK'
  BY <1>1, <1>2, <1>3 DEF TypeOK
<1>6. ProcInv' /\ ~Waiting'
  BY <1>1, <1>2 DEF ProcInv, Waiting
<1>7. TableInv'
  BY <1>1, <1>3, <1>4, <1>6 DEF TableInv
<1>8. TextInv => TextInv'
  <2>1. Sw(bps) = {}
    BY <1>1 DEF TableInv, Sw
  <2>2. Agrees(bps, int3) => int3 = {}
    BY <2>1, PlantedAt DEF Agrees
  <2> QED
    BY <2>2, <1>1, <1>4 DEF TextInv, Alive
<1>9. ArmInv'
  BY <1>4 DEF ArmInv
<1> QED
  BY <1>1, <1>2, <1>3, <1>5, <1>6, <1>7, <1>8, <1>9 DEF thread, Alive

(* SIGSTOP is sent: memdbg_debugger_stop, and the start of a detach. *)
LEMMA SignalCore ==
  ASSUME CoreInv, op.cmd = "none", g_dbg.attached = TRUE, g_dbg.stopped = FALSE,
         proc' = [proc EXCEPT !.sigstop = TRUE],
         op' = op \/ (op' = [NoOp EXCEPT !.cmd = "detach"] /\ Sent("detach")),
         UNCHANGED <<g_dbg, int3, thread>>
  PROVE  /\ CoreInv' /\ (TextInv => TextInv') /\ (ArmInv => ArmInv')
         /\ proc'.state = proc.state /\ proc'.event = proc.event
         /\ op'.cmd \in {"none", "detach"} /\ proc'.live = proc.live
<1> USE DEF CoreInv
<1>1. /\ UNCHANGED <<rip, dr, dr6>> /\ bps' = bps
  BY DEF thread, bps
<1>2. /\ proc' \in Process /\ proc'.state = proc.state /\ proc'.event = proc.event
      /\ proc'.live = proc.live
  BY DEF Process, TypeOK
<1>3. op' \in Call /\ op'.cmd \in {"none", "detach"} /\ ~Waiting /\ ~Waiting'
  BY NoOpFacts DEF Waiting, TypeOK
<1>4. TypeOK'
  BY <1>1, <1>2, <1>3 DEF TypeOK
<1>5. TableInv'
  BY <1>1, <1>3, TableKept, NoOpFacts
<1>6. ProcInv'
  BY <1>2, <1>3 DEF ProcInv
<1> QED
  BY <1>1, <1>2, <1>3, <1>4, <1>5, <1>6 DEF TextInv, ArmInv, Alive

LEMMA PollFacts ==
  ASSUME CoreInv, g_dbg.attached = TRUE, Poll
  PROVE  /\ UNCHANGED <<int3, thread>> /\ g_dbg' \in Session
         /\ proc' \in Process /\ proc'.event = "none" /\ proc'.live = proc.live
         /\ \/ /\ g_dbg' = NoSession /\ proc'.state = "exit" /\ proc.state = "exit"
            \/ /\ bps' = bps /\ SameSession /\ proc.state = "stop"
               /\ \/ g_dbg'.stopped = TRUE /\ proc'.state = "stop"
                  \/ /\ g_dbg'.stopped = FALSE /\ proc'.state \in {"run", "stop"}
                     /\ \E s \in BpSlots : bps[s].conditional = TRUE
<1>1. /\ g_dbg \in Session /\ proc \in Process /\ Main \in proc.live
  BY DEF CoreInv, TypeOK, ProcInv
<1>2. CASE proc.event = "exit" /\ g_dbg' = NoSession /\ proc' = Reported /\ UNCHANGED <<int3, thread>>
  <2>1. /\ proc' \in Process /\ proc'.event = "none" /\ proc'.live = proc.live
        /\ proc'.state = "exit" /\ proc.state = "exit"
    BY <1>1, <1>2, ProcMoves DEF CoreInv, ProcInv
  <2> QED
    BY <2>1, <1>2, NoSessionFacts
<1>3. ASSUME proc.event = "stop", UNCHANGED <<int3, thread>>, NEW l \in Lwps \cup {0},
             g_dbg' = [g_dbg EXCEPT !.stopped = TRUE, !.stop_lwp = l], proc' = Reported
      PROVE  /\ g_dbg' \in Session /\ bps' = bps /\ SameSession /\ proc.state = "stop"
             /\ g_dbg'.stopped = TRUE /\ proc'.state = "stop"
             /\ proc' \in Process /\ proc'.event = "none" /\ proc'.live = proc.live
  <2>1. g_dbg' \in Session /\ bps' = bps /\ SameSession /\ g_dbg'.stopped = TRUE
    BY <1>1, <1>3 DEF Session, SameSession, bps, wps
  <2> QED
    BY <2>1, <1>1, <1>3, ProcMoves DEF CoreInv, ProcInv
<1>4. ASSUME proc.event = "stop", UNCHANGED <<int3, thread>>,
             g_dbg' = [g_dbg EXCEPT !.stopped = FALSE, !.stop_lwp = 0],
             proc' = Reported \/ proc' = [Resumed(0) EXCEPT !.event = "none"]
      PROVE  /\ g_dbg' \in Session /\ bps' = bps /\ SameSession /\ proc.state = "stop"
             /\ g_dbg'.stopped = FALSE /\ proc'.state \in {"run", "stop"}
             /\ proc' \in Process /\ proc'.event = "none" /\ proc'.live = proc.live
  <2>1. g_dbg' \in Session /\ bps' = bps /\ SameSession /\ g_dbg'.stopped = FALSE
    BY <1>1, <1>4 DEF Session, SameSession, bps, wps
  <2>2. 0 \in Lwps \cup {0}
    OBVIOUS
  <2>3. CASE proc' = Reported
    BY <2>1, <2>3, <1>1, <1>4, ProcMoves DEF CoreInv, ProcInv
  <2>4. CASE proc' = [Resumed(0) EXCEPT !.event = "none"]
    <3>1. /\ proc' \in Process /\ proc'.event = "none" /\ proc'.state = "run"
          /\ proc'.live = proc.live
      BY <2>2, <2>4, <1>1, ProcMoves
    <3> QED
      BY <3>1, <2>1, <1>4 DEF CoreInv, ProcInv
  <2> QED
    BY <2>3, <2>4, <1>4
<1>5. CASE /\ proc.event = "stop" /\ UNCHANGED <<int3, thread>>
           /\ \E lwps \in ThreadLists :
                LET at  == {i \in DOMAIN lwps : BpAt(rip[lwps[i]] - 1) # {}}
                    hit == {i \in DOMAIN lwps : \E s \in dr6[lwps[i]] \cap WpSlots :
                                                  g_dbg.watchpoints[s].installed}
                IN \/ /\ at # {}
                      /\ \E s \in BpAt(rip[lwps[Min(at)]] - 1) : g_dbg.breakpoints[s].conditional
                      /\ g_dbg' = [g_dbg EXCEPT !.stopped = FALSE, !.stop_lwp = 0]
                      /\ \E failed \in MayFail("resume") :
                           proc' = IF failed THEN Reported
                                   ELSE [Resumed(0) EXCEPT !.event = "none"]
                   \/ /\ g_dbg' = [g_dbg EXCEPT !.stopped = TRUE,
                                     !.stop_lwp = IF at # {} THEN lwps[Min(at)]
                                                  ELSE IF hit # {} THEN lwps[Min(hit)] ELSE 0]
                      /\ proc' = Reported
  <2> PICK lwps \in ThreadLists :
         LET at  == {i \in DOMAIN lwps : BpAt(rip[lwps[i]] - 1) # {}}
             hit == {i \in DOMAIN lwps : \E s \in dr6[lwps[i]] \cap WpSlots :
                                           g_dbg.watchpoints[s].installed}
         IN \/ /\ at # {}
               /\ \E s \in BpAt(rip[lwps[Min(at)]] - 1) : g_dbg.breakpoints[s].conditional
               /\ g_dbg' = [g_dbg EXCEPT !.stopped = FALSE, !.stop_lwp = 0]
               /\ \E failed \in MayFail("resume") :
                    proc' = IF failed THEN Reported
                            ELSE [Resumed(0) EXCEPT !.event = "none"]
            \/ /\ g_dbg' = [g_dbg EXCEPT !.stopped = TRUE,
                              !.stop_lwp = IF at # {} THEN lwps[Min(at)]
                                           ELSE IF hit # {} THEN lwps[Min(hit)] ELSE 0]
               /\ proc' = Reported
    BY <1>5, Zenon
  <2> DEFINE at  == {i \in DOMAIN lwps : BpAt(rip[lwps[i]] - 1) # {}}
             hit == {i \in DOMAIN lwps : \E s \in dr6[lwps[i]] \cap WpSlots :
                                           g_dbg.watchpoints[s].installed}
  <2>1. lwps \in Seq(Lwps)
    BY <1>1, ListsFacts
  <2>2. at \in SUBSET Nat /\ hit \in SUBSET Nat /\ at \subseteq DOMAIN lwps
        /\ hit \subseteq DOMAIN lwps
    BY <2>1
  <2>3. \A i \in DOMAIN lwps : lwps[i] \in Lwps
    BY <2>1
  <2>4. (at # {} => lwps[Min(at)] \in Lwps) /\ (hit # {} => lwps[Min(hit)] \in Lwps)
    <3> HIDE DEF at, hit
    <3> QED
      BY <2>2, <2>3, MinIn
  <2> DEFINE l == IF at # {} THEN lwps[Min(at)] ELSE IF hit # {} THEN lwps[Min(hit)] ELSE 0
  <2>5. l \in Lwps \cup {0}
    <3> HIDE DEF at, hit
    <3> QED
      BY <2>4
  <2>6. \/ /\ \E s \in BpAt(rip[lwps[Min(at)]] - 1) : g_dbg.breakpoints[s].conditional
           /\ g_dbg' = [g_dbg EXCEPT !.stopped = FALSE, !.stop_lwp = 0]
           /\ \E failed \in MayFail("resume") :
                 proc' = IF failed THEN Reported
                         ELSE [Resumed(0) EXCEPT !.event = "none"]
        \/ /\ g_dbg' = [g_dbg EXCEPT !.stopped = TRUE, !.stop_lwp = l]
           /\ proc' = Reported
    BY Zenon
  <2> HIDE DEF at, hit, l
  <2>7. CASE /\ g_dbg' = [g_dbg EXCEPT !.stopped = TRUE, !.stop_lwp = l]
             /\ proc' = Reported
    BY <2>5, <2>7, <1>3, <1>5
  <2>8. CASE /\ \E s \in BpAt(rip[lwps[Min(at)]] - 1) : g_dbg.breakpoints[s].conditional
             /\ g_dbg' = [g_dbg EXCEPT !.stopped = FALSE, !.stop_lwp = 0]
             /\ \E failed \in MayFail("resume") :
                  proc' = IF failed THEN Reported
                          ELSE [Resumed(0) EXCEPT !.event = "none"]
    <3>1. \E s \in BpSlots : bps[s].conditional = TRUE
      <4>1. PICK s \in BpSlots : bps[s].conditional
        BY <2>8 DEF BpAt, bps
      <4>2. bps[s].conditional \in BOOLEAN
        BY <1>1, TableFacts, BpFields
      <4> QED
        BY <4>1, <4>2
    <3>2. proc' = Reported \/ proc' = [Resumed(0) EXCEPT !.event = "none"]
      BY <2>8
    <3> QED
      BY <3>1, <3>2, <2>8, <1>4, <1>5
  <2> QED
    BY <2>6, <2>7, <2>8
<1> QED
  BY <1>2, <1>5, Zenon DEF Poll

LEMMA PollCore ==
  ASSUME CoreInv, g_dbg.attached = TRUE, ~Waiting, Poll,
         op' = op \/ op' = NoOp, g_dbg'.attached = FALSE => op'.cmd = "none"
  PROVE  CoreInv' /\ (TextInv => TextInv') /\ (ArmInv => ArmInv')
<1> USE DEF CoreInv
<1>1. /\ UNCHANGED <<int3, rip, dr, dr6>> /\ g_dbg' \in Session
      /\ proc' \in Process /\ proc'.event = "none" /\ proc'.live = proc.live
      /\ \/ /\ g_dbg' = NoSession /\ proc'.state = "exit" /\ proc.state = "exit"
         \/ /\ bps' = bps /\ SameSession /\ proc.state = "stop"
  BY PollFacts DEF thread
<1>2. op' \in Call /\ ~Waiting' /\ (op'.cmd # "none" => op' = op)
  BY NoOpFacts DEF Waiting, TypeOK
<1>3. TypeOK'
  BY <1>1, <1>2 DEF TypeOK
<1>4. ProcInv'
  BY <1>1, <1>2 DEF ProcInv
<1>5. CASE g_dbg' = NoSession /\ proc'.state = "exit"
  <2>1. g_dbg'.attached = FALSE /\ bps' = NoSession.breakpoints
    BY <1>5, NoSessionFacts DEF bps
  <2>2. /\ Sound(bps') /\ \A s \in BpSlots : bps'[s].active = FALSE
    BY <2>1, EmptyTable, NoSessionFacts, ZeroBpFacts
  <2>3. TableInv'
    BY <2>1, <2>2, <1>2, NoOpFacts DEF TableInv
  <2> QED
    BY <2>3, <1>3, <1>4, <1>5 DEF TextInv, ArmInv, Alive
<1>6. CASE bps' = bps /\ SameSession /\ proc.state = "stop"
  <2>1. TableInv'
    BY <1>6, TableKept, NoOpFacts DEF SameSession
  <2> QED
    BY <2>1, <1>1, <1>3, <1>4, <1>6 DEF TextInv, ArmInv, Alive
<1> QED
  BY <1>1, <1>5, <1>6

-----------------------------------------------------------------------------
(* memdbg_debugger_detach *)

LEMMA GivesUpCore ==
  ASSUME CoreInv, DetachGivesUp
  PROVE  CoreInv' /\ (TextInv => TextInv') /\ (ArmInv => ArmInv')
<1> USE DEF CoreInv
<1>1. /\ op.cmd = "detach" /\ op' = NoOp /\ UNCHANGED <<g_dbg, proc, int3>> /\ bps' = bps
      /\ UNCHANGED <<rip, dr, dr6>>
  BY DEF DetachGivesUp, thread, bps
<1>2. op' \in Call /\ ~Waiting' /\ ~Waiting /\ op'.cmd = "none"
  BY <1>1, NoOpFacts DEF Waiting
<1>3. TypeOK'
  BY <1>1, <1>2 DEF TypeOK
<1>4. TableInv' /\ ProcInv'
  BY <1>1, <1>2, TableKept, ProcKept
<1> QED
  BY <1>1, <1>2, <1>3, <1>4 DEF TextInv, ArmInv, Alive

LEMMA DetachRegsFacts ==
  ASSUME TypeOK, Main \in proc.live, NEW r \in DetachRegs
  PROVE  /\ r.regs.dr \in [Lwps -> Registers]
         /\ r.regs.dr6 \in [Lwps -> SUBSET (WpSlots \cup {BS})]
         /\ \A t \in Lwps : r.regs.dr[t] \in {dr[t], NoWps}
         /\ \A t \in Lwps : t \notin proc.live =>
                             r.regs.dr[t] = dr[t] /\ r.regs.dr6[t] = dr6[t]
         /\ g_dbg.dbregs_valid = TRUE /\ Ready /\ {"lwplist", "dbregs"} \cap Faults = {} =>
              \A t \in proc.live : r.regs.dr[t] = NoWps
<1>1. /\ proc \in Process /\ proc.live \in SUBSET Lwps /\ DrTypes /\ NoWps \in Registers
      /\ g_dbg.dbregs_valid \in BOOLEAN
  BY ProcFields, SessionFields, ZeroWpFacts DEF TypeOK, DrTypes
<1>2. PICK T : /\ r.regs = Applied(NoWps, T) /\ T \subseteq proc.live
               /\ g_dbg.dbregs_valid = TRUE /\ Ready /\ {"lwplist", "dbregs"} \cap Faults = {}
                    => proc.live \subseteq T
  <2>1. CASE g_dbg.dbregs_valid = TRUE /\ Ready
    <3>1. r \in apply_dbregs_to_all(NoWps, FALSE)
      BY <2>1 DEF DetachRegs
    <3>2. PICK T : Outcome(r, NoWps, FALSE, T)
      BY <3>1, <1>1, ApplyCases
    <3> QED
      BY <3>2 DEF Outcome
  <2>2. CASE ~(g_dbg.dbregs_valid = TRUE /\ Ready)
    <3>1. r = Unsynced
      BY <2>2, <1>1 DEF DetachRegs
    <3>2. r.regs = Applied(NoWps, {})
      BY <3>1 DEF Unsynced
    <3> QED
      BY <3>2, <2>2
  <2> QED
    BY <2>1, <2>2
<1>3. /\ r.regs.dr \in [Lwps -> Registers]
      /\ r.regs.dr6 \in [Lwps -> SUBSET (WpSlots \cup {BS})]
      /\ \A t \in T : t \in Lwps => r.regs.dr[t] = NoWps
      /\ \A t \in Lwps : t \notin T => r.regs.dr[t] = dr[t] /\ r.regs.dr6[t] = dr6[t]
  BY <1>1, <1>2, AppliedFacts
<1> QED
  BY <1>1, <1>2, <1>3

(* The session is kept, for one of three reasons. *)
Kept(keep) ==
  /\ keep \subseteq Sw(bps) /\ \A s \in keep : bps[s].installed = TRUE
  /\ int3' = Restored(Sw(bps) \ keep)
  /\ g_dbg' \in Session /\ bps' = Uninstalled(Sw(bps) \ keep)
  /\ SameSession /\ g_dbg'.stopped = g_dbg.stopped /\ proc' = proc
  /\ keep # {} => ("write" \in Faults \/ ~Alive)
  /\ keep = {} => ("resume" \in Faults \/ ~Ready)

LEMMA DetachNowFacts ==
  ASSUME CoreInv, DetachNow
  PROVE  /\ op' = NoOp /\ g_dbg.attached = TRUE /\ g_dbg.stopped = TRUE
         /\ op.cmd \in {"none", "detach"} /\ UNCHANGED rip
         /\ \/ /\ Ready /\ g_dbg' = NoSession /\ proc' = Resumed(0)
               /\ int3' = Restored(Sw(bps))
               /\ \E r \in DetachRegs : dr' = r.regs.dr /\ dr6' = r.regs.dr6
            \/ /\ \E keep : Kept(keep)
               /\ \/ \E r \in DetachRegs : dr' = r.regs.dr /\ dr6' = r.regs.dr6
                  \/ UNCHANGED <<dr, dr6>>
<1>1. /\ op' = NoOp /\ op.cmd \in {"none", "detach"} /\ UNCHANGED rip
      /\ g_dbg.attached = TRUE /\ g_dbg.stopped = TRUE /\ g_dbg \in Session /\ Sound(bps)
  BY SessionFields DEF CoreInv, TypeOK, TableInv, DetachNow, Idle
<1>2. SwBps = Sw(bps) /\ Sw(bps) \subseteq BpSlots
  BY <1>1, TableFacts DEF Sw
<1>3. PICK stuck \in IF proc.state = "exit" THEN {SwBps}
                     ELSE IF "write" \in Faults THEN SUBSET SwBps ELSE {{}} :
        LET kept == {s \in stuck : g_dbg.breakpoints[s].installed}
        IN /\ int3' = Restored(SwBps \ kept)
           /\ IF kept = {}
              THEN /\ \E r \in DetachRegs : dr' = r.regs.dr /\ dr6' = r.regs.dr6
                   /\ \/ /\ Ready
                         /\ g_dbg' = NoSession
                         /\ proc' = Resumed(0)
                      \/ /\ ~Ready \/ "resume" \in Faults
                         /\ g_dbg' = [g_dbg EXCEPT !.breakpoints = Uninstalled(SwBps),
                                                   !.dbregs = NoWps]
                         /\ UNCHANGED proc
              ELSE /\ g_dbg' = [g_dbg EXCEPT !.breakpoints = Uninstalled(SwBps \ kept)]
                   /\ UNCHANGED <<proc, dr, dr6>>
  BY Zenon DEF DetachNow
<1>4. stuck \subseteq Sw(bps) /\ (stuck # {} => "write" \in Faults \/ ~Alive)
  BY <1>2, <1>3 DEF Alive
<1> DEFINE kept == {s \in stuck : g_dbg.breakpoints[s].installed}
<1>5. /\ kept \subseteq Sw(bps) /\ \A s \in kept : bps[s].installed = TRUE
      /\ kept # {} => ("write" \in Faults \/ ~Alive)
  <2>1. \A s \in stuck : bps[s].installed \in BOOLEAN
    BY <1>1, <1>2, <1>4, TableFacts, BpFields
  <2> QED
    BY <2>1, <1>4 DEF bps
<1>6. /\ int3' = Restored(Sw(bps) \ kept)
      /\ kept = {} => /\ \E r \in DetachRegs : dr' = r.regs.dr /\ dr6' = r.regs.dr6
                      /\ \/ /\ Ready
                            /\ g_dbg' = NoSession
                            /\ proc' = Resumed(0)
                         \/ /\ ~Ready \/ "resume" \in Faults
                            /\ g_dbg' = [g_dbg EXCEPT !.breakpoints = Uninstalled(SwBps),
                                                      !.dbregs = NoWps]
                            /\ UNCHANGED proc
      /\ kept # {} => /\ g_dbg' = [g_dbg EXCEPT !.breakpoints = Uninstalled(SwBps \ kept)]
                      /\ UNCHANGED <<proc, dr, dr6>>
  BY <1>2, <1>3, Zenon
<1> HIDE DEF kept
<1>7. Uninstalled(Sw(bps) \ kept) \in Tables /\ Uninstalled(Sw(bps)) \in Tables
  BY <1>1, Uninstalling
<1>8. \A b \in Tables :
        /\ g_dbg' = [g_dbg EXCEPT !.breakpoints = b] =>
             g_dbg' \in Session /\ bps' = b /\ SameSession /\ g_dbg'.stopped = g_dbg.stopped
        /\ g_dbg' = [g_dbg EXCEPT !.breakpoints = b, !.dbregs = NoWps] =>
             g_dbg' \in Session /\ bps' = b /\ SameSession /\ g_dbg'.stopped = g_dbg.stopped
  BY <1>1, ZeroWpFacts DEF Session, Tables, SameSession, bps, wps
<1>9. CASE kept # {}
  <2>1. Kept(kept)
    BY <1>2, <1>5, <1>6, <1>7, <1>8, <1>9 DEF Kept
  <2> QED
    BY <2>1, <1>1, <1>6, <1>9
<1>10. CASE kept = {}
  <2>1. Sw(bps) \ kept = Sw(bps)
    BY <1>10
  <2>2. CASE Ready /\ g_dbg' = NoSession /\ proc' = Resumed(0)
    BY <2>1, <2>2, <1>1, <1>6, <1>10
  <2>3. CASE /\ ~Ready \/ "resume" \in Faults
             /\ g_dbg' = [g_dbg EXCEPT !.breakpoints = Uninstalled(SwBps), !.dbregs = NoWps]
             /\ UNCHANGED proc
    <3>1. g_dbg' = [g_dbg EXCEPT !.breakpoints = Uninstalled(Sw(bps) \ kept), !.dbregs = NoWps]
      BY <2>1, <2>3, <1>2
    <3>2. /\ g_dbg' \in Session /\ bps' = Uninstalled(Sw(bps) \ kept) /\ SameSession
          /\ g_dbg'.stopped = g_dbg.stopped
      BY <3>1, <1>7, <1>8
    <3>3. Kept(kept)
      BY <3>2, <2>3, <1>5, <1>6, <1>10 DEF Kept
    <3> QED
      BY <3>3, <1>1, <1>6, <1>10
  <2> QED
    BY <2>2, <2>3, <1>6, <1>10
<1> QED
  BY <1>9, <1>10

LEMMA DetachNowCore ==
  ASSUME CoreInv, DetachNow
  PROVE  /\ CoreInv' /\ (TextInv => TextInv')
         /\ Ready \/ ~Alive => ({"write", "resume"} \cap Faults = {} => ArmInv')
<1> USE DEF CoreInv
<1>1. /\ op' = NoOp /\ g_dbg.attached = TRUE /\ UNCHANGED rip
      /\ g_dbg \in Session /\ Sound(bps) /\ proc \in Process /\ Main \in proc.live
  BY DetachNowFacts DEF TypeOK, TableInv, ProcInv
<1>2. op' \in Call /\ op'.cmd = "none" /\ ~Waiting'
  BY <1>1, NoOpFacts DEF Waiting
<1>3. dr' \in [Lwps -> Registers] /\ dr6' \in [Lwps -> SUBSET (WpSlots \cup {BS})]
  <2>1. CASE \E r \in DetachRegs : dr' = r.regs.dr /\ dr6' = r.regs.dr6
    BY <2>1, <1>1, DetachRegsFacts
  <2>2. CASE UNCHANGED <<dr, dr6>>
    BY <2>2 DEF TypeOK
  <2> QED
    BY <2>1, <2>2, DetachNowFacts
<1>4. \A S \in SUBSET Sw(bps) : Restored(S) \subseteq Insns
  <2> SUFFICES ASSUME NEW S \in SUBSET Sw(bps) PROVE Restored(S) \subseteq Insns
    OBVIOUS
  <2>1. \A s \in S : bps[s].address \in Insns
    BY <1>1 DEF Sound, Sw
  <2>2. Restored(S) \subseteq int3 \cup {bps[s].address : s \in S}
    BY DEF Restored, bps
  <2> QED
    BY <2>1, <2>2 DEF TypeOK
<1>5. CASE Ready /\ g_dbg' = NoSession /\ proc' = Resumed(0) /\ int3' = Restored(Sw(bps))
  <2>1. /\ proc' \in Process /\ proc'.state = "run" /\ proc'.event = "none"
        /\ proc'.live = proc.live
    BY <1>1, <1>5, ProcMoves DEF Ready
  <2>2. /\ g_dbg' \in Session /\ bps' = NoSession.breakpoints /\ Sound(bps') /\ Sw(bps') = {}
        /\ Agrees(bps', {}) /\ \A s \in BpSlots : bps'[s].active = FALSE
    BY <1>5, EmptyTable, NoSessionFacts, ZeroBpFacts DEF bps
  <2>3. TypeOK'
    BY <2>1, <2>2, <1>1, <1>2, <1>3, <1>4, <1>5 DEF TypeOK
  <2>4. TableInv' /\ ProcInv'
    BY <2>1, <2>2, <1>1, <1>2 DEF TableInv, ProcInv
  <2>5. TextInv => TextInv'
    BY <2>2, <1>1, <1>5, AllRestored DEF TextInv, Alive, Ready
  <2>6. ArmInv'
    BY <2>2 DEF ArmInv
  <2> QED
    BY <2>3, <2>4, <2>5, <2>6
<1>6. CASE \E keep : Kept(keep)
  <2>1. PICK keep : Kept(keep)
    BY <1>6
  <2> PICK S : S = Sw(bps) \ keep
    OBVIOUS
  <2>2. /\ S \in SUBSET Sw(bps) /\ int3' = Restored(S) /\ bps' = Uninstalled(S)
        /\ g_dbg' \in Session /\ SameSession /\ proc' = proc
        /\ keep # {} => ("write" \in Faults \/ ~Alive)
        /\ keep = {} => ("resume" \in Faults \/ ~Ready)
    BY <2>1 DEF Kept
  <2>3. /\ Sound(bps') /\ SameTable
    BY <2>2, <1>1, Uninstalling DEF SameTable
  <2>4. TypeOK'
    BY <2>2, <1>1, <1>2, <1>3, <1>4 DEF TypeOK
  <2>5. TableInv' /\ ProcInv'
    BY <2>2, <2>3, <1>2, SameTableKept, ProcKept
  <2>6. TextInv => TextInv'
    BY <2>2, <1>1, Restoring DEF TextInv, Alive
  <2>7. Ready \/ ~Alive => ({"write", "resume"} \cap Faults = {} => ArmInv')
    BY <2>2 DEF ArmInv, Alive
  <2> QED
    BY <2>4, <2>5, <2>6, <2>7
<1> QED
  BY <1>5, <1>6, DetachNowFacts, Zenon

-----------------------------------------------------------------------------
(* Breakpoints and watchpoints *)

LEMMA WatchFacts ==
  ASSUME g_dbg \in Session
  PROVE  /\ wps \in Registers /\ \A s \in WpSlots : wps[s] \in Watchpoint
         /\ \A s \in WpSlots : wps[s].installed \in BOOLEAN
         /\ FreeWp = {s \in WpSlots : wps[s].installed = FALSE}
         /\ FreeWp # {} => Min(FreeWp) \in FreeWp
         /\ \A a : WpAt(a) = {s \in WpSlots : wps[s].installed = TRUE /\ wps[s].address = a}
         /\ \A a : WpAt(a) # {} => Min(WpAt(a)) \in WpAt(a)
<1>1. wps \in Registers
  BY SessionFields DEF wps
<1>2. \A s \in WpSlots : wps[s] \in Watchpoint /\ wps[s].installed \in BOOLEAN
  BY <1>1 DEF Registers, Watchpoint
<1>3. FreeWp = {s \in WpSlots : wps[s].installed = FALSE}
  BY <1>2 DEF FreeWp, wps
<1>4. \A a : WpAt(a) = {s \in WpSlots : wps[s].installed = TRUE /\ wps[s].address = a}
  BY <1>2 DEF WpAt, wps
<1>5. WpSlots \subseteq Nat
  BY DebuggerAssumption DEF WpSlots
<1>6. FreeWp # {} => Min(FreeWp) \in FreeWp
  <2>1. FreeWp \in SUBSET Nat
    BY <1>3, <1>5
  <2> QED
    BY <2>1, MinIn
<1>7. ASSUME NEW a, WpAt(a) # {} PROVE Min(WpAt(a)) \in WpAt(a)
  <2>1. WpAt(a) \in SUBSET Nat
    BY <1>4, <1>5
  <2> QED
    BY <2>1, <1>7, MinIn
<1> QED
  BY <1>1, <1>2, <1>3, <1>4, <1>6, <1>7

LEMMA SetSwCore ==
  ASSUME CoreInv, NEW a \in Insns, NEW c \in BOOLEAN, SetSwBreakpoint(a, c)
  PROVE  /\ CoreInv' /\ (TextInv => TextInv') /\ (ArmInv => ArmInv')
         /\ op.cmd = "none" /\ UNCHANGED <<op, proc, thread>> /\ SameSession
         /\ g_dbg'.stopped = g_dbg.stopped
         /\ \E n \in BpSlots : /\ Sw(bps') = Sw(bps) \cup {n} /\ bps'[n].conditional = c
                               /\ \A u \in BpSlots : u # n => bps'[u] = bps[u]
                               /\ bps[n].active = FALSE
<1> USE DEF CoreInv
<1>1. /\ op.cmd = "none" /\ g_dbg.attached = TRUE /\ BpAt(a) = {} /\ FreeBp # {}
      /\ int3' = int3 \cup {a} /\ UNCHANGED <<op, proc, rip, dr, dr6>>
      /\ g_dbg \in Session /\ Sound(bps) /\ ~Waiting /\ ~Waiting'
  BY SessionFields DEF SetSwBreakpoint, Idle, TypeOK, TableInv, thread, Waiting
<1> PICK n, r, b :
       /\ n = Min(FreeBp)
       /\ r = Installed([ZeroBp EXCEPT !.active = TRUE, !.address = a, !.conditional = c])
       /\ b = [bps EXCEPT ![Min(FreeBp)] = r]
  OBVIOUS
<1>2. g_dbg' = [g_dbg EXCEPT !.breakpoints = b]
  BY DEF SetSwBreakpoint, bps
<1>3. /\ b \in Tables /\ Sound(b) /\ Sw(b) = Sw(bps) \cup {n}
      /\ r.installed = TRUE /\ r.conditional = c
      /\ Agrees(bps, int3) => Agrees(b, int3 \cup {a})
  BY <1>1, Planting
<1>4. n \in BpSlots /\ bps \in Tables /\ bps[n].active = FALSE
  BY <1>1, TableFacts
<1>5. b[n] = r /\ \A u \in BpSlots : u # n => b[u] = bps[u]
  BY <1>4 DEF Tables
<1>6. /\ g_dbg' \in Session /\ SameSession /\ g_dbg'.stopped = g_dbg.stopped /\ bps' = b
  <2>1. \A x \in Tables : g_dbg' = [g_dbg EXCEPT !.breakpoints = x] =>
          g_dbg' \in Session /\ SameSession /\ g_dbg'.stopped = g_dbg.stopped /\ bps' = x
    BY <1>1 DEF Session, Tables, SameSession, bps, wps
  <2> QED
    BY <2>1, <1>2, <1>3, Zenon
<1>7. CoreInv'
  <2>1. int3' \subseteq Insns /\ g_dbg'.attached = g_dbg.attached /\ Sound(bps')
    BY <1>1, <1>3, <1>6 DEF TypeOK, SameSession
  <2> QED
    BY <2>1, <1>1, <1>6, RecordCore DEF TypeOK
<1>8. TextInv => TextInv'
  BY <1>1, <1>3, <1>6 DEF TextInv, Alive
<1>9. ArmInv => ArmInv'
  <2>1. Sw(bps) \subseteq BpSlots
    BY DEF Sw
  <2>2. \A u \in Sw(b) : u # n => u \in Sw(bps) /\ b[u] = bps[u]
    BY <2>1, <1>3, <1>5
  <2> QED
    BY <2>2, <1>1, <1>3, <1>5, <1>6 DEF ArmInv, Alive
<1> QED
  BY <1>1, <1>3, <1>4, <1>5, <1>6, <1>7, <1>8, <1>9 DEF thread

(* The registers after a sync for the table w that leaves the table v. *)
Resynced(w, partial, v) ==
  \E r \in sync_hardware_dbregs(w, partial) :
    /\ wps' = v /\ g_dbg'.dbregs_valid = r.valid
    /\ dr' = r.regs.dr /\ dr6' = r.regs.dr6
    /\ r.ok = TRUE => v = w
    /\ r.ok = FALSE => v = wps

(* Watchpoints are added, or taken away, with the registers of all threads. *)
Grown(w) == \A s \in WpSlots :
              w[s] = wps[s] \/ (w[s].installed = TRUE /\ wps[s].installed = FALSE)
Shrunk(w) == \A s \in WpSlots : w[s] = wps[s] \/ w[s] = ZeroWp

Retabled == \E w \in Registers : \/ Grown(w) /\ Resynced(w, TRUE, wps')
                                 \/ Shrunk(w) /\ Resynced(w, FALSE, wps')

LEMMA SetHwCore ==
  ASSUME CoreInv, NEW a \in Insns, SetHwBreakpoint(a)
  PROVE  /\ CoreInv' /\ (TextInv => TextInv') /\ (ArmInv => ArmInv')
         /\ op.cmd = "none" /\ UNCHANGED <<op, proc, rip, int3>>
         /\ g_dbg.attached = TRUE /\ g_dbg'.attached = TRUE
         /\ g_dbg'.stopped = g_dbg.stopped
         /\ Sw(bps') = Sw(bps) /\ \A u \in Sw(bps) : bps'[u] = bps[u]
         /\ \A u \in BpSlots :
              bps'[u] = bps[u] \/ (bps[u].active = FALSE /\ bps'[u].conditional = FALSE)
         /\ Retabled
<1> USE DEF CoreInv
<1>1. /\ op.cmd = "none" /\ g_dbg.attached = TRUE /\ BpAt(a) = {} /\ FreeBp # {}
      /\ FreeWp # {} /\ UNCHANGED <<op, proc, rip, int3>>
      /\ g_dbg \in Session /\ Sound(bps) /\ ~Waiting /\ ~Waiting' /\ Main \in proc.live
  BY SessionFields DEF SetHwBreakpoint, Idle, TypeOK, TableInv, Waiting, ProcInv
<1> PICK n, m, b, w, y, x :
       /\ n = Min(FreeBp) /\ m = Min(FreeWp)
       /\ y = [ZeroBp EXCEPT !.active = TRUE, !.address = a, !.kind = "hw"]
       /\ b = [bps EXCEPT ![n] = y]
       /\ x = [installed |-> TRUE, address |-> a, type |-> "exec"]
       /\ w = [wps EXCEPT ![m] = x]
  OBVIOUS
<1>2. /\ y \in Breakpoint /\ y.active = TRUE /\ y.address = a /\ y.kind = "hw"
      /\ y.installed = FALSE /\ y.conditional = FALSE
  BY DEF ZeroBp, Breakpoint
<1>3. x \in Watchpoint /\ x.installed = TRUE
  BY DEF Watchpoint
<1>4. n \in BpSlots /\ bps \in Tables /\ bps[n].active = FALSE /\ m \in FreeWp /\ m \in WpSlots
      /\ wps \in Registers
  BY <1>1, TableFacts, WatchFacts
<1>5. w \in Registers
  BY <1>3, <1>4 DEF Registers
<1>6. b \in Tables /\ b[n] = y /\ \A u \in BpSlots : u # n => b[u] = bps[u]
  BY <1>2, <1>4 DEF Tables
<1>7. Sound(b) /\ Sw(b) = Sw(bps) /\ \A u \in Sw(bps) : b[u] = bps[u]
  <2>1. \A z \in Tables :
          /\ \A u \in BpSlots : u # n => z[u] = bps[u]
          /\ z[n].active = TRUE /\ z[n].address = a /\ z[n].kind = "hw"
          /\ z[n].installed = FALSE
          => Sound(z) /\ Sw(z) = Sw(bps)
    BY <1>1, <1>4, Adding
  <2>2. /\ b[n].active = TRUE /\ b[n].address = a /\ b[n].kind = "hw"
        /\ b[n].installed = FALSE
    BY <1>2, <1>6
  <2>3. Sound(b) /\ Sw(b) = Sw(bps)
    BY <2>1, <2>2, <1>6, Zenon
  <2>4. n \notin Sw(bps) /\ Sw(bps) \subseteq BpSlots
    BY <1>4 DEF Sw
  <2> QED
    BY <2>3, <2>4, <1>6
<1>8. PICK r \in sync_hardware_dbregs(w, TRUE) :
          IF r.ok THEN Synced(r, b, w) ELSE Synced(r, bps, wps)
  <2>1. \E r \in sync_hardware_dbregs(w, TRUE) :
          IF r.ok THEN Synced(r, b, w) ELSE Synced(r, bps, wps)
    BY Zenon DEF SetHwBreakpoint, bps, wps
  <2> QED
    BY <2>1
<1>9. r.ok \in BOOLEAN
  BY <1>1, <1>5, SyncFacts DEF SyncOutcome
<1>10. /\ g_dbg' \in Session /\ g_dbg'.attached = g_dbg.attached
       /\ g_dbg'.stopped = g_dbg.stopped
       /\ \/ r.ok = TRUE /\ bps' = b /\ wps' = w
          \/ r.ok = FALSE /\ bps' = bps /\ wps' = wps
       /\ g_dbg'.dbregs_valid = r.valid
       /\ dr' = r.regs.dr /\ dr6' = r.regs.dr6 /\ dr' \in [Lwps -> Registers]
       /\ dr6' \in [Lwps -> SUBSET (WpSlots \cup {BS})]
  <2>1. \A e \in Tables, v \in Registers : Synced(r, e, v) =>
          /\ g_dbg' \in Session /\ g_dbg'.attached = g_dbg.attached
          /\ g_dbg'.stopped = g_dbg.stopped /\ bps' = e /\ wps' = v
          /\ g_dbg'.dbregs_valid = r.valid
          /\ dr' = r.regs.dr /\ dr6' = r.regs.dr6 /\ dr' \in [Lwps -> Registers]
          /\ dr6' \in [Lwps -> SUBSET (WpSlots \cup {BS})]
    BY <1>1, <1>5, SyncedFacts
  <2>2. CASE r.ok = TRUE /\ Synced(r, b, w)
    BY <2>1, <2>2, <1>5, <1>6, Zenon
  <2>3. CASE r.ok = FALSE /\ Synced(r, bps, wps)
    BY <2>1, <2>3, <1>4, Zenon
  <2> QED
    BY <2>2, <2>3, <1>8, <1>9
<1>11. CoreInv'
  <2>1. Sound(bps') /\ int3' \subseteq Insns
    BY <1>1, <1>7, <1>10 DEF TypeOK
  <2> QED
    BY <2>1, <1>1, <1>10, RecordCore
<1>12. /\ Sw(bps') = Sw(bps) /\ \A u \in Sw(bps) : bps'[u] = bps[u]
  BY <1>7, <1>10
<1>13. TextInv => TextInv'
  <2>1. \A z : z \in Planted(bps') <=> z \in Planted(bps)
    BY <1>12, PlantedAt
  <2>2. Planted(bps') = Planted(bps)
    BY <2>1, <1>12 DEF Planted
  <2> QED
    BY <2>2, <1>1, <1>12 DEF TextInv, Alive, Agrees
<1>14. ArmInv => ArmInv'
  BY <1>1, <1>12 DEF ArmInv, Alive
<1>15. \A u \in BpSlots :
         bps'[u] = bps[u] \/ (bps[u].active = FALSE /\ bps'[u].conditional = FALSE)
  <2>1. b[n].conditional = FALSE
    BY <1>2, <1>6
  <2>2. \A u \in BpSlots :
          b[u] = bps[u] \/ (bps[u].active = FALSE /\ b[u].conditional = FALSE)
    <3> SUFFICES ASSUME NEW u \in BpSlots
                 PROVE  b[u] = bps[u] \/ (bps[u].active = FALSE /\ b[u].conditional = FALSE)
      OBVIOUS
    <3> QED
      BY <2>1, <1>4, <1>6, Zenon
  <2> QED
    BY <2>2, <1>10, Zenon
<1>16. Retabled
  <2>1. wps[m].installed = FALSE
    BY <1>1, <1>4, WatchFacts
  <2>2. w[m] = x /\ \A s \in WpSlots : s # m => w[s] = wps[s]
    BY <1>4 DEF Registers
  <2>3. Grown(w)
    BY <2>1, <2>2, <1>3 DEF Grown
  <2>4. Resynced(w, TRUE, wps')
    BY <1>10 DEF Resynced
  <2> QED
    BY <2>3, <2>4, <1>5 DEF Retabled
<1> QED
  BY <1>1, <1>3, <1>4, <1>10, <1>11, <1>12, <1>13, <1>14, <1>15, <1>16

(* A sync whose outcome decides between the old tables and the new ones. *)
LEMMA Choosing ==
  ASSUME CoreInv, NEW w \in Registers, NEW partial \in BOOLEAN, NEW b \in Tables,
         NEW r \in sync_hardware_dbregs(w, partial),
         \/ r.ok = TRUE /\ Synced(r, b, w)
         \/ r.ok = FALSE /\ Synced(r, bps, wps)
  PROVE  /\ g_dbg' \in Session /\ g_dbg'.attached = g_dbg.attached
         /\ g_dbg'.stopped = g_dbg.stopped
         /\ bps' = b \/ bps' = bps
         /\ dr' \in [Lwps -> Registers]
         /\ dr6' \in [Lwps -> SUBSET (WpSlots \cup {BS})]
         /\ Resynced(w, partial, wps')
<1>1. TypeOK /\ Main \in proc.live /\ bps \in Tables /\ wps \in Registers
  BY SessionFields DEF CoreInv, TypeOK, ProcInv, bps, wps
<1>2. \A e \in Tables, v \in Registers : Synced(r, e, v) =>
          /\ g_dbg' \in Session /\ g_dbg'.attached = g_dbg.attached
          /\ g_dbg'.stopped = g_dbg.stopped /\ bps' = e /\ wps' = v
          /\ g_dbg'.dbregs_valid = r.valid
          /\ dr' = r.regs.dr /\ dr6' = r.regs.dr6 /\ dr' \in [Lwps -> Registers]
          /\ dr6' \in [Lwps -> SUBSET (WpSlots \cup {BS})]
  BY <1>1, SyncedFacts
<1>3. CASE r.ok = TRUE /\ Synced(r, b, w)
  BY <1>2, <1>3 DEF Resynced
<1>4. CASE r.ok = FALSE /\ Synced(r, bps, wps)
  BY <1>1, <1>2, <1>4 DEF Resynced
<1> QED
  BY <1>3, <1>4

LEMMA SetWatchpointCore ==
  ASSUME CoreInv, NEW a \in WatchAddrs, SetWatchpoint(a)
  PROVE  /\ CoreInv' /\ (TextInv => TextInv') /\ (ArmInv => ArmInv')
         /\ op.cmd = "none" /\ UNCHANGED <<op, proc, rip, int3>>
         /\ g_dbg.attached = TRUE /\ g_dbg'.attached = TRUE
         /\ g_dbg'.stopped = g_dbg.stopped
         /\ bps' = bps /\ Retabled
<1> USE DEF CoreInv
<1>1. /\ op.cmd = "none" /\ g_dbg.attached = TRUE
      /\ FreeWp # {} /\ UNCHANGED <<op, proc, rip, int3>>
      /\ g_dbg \in Session /\ Sound(bps) /\ ~Waiting /\ ~Waiting' /\ Main \in proc.live
  BY SessionFields DEF SetWatchpoint, Idle, TypeOK, TableInv, Waiting, ProcInv
<1> PICK m, w, x :
       /\ m = Min(FreeWp)
       /\ x = [installed |-> TRUE, address |-> a, type |-> "data"]
       /\ w = [wps EXCEPT ![m] = x]
  OBVIOUS
<1>2. x \in Watchpoint /\ x.installed = TRUE
  BY DEF Watchpoint
<1>3. /\ m \in WpSlots /\ wps \in Registers /\ wps[m].installed = FALSE /\ bps \in Tables
  BY <1>1, TableFacts, WatchFacts
<1>4. w \in Registers /\ w[m] = x /\ \A s \in WpSlots : s # m => w[s] = wps[s]
  BY <1>2, <1>3 DEF Registers
<1>5. PICK r \in sync_hardware_dbregs(w, TRUE) : Synced(r, bps, IF r.ok THEN w ELSE wps)
  <2>1. \E r \in sync_hardware_dbregs(w, TRUE) : Synced(r, bps, IF r.ok THEN w ELSE wps)
    BY Zenon DEF SetWatchpoint, bps, wps
  <2> QED
    BY <2>1
<1>6. r.ok \in BOOLEAN
  BY <1>1, <1>4, SyncFacts DEF SyncOutcome
<1>7. \/ r.ok = TRUE /\ Synced(r, bps, w)
      \/ r.ok = FALSE /\ Synced(r, bps, wps)
  BY <1>5, <1>6
<1>8. /\ g_dbg' \in Session /\ g_dbg'.attached = g_dbg.attached
      /\ g_dbg'.stopped = g_dbg.stopped /\ bps' = bps
      /\ dr' \in [Lwps -> Registers] /\ dr6' \in [Lwps -> SUBSET (WpSlots \cup {BS})]
      /\ Resynced(w, TRUE, wps')
  BY <1>3, <1>4, <1>7, Choosing
<1>9. CoreInv'
  BY <1>1, <1>8, RecordCore DEF TypeOK
<1>10. Retabled
  <2>1. Grown(w)
    BY <1>2, <1>3, <1>4 DEF Grown
  <2> QED
    BY <2>1, <1>4, <1>8 DEF Retabled
<1> QED
  BY <1>1, <1>8, <1>9, <1>10 DEF TextInv, ArmInv, Alive

LEMMA ClearWatchpointsCore ==
  ASSUME CoreInv, NEW S, ClearWatchpoints(S)
  PROVE  /\ CoreInv' /\ (TextInv => TextInv') /\ (ArmInv => ArmInv')
         /\ op.cmd = "none" /\ UNCHANGED <<op, proc, rip, int3>>
         /\ g_dbg.attached = TRUE /\ g_dbg'.attached = TRUE
         /\ g_dbg'.stopped = g_dbg.stopped
         /\ bps' = bps /\ Retabled
<1> USE DEF CoreInv
<1>1. /\ op.cmd = "none" /\ g_dbg.attached = TRUE
      /\ UNCHANGED <<op, proc, rip, int3>>
      /\ g_dbg \in Session /\ Sound(bps) /\ ~Waiting /\ ~Waiting' /\ Main \in proc.live
  BY SessionFields DEF ClearWatchpoints, Idle, TypeOK, TableInv, Waiting, ProcInv
<1> PICK w : w = [s \in WpSlots |-> IF s \in S THEN ZeroWp ELSE wps[s]]
  OBVIOUS
<1>2. wps \in Registers /\ bps \in Tables
  BY <1>1, TableFacts, WatchFacts
<1>3. w \in Registers /\ Shrunk(w)
  BY <1>2, ZeroWpFacts DEF Registers, Shrunk
<1>4. PICK r \in sync_hardware_dbregs(w, FALSE) : Synced(r, bps, IF r.ok THEN w ELSE wps)
  <2>1. \E r \in sync_hardware_dbregs(w, FALSE) : Synced(r, bps, IF r.ok THEN w ELSE wps)
    BY Zenon DEF ClearWatchpoints, TableAfter, bps, wps
  <2> QED
    BY <2>1
<1>5. r.ok \in BOOLEAN
  BY <1>1, <1>3, SyncFacts DEF SyncOutcome
<1>6. \/ r.ok = TRUE /\ Synced(r, bps, w)
      \/ r.ok = FALSE /\ Synced(r, bps, wps)
  BY <1>4, <1>5
<1>7. /\ g_dbg' \in Session /\ g_dbg'.attached = g_dbg.attached
      /\ g_dbg'.stopped = g_dbg.stopped /\ bps' = bps
      /\ dr' \in [Lwps -> Registers] /\ dr6' \in [Lwps -> SUBSET (WpSlots \cup {BS})]
      /\ Resynced(w, FALSE, wps')
  BY <1>2, <1>3, <1>6, Choosing
<1>8. CoreInv'
  BY <1>1, <1>7, RecordCore DEF TypeOK
<1>9. Retabled
  BY <1>3, <1>7 DEF Retabled
<1> QED
  BY <1>1, <1>7, <1>8, <1>9 DEF TextInv, ArmInv, Alive

LEMMA SetRipCore ==
  ASSUME CoreInv, NEW t \in Lwps, NEW a \in Insns, SetRip(t, a)
  PROVE  /\ CoreInv' /\ (TextInv => TextInv') /\ (ArmInv => ArmInv')
<1> USE DEF CoreInv
<1>1. /\ UNCHANGED <<g_dbg, op, proc, int3, dr, dr6>> /\ bps' = bps
      /\ rip' = [rip EXCEPT ![t] = a]
  BY DEF SetRip, bps
<1>2. a \in Rips
  BY DEF Rips
<1>3. TypeOK'
  BY <1>1, <1>2 DEF TypeOK
<1>4. TableInv' /\ ProcInv'
  BY <1>1, TableKept, ProcKept
<1> QED
  BY <1>1, <1>3, <1>4 DEF TextInv, ArmInv, Alive, Waiting

(* Some client writes debug registers of its own into thread t. *)
ClientWrites(t) == \E want \in ClientRegisters : SetDbregs(t, want)

LEMMA SetDbregsCore ==
  ASSUME CoreInv, NEW t \in Lwps, ClientWrites(t)
  PROVE  /\ CoreInv' /\ (TextInv => TextInv') /\ (ArmInv => ArmInv')
         /\ op.cmd = "none" /\ UNCHANGED <<op, proc, rip, int3>>
         /\ g_dbg.attached = TRUE /\ g_dbg'.attached = TRUE
         /\ g_dbg'.stopped = g_dbg.stopped /\ bps' = bps
<1> USE DEF CoreInv
<1>0. PICK want \in ClientRegisters : SetDbregs(t, want)
  BY DEF ClientWrites
<1>1. /\ op.cmd = "none" /\ g_dbg.attached = TRUE /\ g_dbg \in Session /\ ~Waiting /\ ~Waiting'
      /\ UNCHANGED <<op, proc, rip, int3>>
      /\ dr' = [dr EXCEPT ![t] = want] /\ dr6' = [dr6 EXCEPT ![t] = {}]
      /\ g_dbg' = [g_dbg EXCEPT !.dbregs = want, !.dbregs_valid = TRUE]
  BY <1>0, SessionFields DEF SetDbregs, Idle, TypeOK, Waiting
<1>2. want \in Registers
  <2>1. ZeroWp \in Watchpoint
    BY DEF ZeroWp, Watchpoint
  <2>2. [installed: {TRUE}, address: WatchAddrs, type: {"data"}] \subseteq Watchpoint
    BY DEF Watchpoint
  <2> QED
    BY <2>1, <2>2 DEF ClientRegisters, Registers
<1>3. /\ g_dbg' \in Session /\ g_dbg'.attached = g_dbg.attached
      /\ g_dbg'.stopped = g_dbg.stopped /\ bps' = bps
  BY <1>1, <1>2 DEF Session, bps
<1>4. dr' \in [Lwps -> Registers] /\ dr6' \in [Lwps -> SUBSET (WpSlots \cup {BS})]
  BY <1>1, <1>2 DEF TypeOK
<1>5. CoreInv'
  BY <1>1, <1>3, <1>4, RecordCore DEF TypeOK, TableInv
<1> QED
  BY <1>1, <1>3, <1>5 DEF TextInv, ArmInv, Alive

LEMMA ClearBreakpointCore ==
  ASSUME CoreInv, NEW a \in Insns, ClearBreakpoint(a)
  PROVE  /\ CoreInv' /\ (TextInv => TextInv') /\ (ArmInv => ArmInv')
         /\ op.cmd = "none" /\ UNCHANGED <<op, proc, rip>>
         /\ g_dbg.attached = TRUE /\ g_dbg'.attached = TRUE
         /\ g_dbg'.stopped = g_dbg.stopped
         /\ \A u \in BpSlots : bps'[u] = bps[u] \/ bps'[u] = ZeroBp
         /\ (SameSession /\ dr' = dr /\ dr6' = dr6) \/ Retabled
<1> USE DEF CoreInv
<1>1. /\ op.cmd = "none" /\ g_dbg.attached = TRUE
      /\ UNCHANGED <<op, proc, rip>>
      /\ g_dbg \in Session /\ Sound(bps) /\ ~Waiting /\ ~Waiting' /\ Main \in proc.live
  BY SessionFields DEF ClearBreakpoint, Idle, TypeOK, TableInv, Waiting, ProcInv
<1>2. PICK s \in BpAt(a) :
       \/ /\ s \in SwBps /\ proc.state # "exit"
          /\ int3' = Restored({s})
          /\ g_dbg' = [g_dbg EXCEPT !.breakpoints = [bps EXCEPT ![s] = ZeroBp]]
          /\ UNCHANGED <<dr, dr6>>
       \/ /\ s \notin SwBps /\ UNCHANGED int3
          /\ \/ /\ g_dbg' = [g_dbg EXCEPT !.breakpoints = [bps EXCEPT ![s] = ZeroBp]]
                /\ UNCHANGED <<dr, dr6>>
             \/ /\ WpAt(a) # {}
                /\ \E r \in sync_hardware_dbregs([wps EXCEPT ![Min(WpAt(a))] = ZeroWp], FALSE) :
                     IF r.ok THEN Synced(r, [bps EXCEPT ![s] = ZeroBp],
                                            [wps EXCEPT ![Min(WpAt(a))] = ZeroWp])
                     ELSE Synced(r, bps, wps)
  BY Zenon DEF ClearBreakpoint, bps, wps
<1>3. s \in BpSlots /\ bps[s].active = TRUE /\ SwBps = Sw(bps) /\ bps \in Tables
      /\ bps[s].address \in Insns
  BY <1>1, TableFacts DEF Sound
<1> PICK b : b = [bps EXCEPT ![s] = ZeroBp]
  OBVIOUS
<1>4. /\ b \in Tables /\ Sound(b) /\ Sw(b) = Sw(bps) \ {s}
      /\ \A u \in BpSlots : u # s => b[u] = bps[u]
      /\ b[s] = ZeroBp
      /\ Agrees(bps, int3) => Agrees(b, IF s \in Sw(bps) THEN Restored({s}) ELSE int3)
  <2>1. \A n \in BpSlots : bps[n].active = TRUE =>
          \A c : c = [bps EXCEPT ![n] = ZeroBp] =>
            /\ c \in Tables /\ Sound(c) /\ Sw(c) = Sw(bps) \ {n}
            /\ \A u \in BpSlots : u # n => c[u] = bps[u]
            /\ c[n] = ZeroBp
            /\ Agrees(bps, int3) => Agrees(c, IF n \in Sw(bps) THEN Restored({n}) ELSE int3)
    BY <1>1, Clearing, Zenon
  <2>2. b = [bps EXCEPT ![s] = ZeroBp]
    OBVIOUS
  <2> QED
    BY <2>1, <2>2, <1>3, Zenon
<1>5. ASSUME g_dbg' = [g_dbg EXCEPT !.breakpoints = b]
      PROVE  g_dbg' \in Session /\ bps' = b /\ SameSession /\ g_dbg'.stopped = g_dbg.stopped
  <2>1. \A x \in Tables : g_dbg' = [g_dbg EXCEPT !.breakpoints = x] =>
          g_dbg' \in Session /\ bps' = x /\ SameSession /\ g_dbg'.stopped = g_dbg.stopped
    BY <1>1 DEF Session, Tables, SameSession, bps, wps
  <2> QED
    BY <2>1, <1>4, <1>5, Zenon
<1>6. /\ g_dbg' \in Session /\ g_dbg'.attached = g_dbg.attached
      /\ g_dbg'.stopped = g_dbg.stopped
      /\ bps' = b \/ bps' = bps
      /\ dr' \in [Lwps -> Registers] /\ dr6' \in [Lwps -> SUBSET (WpSlots \cup {BS})]
      /\ (SameSession /\ dr' = dr /\ dr6' = dr6) \/ Retabled
      /\ s \notin Sw(bps) => int3' = int3
      /\ s \in Sw(bps) => bps' = b /\ int3' = Restored({s})
  <2>1. CASE /\ s \in SwBps /\ int3' = Restored({s})
             /\ g_dbg' = [g_dbg EXCEPT !.breakpoints = b] /\ UNCHANGED <<dr, dr6>>
    BY <2>1, <1>3, <1>5 DEF TypeOK, SameSession
  <2>2. CASE /\ s \notin SwBps /\ UNCHANGED int3
             /\ g_dbg' = [g_dbg EXCEPT !.breakpoints = b] /\ UNCHANGED <<dr, dr6>>
    BY <2>2, <1>3, <1>5 DEF TypeOK, SameSession
  <2>3. CASE /\ s \notin SwBps /\ UNCHANGED int3 /\ WpAt(a) # {}
             /\ \E r \in sync_hardware_dbregs([wps EXCEPT ![Min(WpAt(a))] = ZeroWp], FALSE) :
                     IF r.ok THEN Synced(r, b, [wps EXCEPT ![Min(WpAt(a))] = ZeroWp])
                     ELSE Synced(r, bps, wps)
    <3> PICK w : w = [wps EXCEPT ![Min(WpAt(a))] = ZeroWp]
      OBVIOUS
    <3>1. wps \in Registers /\ Min(WpAt(a)) \in WpSlots
      BY <2>3, <1>1, WatchFacts
    <3>2. w \in Registers /\ Shrunk(w)
      BY <3>1, ZeroWpFacts DEF Registers, Shrunk
    <3>3. PICK r \in sync_hardware_dbregs(w, FALSE) :
            IF r.ok THEN Synced(r, b, w) ELSE Synced(r, bps, wps)
      BY <2>3
    <3>4. r.ok \in BOOLEAN
      BY <1>1, <3>2, SyncFacts DEF SyncOutcome
    <3>5. \/ r.ok = TRUE /\ Synced(r, b, w)
          \/ r.ok = FALSE /\ Synced(r, bps, wps)
      BY <3>3, <3>4
    <3>6. \A x \in Registers : \A y \in Tables, q \in sync_hardware_dbregs(x, FALSE) :
            \/ q.ok = TRUE /\ Synced(q, y, x)
            \/ q.ok = FALSE /\ Synced(q, bps, wps)
            => /\ g_dbg' \in Session /\ g_dbg'.attached = g_dbg.attached
               /\ g_dbg'.stopped = g_dbg.stopped
               /\ bps' = y \/ bps' = bps
               /\ dr' \in [Lwps -> Registers]
               /\ dr6' \in [Lwps -> SUBSET (WpSlots \cup {BS})]
               /\ Resynced(x, FALSE, wps')
      BY Choosing
    <3>7. /\ g_dbg' \in Session /\ g_dbg'.attached = g_dbg.attached
          /\ g_dbg'.stopped = g_dbg.stopped /\ (bps' = b \/ bps' = bps)
          /\ dr' \in [Lwps -> Registers] /\ dr6' \in [Lwps -> SUBSET (WpSlots \cup {BS})]
          /\ Resynced(w, FALSE, wps')
      BY <3>2, <3>3, <3>5, <3>6, <1>4, Zenon
    <3>8. Retabled
      BY <3>2, <3>7 DEF Retabled
    <3> QED
      BY <3>7, <3>8, <2>3, <1>3
  <2> QED
    BY <2>1, <2>2, <2>3, <1>2
<1>7. \A u \in BpSlots : bps'[u] = bps[u] \/ bps'[u] = ZeroBp
  BY <1>4, <1>6
<1>8. CoreInv'
  <2>1. Sound(bps')
    BY <1>1, <1>4, <1>6
  <2>2. int3' \subseteq Insns
    <3>1. Restored({s}) \subseteq int3 \cup {bps[s].address}
      BY DEF Restored, bps
    <3> QED
      BY <3>1, <1>3, <1>6 DEF TypeOK
  <2> QED
    BY <2>1, <2>2, <1>1, <1>6, RecordCore
<1>9. TextInv => TextInv'
  <2>1. CASE bps' = b
    <3>1. Agrees(bps, int3) => Agrees(bps', int3')
      BY <2>1, <1>4, <1>6
    <3> QED
      BY <3>1, <1>1 DEF TextInv, Alive
  <2>2. CASE bps' # b
    BY <2>2, <1>1, <1>6 DEF TextInv, Alive
  <2> QED
    BY <2>1, <2>2
<1>10. ArmInv => ArmInv'
  <2>1. \A u \in Sw(bps') : u \in Sw(bps) /\ bps'[u] = bps[u]
    BY <1>4, <1>6 DEF Sw
  <2> QED
    BY <2>1, <1>1 DEF ArmInv, Alive
<1> QED
  BY <1>1, <1>6, <1>7, <1>8, <1>9, <1>10

OnlySw == \A s \in BpSlots : bps[s].active = TRUE => bps[s].kind = "sw"

LEMMA ClearAllCore ==
  ASSUME CoreInv, ClearAllBreakpoints
  PROVE  /\ CoreInv' /\ ArmInv'
         /\ "write" \notin Faults => (TextInv => TextInv')
         /\ op.cmd = "none" /\ UNCHANGED <<op, proc, rip>>
         /\ g_dbg.attached = TRUE /\ g_dbg'.attached = TRUE
         /\ g_dbg'.stopped = g_dbg.stopped
         /\ bps' = NoSession.breakpoints
         /\ OnlySw => Retabled
<1> USE DEF CoreInv
<1>1. /\ op.cmd = "none" /\ g_dbg.attached = TRUE
      /\ UNCHANGED <<op, proc, rip>>
      /\ g_dbg \in Session /\ Sound(bps) /\ ~Waiting /\ ~Waiting' /\ Main \in proc.live
  BY SessionFields DEF ClearAllBreakpoints, Idle, TypeOK, TableInv, Waiting, ProcInv
<1> DEFINE hw == {Min(WpAt(a)) : a \in {g_dbg.breakpoints[s].address :
                    s \in (BpSlots \ FreeBp) \ SwBps} \ {b \in Insns : WpAt(b) = {}}}
           w0 == [s \in WpSlots |-> IF s \in hw THEN ZeroWp ELSE g_dbg.watchpoints[s]]
<1>2. /\ \E r \in sync_hardware_dbregs(w0, FALSE) : Synced(r, NoSession.breakpoints, w0)
      /\ \E stuck \in IF proc.state = "exit" THEN {SwBps}
                      ELSE IF "write" \in Faults THEN SUBSET SwBps ELSE {{}} :
           int3' = Restored(SwBps \ stuck)
  BY Zenon DEF ClearAllBreakpoints
<1>3. wps \in Registers /\ bps \in Tables /\ SwBps = Sw(bps)
  BY <1>1, TableFacts, WatchFacts
<1>4. w0 \in Registers
  <2> HIDE DEF hw
  <2> QED
    BY <1>3, ZeroWpFacts DEF Registers, wps
<1>5. OnlySw => w0 = wps
  <2>1. OnlySw => hw = {}
    <3>1. OnlySw => (BpSlots \ FreeBp) \ Sw(bps) = {}
      <4>1. \A s \in BpSlots : s \notin FreeBp => bps[s].active = TRUE
        <5>1. \A s \in BpSlots : bps[s].active \in BOOLEAN
          BY <1>1, TableFacts, BpFields
        <5> QED
          BY <5>1 DEF FreeBp, bps
      <4> QED
        BY <4>1 DEF OnlySw, Sw
    <3> QED
      BY <3>1, <1>3
  <2>2. wps = [s \in WpSlots |-> wps[s]]
    BY <1>3 DEF Registers
  <2> HIDE DEF hw
  <2> QED
    BY <2>1, <2>2 DEF wps
<1> HIDE DEF w0
<1>6. PICK r \in sync_hardware_dbregs(w0, FALSE) : Synced(r, NoSession.breakpoints, w0)
  BY <1>2
<1>7. /\ g_dbg' \in Session /\ g_dbg'.attached = g_dbg.attached
      /\ g_dbg'.stopped = g_dbg.stopped /\ bps' = NoSession.breakpoints /\ wps' = w0
      /\ g_dbg'.dbregs_valid = r.valid
      /\ dr' = r.regs.dr /\ dr6' = r.regs.dr6 /\ dr' \in [Lwps -> Registers]
      /\ dr6' \in [Lwps -> SUBSET (WpSlots \cup {BS})]
  BY <1>1, <1>4, <1>6, EmptyTable, SyncedFacts
<1>8. ASSUME OnlySw PROVE Retabled
  <2>1. Shrunk(wps)
    BY DEF Shrunk
  <2>2. w0 = wps
    BY <1>5, <1>8
  <2>3. Resynced(w0, FALSE, wps')
    BY <2>2, <1>7 DEF Resynced
  <2> QED
    BY <2>1, <2>2, <2>3, <1>3 DEF Retabled
<1>9. PICK S : S \in SUBSET Sw(bps) /\ int3' = Restored(S)
               /\ ("write" \notin Faults /\ Alive => S = Sw(bps))
  <2>1. PICK stuck \in IF proc.state = "exit" THEN {SwBps}
                       ELSE IF "write" \in Faults THEN SUBSET SwBps ELSE {{}} :
           int3' = Restored(Sw(bps) \ stuck)
    BY <1>2, <1>3
  <2>2. "write" \notin Faults /\ Alive => Sw(bps) \ stuck = Sw(bps)
    BY <2>1 DEF Alive
  <2> QED
    BY <2>1, <2>2
<1>10. int3' \subseteq Insns
  <2>1. \A s \in S : bps[s].address \in Insns
    BY <1>1, <1>9 DEF Sound, Sw
  <2>2. Restored(S) \subseteq int3 \cup {bps[s].address : s \in S}
    BY DEF Restored, bps
  <2> QED
    BY <2>1, <2>2, <1>9 DEF TypeOK
<1>11. Sound(bps') /\ Sw(bps') = {} /\ Agrees(bps', {})
  BY <1>7, EmptyTable
<1>12. CoreInv'
  BY <1>1, <1>7, <1>10, <1>11, RecordCore
<1>13. "write" \notin Faults => (TextInv => TextInv')
  BY <1>1, <1>9, <1>11, AllRestored DEF TextInv, Alive
<1>14. ArmInv'
  BY <1>11 DEF ArmInv
<1> QED
  BY <1>1, <1>7, <1>8, <1>12, <1>13, <1>14

-----------------------------------------------------------------------------
(* The core invariant *)

LEMMA TargetCore ==
  ASSUME CoreInv, TargetNext
  PROVE  /\ CoreInv' /\ (TextInv => TextInv') /\ (ArmInv => ArmInv')
         /\ UNCHANGED <<g_dbg, op, int3, dr>> /\ (Alive' => Alive)
         /\ proc.state = "run" \/ proc'.state = "exit"
<1>1. CASE \E t \in Lwps : Trap(t)
  <2>1. CoreInv'
    BY <1>1, TrapCore
  <2>2. UNCHANGED <<g_dbg, op, int3, dr>> /\ proc.state = "run"
    BY <1>1 DEF Trap
  <2> QED
    BY <2>1, <2>2 DEF TextInv, ArmInv, Alive, bps, Waiting
<1>2. CASE \E t \in Lwps : Execute(t)
  <2>1. CoreInv'
    BY <1>2, ExecuteCore
  <2>2. UNCHANGED <<g_dbg, op, int3, dr>> /\ proc.state = "run"
    BY <1>2 DEF Execute
  <2> QED
    BY <2>1, <2>2 DEF TextInv, ArmInv, Alive, bps, Waiting
<1>3. CASE \E t \in Lwps : SpawnThread(t)
  <2>1. CoreInv'
    BY <1>3, SpawnCore
  <2>2. UNCHANGED <<g_dbg, op, int3, dr>> /\ proc.state = "run"
    BY <1>3 DEF SpawnThread, thread
  <2> QED
    BY <2>1, <2>2 DEF TextInv, ArmInv, Alive, bps, Waiting
<1>4. CASE DeliverSigstop
  <2>1. CoreInv'
    BY <1>4, SigstopCore
  <2>2. UNCHANGED <<g_dbg, op, int3, dr>> /\ proc.state = "run"
    BY <1>4 DEF DeliverSigstop, thread
  <2> QED
    BY <2>1, <2>2 DEF TextInv, ArmInv, Alive, bps, Waiting
<1>5. CASE ExitTarget
  <2>1. CoreInv' /\ proc'.state = "exit"
    BY <1>5, ExitCore
  <2>2. UNCHANGED <<g_dbg, op, int3, dr>>
    BY <1>5 DEF ExitTarget, thread
  <2> QED
    BY <2>1, <2>2 DEF TextInv, ArmInv, Alive
<1> QED
  BY <1>1, <1>2, <1>3, <1>4, <1>5 DEF TargetNext

(* ClearAllBreakpoints forgets the breakpoints whose byte it could not     *)
(* write back: the text stays right if it never comes to that.             *)
TextHypothesis == ~Sent("clear all") \/ "write" \notin Faults

(* What a call does that is not waiting for the target to stop. *)
LEMMA PollingCore ==
  ASSUME CoreInv, PollEvents \/ DetachPoll
  PROVE  /\ CoreInv' /\ (TextInv => TextInv') /\ (ArmInv => ArmInv')
         /\ g_dbg.attached = TRUE /\ Poll /\ op.cmd \in {"none", "detach"}
         /\ op' = op \/ op' = NoOp
<1>1. g_dbg.attached = TRUE /\ g_dbg.attached \in BOOLEAN /\ ~Waiting
      /\ op.cmd \in {"none", "detach"}
  BY SessionFields DEF PollEvents, DetachPoll, Idle, Waiting, CoreInv, TypeOK, TableInv
<1>2. Poll
  BY DEF PollEvents, DetachPoll
<1>3. g_dbg' \in Session /\ g_dbg'.attached \in BOOLEAN /\ g_dbg.attached \in BOOLEAN
  BY <1>1, <1>2, PollFacts, SessionFields
<1>4. /\ op' = op \/ op' = NoOp
      /\ g_dbg'.attached = FALSE => op'.cmd = "none"
  BY <1>3, NoOpFacts DEF DetachPoll, PollEvents, Idle
<1> QED
  BY <1>1, <1>2, <1>4, PollCore

LEMMA CallsCore ==
  ASSUME CoreInv, OpNext
  PROVE  CoreInv' /\ (TextInv => TextInv')
<1>1. CASE StepOverStopped
  BY <1>1, StepOverStoppedCore
<1>2. CASE StepOverForced
  BY <1>2, StepOverForcedCore
<1>3. CASE StepOverExited
  BY <1>3, StepOverExitedCore DEF TextInv, Alive
<1>4. CASE ContinueThread
  BY <1>4, ContinueThreadCore
<1>5. CASE ContinueResume
  BY <1>5, ContinueResumeCore
<1>6. CASE DetachPoll
  BY <1>6, PollingCore
<1>7. CASE DetachGivesUp
  BY <1>7, GivesUpCore
<1>8. CASE DetachNow
  BY <1>8, DetachNowCore
<1>9. CASE StepOverGivesUp
  BY <1>9, StepOverGivesUpCore
<1> QED
  BY <1>1, <1>2, <1>3, <1>4, <1>5, <1>6, <1>7, <1>8, <1>9 DEF OpNext

LEMMA StopFacts ==
  ASSUME CoreInv, Stop \/ (Sent("detach") /\ DetachStop)
  PROVE  /\ CoreInv' /\ (TextInv => TextInv') /\ (ArmInv => ArmInv')
         /\ UNCHANGED <<g_dbg, int3, thread>> /\ g_dbg.stopped = FALSE
         /\ proc'.state = proc.state /\ proc'.event = proc.event
         /\ op.cmd = "none" /\ op'.cmd \in {"none", "detach"} /\ proc'.live = proc.live
<1>1. /\ op.cmd = "none" /\ g_dbg.attached = TRUE /\ g_dbg.stopped = FALSE
      /\ proc' = [proc EXCEPT !.sigstop = TRUE] /\ UNCHANGED <<g_dbg, int3, thread>>
      /\ op' = op \/ (op' = [NoOp EXCEPT !.cmd = "detach"] /\ Sent("detach"))
  BY SessionFields DEF Stop, DetachStop, Idle, CoreInv, TypeOK
<1> QED
  BY <1>1, SignalCore

LEMMA CommandsCore ==
  ASSUME CoreInv, CommandNext
  PROVE  CoreInv' /\ (TextHypothesis => (TextInv => TextInv'))
<1>1. CASE Attach
  BY <1>1, AttachCore
<1>2. CASE Stop \/ (Sent("detach") /\ DetachStop)
  BY <1>2, StopFacts
<1>3. CASE PollEvents
  BY <1>3, PollingCore
<1>4. CASE Continue
  BY <1>4, ContinueCore
<1>5. CASE \E t \in Lwps : Step(t)
  BY <1>5, StepCore
<1>6. CASE DetachNow
  BY <1>6, DetachNowCore
<1>7. CASE \E a \in Insns, c \in BOOLEAN : SetSwBreakpoint(a, c)
  BY <1>7, SetSwCore
<1>8. CASE \E a \in Insns : SetHwBreakpoint(a)
  BY <1>8, SetHwCore
<1>9. CASE \E a \in Insns : ClearBreakpoint(a)
  BY <1>9, ClearBreakpointCore
<1>10. CASE Sent("clear all") /\ ClearAllBreakpoints
  BY <1>10, ClearAllCore DEF TextHypothesis
<1>11. CASE \E a \in WatchAddrs : SetWatchpoint(a)
  BY <1>11, SetWatchpointCore
<1>12. CASE \E S : ClearWatchpoints(S)
  BY <1>12, ClearWatchpointsCore
<1>13. CASE \E t \in Lwps, a \in Insns : SetRip(t, a)
  BY <1>13, SetRipCore
<1>14. CASE \E t \in Lwps : ClientWrites(t)
  BY <1>14, SetDbregsCore
<1>15. \/ Attach \/ Stop \/ PollEvents \/ Continue \/ DetachNow
       \/ Sent("detach") /\ DetachStop
       \/ Sent("clear all") /\ ClearAllBreakpoints
       \/ \E t \in Lwps : Step(t) \/ ClientWrites(t) \/ \E a \in Insns : SetRip(t, a)
       \/ \E a \in Insns : \/ SetSwBreakpoint(a, TRUE) \/ SetSwBreakpoint(a, FALSE)
                           \/ SetHwBreakpoint(a) \/ ClearBreakpoint(a)
       \/ \E a \in WatchAddrs : SetWatchpoint(a)
       \/ \E S : ClearWatchpoints(S)
  BY Zenon DEF CommandNext, ClientWrites
<1> QED
  BY <1>1, <1>2, <1>3, <1>4, <1>5, <1>6, <1>7, <1>8, <1>9, <1>10, <1>11, <1>12, <1>13,
     <1>14, <1>15

LEMMA CoreStutter ==
  ASSUME CoreInv, UNCHANGED vars
  PROVE  CoreInv' /\ (TextInv => TextInv') /\ (ArmInv => ArmInv')
BY DEF CoreInv, TypeOK, TableInv, ProcInv, TextInv, ArmInv, Alive, Waiting, bps, vars, Sent

LEMMA CoreNext ==
  ASSUME CoreInv, [Next]_vars
  PROVE  CoreInv' /\ (TextHypothesis => (TextInv => TextInv'))
<1>1. CASE UNCHANGED vars
  BY <1>1, CoreStutter
<1>2. CASE Next
  BY <1>2, TargetCore, CallsCore, CommandsCore DEF Next
<1> QED
  BY <1>1, <1>2

LEMMA CoreInit ==
  ASSUME Init
  PROVE  CoreInv /\ TextInv
<1> USE DEF Init
<1>1. g_dbg \in Session /\ g_dbg.attached = FALSE /\ bps = NoSession.breakpoints
  BY NoSessionFacts DEF bps
<1>2. /\ Sound(bps) /\ Agrees(bps, {}) /\ \A s \in BpSlots : bps[s].active = FALSE
  BY <1>1, EmptyTable, NoSessionFacts, ZeroBpFacts
<1>3. proc \in Process /\ proc.state = "run" /\ proc.event = "none" /\ Main \in proc.live
  BY DebuggerAssumption DEF Process, Main
<1>4. op \in Call /\ op.cmd = "none" /\ ~Waiting
  BY NoOpFacts DEF Waiting
<1>5. TypeOK
  <2>1. Min(Insns) \in Insns /\ Min(Insns) \in Rips
    BY InsnsFacts DEF Rips
  <2>2. rip = [t \in Lwps |-> Min(Insns)]
    OBVIOUS
  <2>3. rip \in [Lwps -> Rips]
    BY <2>1, <2>2
  <2>4. dr \in [Lwps -> Registers] /\ dr6 \in [Lwps -> SUBSET (WpSlots \cup {BS})]
    BY ZeroWpFacts
  <2> QED
    BY <2>3, <2>4, <1>1, <1>3, <1>4 DEF TypeOK
<1>6. TableInv /\ ProcInv
  BY <1>1, <1>2, <1>3, <1>4 DEF TableInv, ProcInv
<1>7. TextInv
  BY <1>2 DEF TextInv
<1> QED
  BY <1>5, <1>6, <1>7 DEF CoreInv

(* The bookkeeping of the session holds whatever the clients send and the  *)
(* platform refuses: no two breakpoints at one instruction, INT3 only for  *)
(* software breakpoints, a call that steps over a breakpoint always knows  *)
(* which one it took out, and only that thread runs under PT_STEP.         *)
THEOREM SessionBookkeeping == Spec => []CoreInv
<1>1. Init => CoreInv
  BY CoreInit
<1>2. CoreInv /\ [Next]_vars => CoreInv'
  BY CoreNext
<1> QED
  BY <1>1, <1>2, PTL DEF Spec

LEMMA TextIntactFrom ==
  ASSUME CoreInv, TextInv
  PROVE  TextIntact
<1>1. TypeOK /\ g_dbg \in Session
  BY DEF CoreInv, TypeOK
<1>2. SwBps = Sw(bps) /\ \A s \in BpSlots : bps[s].installed \in BOOLEAN
  BY <1>1, TableFacts, BpFields
<1>3. Sw(bps) \subseteq BpSlots
  BY DEF Sw
<1>4. {b \in SwBps : g_dbg.breakpoints[b].installed} = {u \in Sw(bps) : bps[u].installed = TRUE}
  BY <1>2, <1>3 DEF bps
<1>5. Planted(bps) = {g_dbg.breakpoints[s].address :
                        s \in {b \in SwBps : g_dbg.breakpoints[b].installed}}
  BY <1>4 DEF Planted, bps
<1> QED
  BY <1>1, <1>2, <1>5 DEF TextInv, Agrees, TextIntact, bps

(* The text and the table tell the same story (TextIntact), for any number *)
(* of threads and breakpoints, under every fault - except that             *)
(* clear_all_breakpoints may not meet a refused write, as it empties the   *)
(* table anyway (breakpoints.c ignores what uninstall_sw_breakpoint        *)
(* returns there).                                                         *)
THEOREM TextStaysIntact == TextHypothesis => (Spec => []TextIntact)
<1> SUFFICES ASSUME TextHypothesis PROVE Spec => []TextIntact
  OBVIOUS
<1>1. Init => CoreInv /\ TextInv
  BY CoreInit
<1>2. CoreInv /\ TextInv /\ [Next]_vars => (CoreInv /\ TextInv)'
  BY CoreNext
<1>3. CoreInv /\ TextInv => TextIntact
  BY TextIntactFrom
<1> QED
  BY <1>1, <1>2, <1>3, PTL DEF Spec

-----------------------------------------------------------------------------
(* g_dbg.stopped *)

Calm == proc.state # "run" /\ (proc.state = "stop" => proc.event = "none")

(* While memdbg_debugger_continue goes through the threads nothing runs,   *)
(* and nothing runs or waits to be reported when the session counts as     *)
(* stopped and no step-over is under way.                                  *)
CalmInv ==
  /\ op.cmd = "continue" => Calm
  /\ op.cmd \in {"none", "detach"} /\ g_dbg.attached = TRUE /\ g_dbg.stopped = TRUE => Calm

(* What continue relies on: the breakpoint it finds behind a thread is a   *)
(* software breakpoint, so that the step over it is waited for.            *)
Behind ==
  op.cmd = "continue" /\ op.todo # <<>> /\ NeedsStepOver(Head(op.todo))
    => SwBehind(Head(op.todo)) # {}

LEMMA CalmKept ==
  ASSUME CalmInv, proc' = proc, op' = op,
         g_dbg'.attached = g_dbg.attached, g_dbg'.stopped = g_dbg.stopped
  PROVE  CalmInv'
BY DEF CalmInv, Calm

LEMMA CalmCalls ==
  ASSUME "hang" \notin Faults, CoreInv, CalmInv, Behind, OpNext
  PROVE  CalmInv'
<1>1. CASE StepOverStopped
  BY <1>1, StepOverStoppedCore DEF CalmInv, Calm
<1>2. CASE StepOverForced
  BY <1>2, StepOverForcedCore DEF CalmInv, Calm
<1>3. CASE StepOverExited
  BY <1>3, StepOverExitedCore DEF CalmInv, Calm
<1>4. CASE ContinueThread
  <2>1. /\ op.cmd = "continue" /\ op.todo # <<>> /\ ~Waiting /\ g_dbg.attached = TRUE
        /\ op.todo \in Seq(Lwps) /\ op \in Call /\ Calm
    BY <1>4, CallFields DEF ContinueThread, Waiting, CoreInv, TypeOK, TableInv, CalmInv
  <2> PICK t, rest : t = Head(op.todo) /\ rest = Tail(op.todo)
    OBVIOUS
  <2>2. t \in Lwps /\ rest \in Seq(Lwps)
    BY <2>1
  <2>3. CASE UNCHANGED proc
    BY <2>1, <2>3 DEF CalmInv, Calm
  <2>4. CASE NeedsStepOver(t) /\ StepOverBegin(t, "continue wait", rest)
    <3>1. op'.cmd = "continue wait"
      BY <2>1, <2>2, <2>4, StepOverBeginCore DEF NeedsStepOver
    <3> QED
      BY <3>1 DEF CalmInv
  <2>5. CASE NeedsStepOver(t) /\ PlainStep(t)
    BY <2>1, <2>5 DEF Behind, PlainStep
  <2> QED
    BY <1>4, <2>3, <2>4, <2>5 DEF ContinueThread, StepOverRefused
<1>5. CASE ContinueResume
  BY <1>5, ContinueResumeCore, NoOpFacts DEF CalmInv, Calm
<1>6. CASE DetachPoll
  <2>1. /\ g_dbg.attached = TRUE /\ Poll /\ op.cmd = "detach" /\ (op' = op \/ op' = NoOp)
    BY <1>6, PollingCore DEF DetachPoll
  <2> QED
    BY <2>1, PollFacts, NoOpFacts, NoSessionFacts DEF CalmInv, Calm
<1>7. CASE DetachGivesUp
  BY <1>7, NoOpFacts DEF DetachGivesUp, CalmInv, Calm
<1>8. CASE DetachNow
  BY <1>8, DetachNowFacts, NoOpFacts, NoSessionFacts DEF CalmInv, Calm, Kept
<1>9. ~StepOverGivesUp
  BY DEF StepOverGivesUp
<1> QED
  BY <1>1, <1>2, <1>3, <1>4, <1>5, <1>6, <1>7, <1>8, <1>9 DEF OpNext

LEMMA CalmCommands ==
  ASSUME CoreInv, CalmInv, CommandNext
  PROVE  CalmInv'
<1>1. CASE Attach
  BY <1>1, AttachCore DEF CalmInv, Calm
<1>2. CASE Stop \/ (Sent("detach") /\ DetachStop)
  BY <1>2, StopFacts DEF CalmInv, Calm
<1>3. CASE PollEvents
  <2>1. /\ g_dbg.attached = TRUE /\ Poll /\ op.cmd \in {"none", "detach"}
        /\ op' = op \/ op' = NoOp
    BY <1>3, PollingCore
  <2> QED
    BY <2>1, PollFacts, NoOpFacts, NoSessionFacts DEF CalmInv, Calm
<1>4. CASE Continue
  BY <1>4, ContinueCore DEF CalmInv, Calm, Ready
<1>5. CASE \E t \in Lwps : Step(t)
  <2>1. PICK t \in Lwps : Step(t)
    BY <1>5
  <2>2. op.cmd = "none" /\ g_dbg.attached = TRUE /\ Ready /\ ~Waiting /\ g_dbg \in Session
    BY <2>1, SessionFields DEF Step, Idle, Waiting, CoreInv, TypeOK
  <2>3. CASE StepOverBegin(t, "step wait", <<>>)
    <3>1. <<>> \in Seq(Lwps)
      OBVIOUS
    <3>2. op'.cmd = "step wait"
      BY <3>1, <2>2, <2>3, StepOverBeginCore
    <3> QED
      BY <3>2 DEF CalmInv
  <2>4. CASE StepOverRefused(t)
    BY <2>2, <2>4, NoOpFacts DEF StepOverRefused, CalmInv, Calm, Ready
  <2>5. CASE g_dbg' = [g_dbg EXCEPT !.stopped = FALSE, !.stop_lwp = 0] /\ UNCHANGED op
    <3>1. g_dbg'.stopped = FALSE
      BY <2>2, <2>5 DEF Session
    <3> QED
      BY <3>1, <2>2, <2>5 DEF CalmInv
  <2> QED
    BY <2>1, <2>3, <2>4, <2>5 DEF Step
<1>6. CASE DetachNow
  BY <1>6, DetachNowFacts, NoOpFacts, NoSessionFacts DEF CalmInv, Calm, Kept
<1>7. CASE \E a \in Insns, c \in BOOLEAN : SetSwBreakpoint(a, c)
  BY <1>7, SetSwCore, CalmKept DEF SameSession
<1>8. CASE \E a \in Insns : SetHwBreakpoint(a)
  BY <1>8, SetHwCore, CalmKept
<1>9. CASE \E a \in Insns : ClearBreakpoint(a)
  BY <1>9, ClearBreakpointCore, CalmKept
<1>10. CASE Sent("clear all") /\ ClearAllBreakpoints
  BY <1>10, ClearAllCore, CalmKept
<1>11. CASE \E a \in WatchAddrs : SetWatchpoint(a)
  BY <1>11, SetWatchpointCore, CalmKept
<1>12. CASE \E S : ClearWatchpoints(S)
  BY <1>12, ClearWatchpointsCore, CalmKept
<1>13. CASE \E t \in Lwps, a \in Insns : SetRip(t, a)
  BY <1>13, CalmKept DEF SetRip
<1>14. CASE \E t \in Lwps : ClientWrites(t)
  BY <1>14, SetDbregsCore, CalmKept
<1>15. \/ Attach \/ Stop \/ PollEvents \/ Continue \/ DetachNow
       \/ Sent("detach") /\ DetachStop
       \/ Sent("clear all") /\ ClearAllBreakpoints
       \/ \E t \in Lwps : Step(t) \/ ClientWrites(t) \/ \E a \in Insns : SetRip(t, a)
       \/ \E a \in Insns : \/ SetSwBreakpoint(a, TRUE) \/ SetSwBreakpoint(a, FALSE)
                           \/ SetHwBreakpoint(a) \/ ClearBreakpoint(a)
       \/ \E a \in WatchAddrs : SetWatchpoint(a)
       \/ \E S : ClearWatchpoints(S)
  BY Zenon DEF CommandNext, ClientWrites
<1> QED
  BY <1>1, <1>2, <1>3, <1>4, <1>5, <1>6, <1>7, <1>8, <1>9, <1>10, <1>11, <1>12, <1>13,
     <1>14, <1>15

(* What can become of an entry of the breakpoint table. *)
EntryStep(u) ==
  \/ /\ bps'[u].active = bps[u].active /\ bps'[u].kind = bps[u].kind
     /\ bps'[u].address = bps[u].address /\ bps'[u].conditional = bps[u].conditional
  \/ /\ bps'[u] = ZeroBp
     /\ \/ ~Alive' \/ bps[u].active = FALSE
        \/ Sent("clear") \/ Sent("clear all") \/ Sent("detach")
  \/ bps[u].active = FALSE /\ bps'[u].conditional = FALSE /\ Sent("set hw")
  \/ /\ bps[u].active = FALSE /\ bps'[u].kind = "sw"
     /\ bps'[u].conditional = TRUE => Sent("set cond")

LEMMA EntrySame ==
  ASSUME SameTable \/ bps' = bps
  PROVE  \A u \in BpSlots : EntryStep(u)
BY DEF SameTable, EntryStep

LEMMA EntryPoll ==
  ASSUME CoreInv, PollEvents \/ DetachPoll
  PROVE  \A u \in BpSlots : EntryStep(u)
<1>1. g_dbg.attached = TRUE /\ Poll
  BY PollingCore
<1>2. CASE g_dbg' = NoSession /\ proc'.state = "exit"
  BY <1>2, NoSessionFacts DEF EntryStep, bps, Alive
<1>3. CASE bps' = bps
  BY <1>3, EntrySame
<1> QED
  BY <1>1, <1>2, <1>3, PollFacts

LEMMA EntryDetach ==
  ASSUME CoreInv, Sent("detach"), DetachNow
  PROVE  \A u \in BpSlots : EntryStep(u)
<1>1. CASE g_dbg' = NoSession
  BY <1>1, NoSessionFacts DEF EntryStep, bps
<1>2. CASE \E keep : Kept(keep)
  <2>1. PICK keep : Kept(keep)
    BY <1>2
  <2>2. bps' = Uninstalled(Sw(bps) \ keep) /\ g_dbg \in Session /\ Sound(bps)
    BY <2>1 DEF Kept, CoreInv, TypeOK, TableInv
  <2>3. Sw(bps) \ keep \in SUBSET Sw(bps)
    OBVIOUS
  <2>4. SameTable
    BY <2>2, <2>3, Uninstalling DEF SameTable
  <2> QED
    BY <2>4, EntrySame
<1> QED
  BY <1>1, <1>2, DetachNowFacts

LEMMA EntryNext ==
  ASSUME CoreInv, [Next]_vars
  PROVE  \A u \in BpSlots : EntryStep(u)
<1>1. CASE UNCHANGED vars \/ TargetNext \/ Stop \/ (Sent("detach") /\ DetachStop)
           \/ DetachGivesUp \/ StepOverGivesUp \/ StepOverExited
           \/ \E t \in Lwps, a \in Insns : SetRip(t, a)
  <2>1. g_dbg' = g_dbg
    BY <1>1, TargetCore, StopFacts, StepOverExitedCore
       DEF vars, DetachGivesUp, StepOverGivesUp, SetRip
  <2> QED
    BY <2>1, EntrySame DEF bps
<1>2. CASE Attach
  <2>1. \A s \in BpSlots : bps[s].active = FALSE /\ bps'[s] = ZeroBp
    BY <1>2, AttachCore, NoSessionFacts DEF CoreInv, TableInv
  <2> QED
    BY <2>1 DEF EntryStep
<1>3. CASE StepOverStopped \/ StepOverForced \/ ContinueThread \/ \E t \in Lwps : Step(t)
  BY <1>3, StepOverStoppedCore, StepOverForcedCore, ContinueThreadCore, StepCore, EntrySame
<1>4. CASE Continue \/ ContinueResume \/ (\E a \in WatchAddrs : SetWatchpoint(a))
           \/ (\E S : ClearWatchpoints(S)) \/ \E t \in Lwps : ClientWrites(t)
  BY <1>4, ContinueCore, ContinueResumeCore, SetWatchpointCore, ClearWatchpointsCore,
     SetDbregsCore, EntrySame
<1>5. CASE PollEvents \/ DetachPoll
  BY <1>5, EntryPoll
<1>6. CASE Sent("detach") /\ DetachNow
  BY <1>6, EntryDetach
<1>7. CASE \E a \in Insns, c \in BOOLEAN : (c = TRUE => Sent("set cond")) /\ SetSwBreakpoint(a, c)
  <2>1. PICK a \in Insns, c \in BOOLEAN : (c = TRUE => Sent("set cond")) /\ SetSwBreakpoint(a, c)
    BY <1>7
  <2>2. PICK n \in BpSlots : /\ Sw(bps') = Sw(bps) \cup {n} /\ bps'[n].conditional = c
                             /\ \A u \in BpSlots : u # n => bps'[u] = bps[u]
                             /\ bps[n].active = FALSE
    BY <2>1, SetSwCore
  <2>3. bps'[n].kind = "sw"
    BY <2>2 DEF Sw
  <2> QED
    BY <2>1, <2>2, <2>3 DEF EntryStep
<1>8. CASE Sent("set hw") /\ \E a \in Insns : SetHwBreakpoint(a)
  BY <1>8, SetHwCore DEF EntryStep
<1>9. CASE Sent("clear") /\ \E a \in Insns : ClearBreakpoint(a)
  BY <1>9, ClearBreakpointCore DEF EntryStep
<1>10. CASE Sent("clear all") /\ ClearAllBreakpoints
  BY <1>10, ClearAllCore, NoSessionFacts DEF EntryStep
<1>11. CASE OpNext
  <2>1. op.cmd = "detach" /\ DetachNow => Sent("detach")
    BY DEF CoreInv, TableInv
  <2> QED
    BY <2>1, <1>1, <1>3, <1>4, <1>5, <1>6, <1>11 DEF OpNext
<1>12. CASE CommandNext
  <2>1. \/ Attach \/ Stop \/ PollEvents \/ Continue
        \/ Sent("detach") /\ DetachNow
        \/ Sent("detach") /\ DetachStop
        \/ Sent("clear all") /\ ClearAllBreakpoints
        \/ \E t \in Lwps : Step(t) \/ ClientWrites(t) \/ \E a \in Insns : SetRip(t, a)
        \/ \E a \in Insns : \/ Sent("set cond") /\ SetSwBreakpoint(a, TRUE)
                            \/ SetSwBreakpoint(a, FALSE)
                            \/ Sent("set hw") /\ SetHwBreakpoint(a)
                            \/ Sent("clear") /\ ClearBreakpoint(a)
        \/ \E a \in WatchAddrs : SetWatchpoint(a)
        \/ \E S : ClearWatchpoints(S)
    BY <1>12, Zenon DEF CommandNext, ClientWrites
  <2> QED
    BY <2>1, <1>1, <1>2, <1>3, <1>4, <1>5, <1>6, <1>7, <1>8, <1>9, <1>10
<1> QED
  BY <1>1, <1>11, <1>12 DEF Next

LEMMA OnlySwNext ==
  ASSUME ~Sent("set hw"), CoreInv, OnlySw, [Next]_vars
  PROVE  OnlySw'
<1>1. \A u \in BpSlots : EntryStep(u)
  BY EntryNext
<1> QED
  BY <1>1, ZeroBpFacts DEF EntryStep, OnlySw

LEMMA CalmNext ==
  ASSUME "hang" \notin Faults, CoreInv, CalmInv, Behind, [Next]_vars
  PROVE  CalmInv'
<1>1. CASE UNCHANGED vars
  BY <1>1 DEF vars, CalmInv, Calm
<1>2. CASE TargetNext
  <2>1. UNCHANGED <<g_dbg, op>> /\ (proc.state = "run" \/ proc'.state = "exit")
    BY <1>2, TargetCore
  <2> QED
    BY <2>1 DEF CalmInv, Calm
<1> QED
  BY <1>1, <1>2, CalmCalls, CalmCommands DEF Next

LEMMA OnlySwBehind ==
  ASSUME CoreInv, OnlySw
  PROVE  Behind
<1> SUFFICES ASSUME op.cmd = "continue", op.todo # <<>>, NeedsStepOver(Head(op.todo))
             PROVE  SwBehind(Head(op.todo)) # {}
  BY DEF Behind
<1>1. BpAt(rip[Head(op.todo)] - 1) # {}
  BY DEF NeedsStepOver
<1>2. g_dbg \in Session
  BY DEF CoreInv, TypeOK
<1>3. BpAt(rip[Head(op.todo)] - 1) \subseteq SwBps
  BY <1>2, TableFacts DEF OnlySw, Sw
<1> QED
  BY <1>1, <1>3 DEF SwBehind

LEMMA SwInit ==
  ASSUME Init
  PROVE  OnlySw /\ CalmInv /\ ArmInv
<1>1. \A s \in BpSlots : bps[s].active = FALSE
  BY NoSessionFacts, ZeroBpFacts DEF Init, bps
<1>2. OnlySw
  BY <1>1 DEF OnlySw
<1>3. CalmInv
  BY NoOpFacts, NoSessionFacts DEF Init, CalmInv
<1>4. ArmInv
  BY <1>1 DEF ArmInv, Sw
<1> QED
  BY <1>2, <1>3, <1>4

(* memdbg_debugger_detach may trust g_dbg.stopped (StoppedIsTrue), for any *)
(* number of threads and under every fault but one, a step over that gives *)
(* up because not even SIGSTOP stops the target; and as long as no         *)
(* hardware breakpoint is set: the step that continue makes off one of     *)
(* those is not waited for, and the session counts as stopped meanwhile.   *)
THEOREM StoppedStaysTrue ==
  ~Sent("set hw") /\ "hang" \notin Faults => (Spec => []StoppedIsTrue)
<1> SUFFICES ASSUME ~Sent("set hw"), "hang" \notin Faults PROVE Spec => []StoppedIsTrue
  OBVIOUS
<1>1. Init => CoreInv /\ OnlySw /\ CalmInv
  BY CoreInit, SwInit
<1>2. CoreInv /\ OnlySw /\ CalmInv /\ [Next]_vars => (CoreInv /\ OnlySw /\ CalmInv)'
  BY CoreNext, OnlySwNext, OnlySwBehind, CalmNext
<1>3. CoreInv /\ CalmInv => StoppedIsTrue
  BY SessionFields DEF CoreInv, TypeOK, CalmInv, Calm, StoppedIsTrue, Idle
<1> QED
  BY <1>1, <1>2, <1>3, PTL DEF Spec

-----------------------------------------------------------------------------
(* Breakpoints stay armed *)

(* A refused write is reported and leaves a breakpoint out, and so does a  *)
(* step over that gives up on a target that cannot be stopped; a detach    *)
(* that PT_DETACH refuses - or that finds the target running after all -   *)
(* keeps the session with every breakpoint taken out.                      *)
ArmHypothesis ==
  /\ {"write", "hang"} \cap Faults = {}
  /\ Sent("detach") => "resume" \notin Faults /\ ~Sent("set hw")

ArmedInv == CoreInv /\ TextInv /\ ArmInv /\ (Sent("detach") => OnlySw /\ CalmInv)

LEMMA ArmDetach ==
  ASSUME ArmHypothesis, ArmedInv, Sent("detach"), DetachNow
  PROVE  ArmInv'
<1>1. Calm /\ proc.state \in {"run", "stop", "exit"}
  BY DetachNowFacts, ProcFields DEF ArmedInv, CalmInv, CoreInv, TypeOK
<1>2. Ready \/ ~Alive
  BY <1>1 DEF Calm, Ready, Alive
<1>3. {"write", "resume"} \cap Faults = {}
  BY DEF ArmHypothesis
<1> QED
  BY <1>2, <1>3, DetachNowCore DEF ArmedInv

LEMMA ArmNext ==
  ASSUME ArmHypothesis, ArmedInv, [Next]_vars
  PROVE  ArmInv'
<1>1. CoreInv /\ ArmInv /\ "write" \notin Faults /\ "hang" \notin Faults
  BY DEF ArmedInv, ArmHypothesis
<1>2. CASE UNCHANGED vars
  BY <1>1, <1>2, CoreStutter
<1>3. CASE TargetNext
  BY <1>1, <1>3, TargetCore
<1>4. CASE OpNext
  <2>1. CASE op.cmd = "detach" /\ DetachNow
    <3>1. Sent("detach")
      BY <2>1, <1>1 DEF CoreInv, TableInv
    <3> QED
      BY <3>1, <2>1, ArmDetach
  <2>2. CASE StepOverExited
    BY <2>2, <1>1, StepOverExitedCore DEF ArmInv, Alive
  <2>3. CASE \/ StepOverStopped \/ StepOverForced \/ ContinueThread \/ ContinueResume
             \/ DetachPoll \/ DetachGivesUp
    BY <2>3, <1>1, StepOverStoppedCore, StepOverForcedCore, ContinueThreadCore,
       ContinueResumeCore, PollingCore, GivesUpCore
  <2>4. ~StepOverGivesUp
    BY <1>1 DEF StepOverGivesUp
  <2> QED
    BY <2>1, <2>2, <2>3, <2>4, <1>4 DEF OpNext
<1>5. CASE CommandNext
  <2>1. CASE Sent("detach") /\ DetachNow
    BY <2>1, ArmDetach
  <2>2. CASE \/ Attach \/ PollEvents \/ Continue
             \/ Stop \/ (Sent("detach") /\ DetachStop)
             \/ Sent("clear all") /\ ClearAllBreakpoints
    BY <2>2, <1>1, AttachCore, PollingCore, ContinueCore, StopFacts, ClearAllCore
  <2>3. CASE \E t \in Lwps : Step(t) \/ ClientWrites(t) \/ \E a \in Insns : SetRip(t, a)
    BY <2>3, <1>1, StepCore, SetDbregsCore, SetRipCore
  <2>4. CASE \E a \in Insns : \/ SetSwBreakpoint(a, TRUE) \/ SetSwBreakpoint(a, FALSE)
                              \/ SetHwBreakpoint(a) \/ ClearBreakpoint(a)
    BY <2>4, <1>1, SetSwCore, SetHwCore, ClearBreakpointCore
  <2>5. CASE (\E a \in WatchAddrs : SetWatchpoint(a)) \/ \E S : ClearWatchpoints(S)
    BY <2>5, <1>1, SetWatchpointCore, ClearWatchpointsCore
  <2>6. \/ Attach \/ Stop \/ PollEvents \/ Continue
        \/ Sent("detach") /\ DetachNow
        \/ Sent("detach") /\ DetachStop
        \/ Sent("clear all") /\ ClearAllBreakpoints
        \/ \E t \in Lwps : Step(t) \/ ClientWrites(t) \/ \E a \in Insns : SetRip(t, a)
        \/ \E a \in Insns : \/ SetSwBreakpoint(a, TRUE) \/ SetSwBreakpoint(a, FALSE)
                            \/ SetHwBreakpoint(a) \/ ClearBreakpoint(a)
        \/ \E a \in WatchAddrs : SetWatchpoint(a)
        \/ \E S : ClearWatchpoints(S)
    BY <1>5, Zenon DEF CommandNext, ClientWrites
  <2> QED
    BY <2>1, <2>2, <2>3, <2>4, <2>5, <2>6
<1> QED
  BY <1>2, <1>3, <1>4, <1>5 DEF Next

LEMMA ArmedInvariant == ArmHypothesis => (Spec => []ArmedInv)
<1> SUFFICES ASSUME ArmHypothesis PROVE Spec => []ArmedInv
  OBVIOUS
<1>1. Init => ArmedInv
  BY CoreInit, SwInit DEF ArmedInv
<1>2. ArmedInv /\ [Next]_vars => ArmedInv'
  <2> SUFFICES ASSUME ArmedInv, [Next]_vars PROVE ArmedInv'
    OBVIOUS
  <2>1. CoreInv' /\ TextInv'
    BY CoreNext DEF ArmedInv, ArmHypothesis, TextHypothesis
  <2>2. Sent("detach") => OnlySw' /\ CalmInv'
    BY OnlySwNext, OnlySwBehind, CalmNext DEF ArmedInv, ArmHypothesis
  <2>3. ArmInv'
    BY ArmNext
  <2> QED
    BY <2>1, <2>2, <2>3 DEF ArmedInv, Sent
<1> QED
  BY <1>1, <1>2, PTL DEF Spec

(* At every instant every active software breakpoint is planted, but for   *)
(* the one that is being stepped over (BreakpointsArmed): for any number   *)
(* of threads and step overs, and whichever requests on registers are      *)
(* refused.                                                                *)
THEOREM BreakpointsStayArmed == ArmHypothesis => (Spec => []BreakpointsArmed)
<1>1. ArmedInv => BreakpointsArmed
  <2> SUFFICES ASSUME ArmedInv, Alive, NEW s \in SwBps
               PROVE  g_dbg.breakpoints[s].installed \/ (Waiting /\ op.slot = s)
    BY DEF BreakpointsArmed, Waiting
  <2>1. g_dbg \in Session
    BY DEF ArmedInv, CoreInv, TypeOK
  <2>2. s \in Sw(bps) /\ s \in BpSlots
    BY <2>1, TableFacts DEF Sw
  <2>3. bps[s].installed \in BOOLEAN
    BY <2>1, <2>2, TableFacts, BpFields
  <2> QED
    BY <2>2, <2>3 DEF ArmedInv, ArmInv, bps
<1> QED
  BY <1>1, ArmedInvariant, PTL

-----------------------------------------------------------------------------
(* No register outlives its watchpoint *)

(* Unused entries are zero; a session that has not read the registers yet  *)
(* has no watchpoint, and neither has no session at all; a thread that is  *)
(* not born yet has clean registers; and an armed register, of any thread, *)
(* is one of the table's.                                                  *)
GhostInv ==
  /\ \A s \in WpSlots : wps[s].installed = FALSE => wps[s] = ZeroWp
  /\ \A t \in Lwps, s \in WpSlots : dr[t][s].installed = FALSE => dr[t][s] = ZeroWp
  /\ g_dbg.dbregs_valid = FALSE \/ g_dbg.attached = FALSE =>
       \A s \in WpSlots : wps[s].installed = FALSE
  /\ \A t \in Lwps : t \notin proc.live => dr6[t] = {} /\ dr[t] = NoWps
  /\ Alive => \A t \in Lwps, s \in WpSlots : dr[t][s].installed = TRUE => wps[s] = dr[t][s]

LEMMA GhostTypes ==
  ASSUME CoreInv
  PROVE  /\ wps \in Registers /\ \A t \in Lwps : dr[t] \in Registers
         /\ \A r \in Registers, s \in WpSlots :
              r[s] \in Watchpoint /\ r[s].installed \in BOOLEAN
         /\ proc.live \subseteq Lwps /\ g_dbg \in Session /\ TypeOK /\ Main \in proc.live
         /\ g_dbg.dbregs_valid \in BOOLEAN /\ g_dbg.attached \in BOOLEAN
<1>1. TypeOK /\ Main \in proc.live /\ g_dbg \in Session /\ proc \in Process
  BY DEF CoreInv, TypeOK, ProcInv
<1>2. \A r \in Registers, s \in WpSlots : r[s] \in Watchpoint /\ r[s].installed \in BOOLEAN
  BY DEF Registers, Watchpoint
<1>3. \A t \in Lwps : dr[t] \in Registers
  BY <1>1 DEF TypeOK
<1> QED
  BY <1>1, <1>2, <1>3, SessionFields, ProcFields DEF wps

(* Steps that keep the table and give threads only its registers, or none. *)
LEMMA GhostKept ==
  ASSUME CoreInv, GhostInv, wps' = wps, g_dbg'.attached = g_dbg.attached,
         g_dbg'.dbregs_valid \in {g_dbg.dbregs_valid, TRUE},
         proc.live \subseteq proc'.live, Alive' => Alive,
         \A t \in Lwps : dr'[t] \in {dr[t], wps, NoWps},
         \A t \in Lwps : t \notin proc'.live => dr'[t] = dr[t] /\ dr6'[t] = dr6[t]
  PROVE  GhostInv'
<1>1. \A t \in Lwps, s \in WpSlots : dr'[t][s].installed = FALSE => dr'[t][s] = ZeroWp
  <2> SUFFICES ASSUME NEW t \in Lwps, NEW s \in WpSlots, dr'[t][s].installed = FALSE
               PROVE  dr'[t][s] = ZeroWp
    OBVIOUS
  <2>1. CASE dr'[t] = dr[t]
    BY <2>1 DEF GhostInv
  <2>2. CASE dr'[t] = wps
    BY <2>2 DEF GhostInv
  <2>3. CASE dr'[t] = NoWps
    BY <2>3, ZeroWpFacts
  <2> QED
    BY <2>1, <2>2, <2>3
<1>2. ASSUME Alive, NEW t \in Lwps, NEW s \in WpSlots, dr'[t][s].installed = TRUE
      PROVE  wps[s] = dr'[t][s]
  <2>1. CASE dr'[t] = dr[t]
    BY <2>1, <1>2 DEF GhostInv
  <2>2. CASE dr'[t] = wps
    BY <2>2
  <2>3. CASE dr'[t] = NoWps
    BY <2>3, <1>2, ZeroWpFacts
  <2> QED
    BY <2>1, <2>2, <2>3
<1>3. \A t \in Lwps : t \notin proc'.live => dr6'[t] = {} /\ dr'[t] = NoWps
  BY DEF GhostInv
<1>4. /\ \A s \in WpSlots : wps'[s].installed = FALSE => wps'[s] = ZeroWp
      /\ g_dbg'.dbregs_valid = FALSE \/ g_dbg'.attached = FALSE =>
           \A s \in WpSlots : wps'[s].installed = FALSE
  BY DEF GhostInv
<1>5. Alive' => \A t \in Lwps, s \in WpSlots : dr'[t][s].installed = TRUE => wps'[s] = dr'[t][s]
  BY <1>2
<1> QED
  BY <1>1, <1>3, <1>4, <1>5 DEF GhostInv

LEMMA GhostRetabled ==
  ASSUME CoreInv, GhostInv, "lwplist" \notin Faults, Retabled, proc' = proc,
         g_dbg.attached = TRUE, g_dbg'.attached = TRUE
  PROVE  GhostInv'
<1>1. PICK w \in Registers : \/ Grown(w) /\ Resynced(w, TRUE, wps')
                             \/ Shrunk(w) /\ Resynced(w, FALSE, wps')
  BY DEF Retabled
<1>2. PICK p \in BOOLEAN : Resynced(w, p, wps') /\ (p = TRUE => Grown(w)) /\ (p = FALSE => Shrunk(w))
  BY <1>1
<1>3. PICK r \in sync_hardware_dbregs(w, p) :
         /\ g_dbg'.dbregs_valid = r.valid /\ dr' = r.regs.dr /\ dr6' = r.regs.dr6
         /\ (r.ok = TRUE => wps' = w) /\ (r.ok = FALSE => wps' = wps)
  BY <1>2 DEF Resynced
<1>4. /\ r.ok \in BOOLEAN /\ r.valid \in BOOLEAN
      /\ \A t \in Lwps : dr'[t] \in {dr[t], w}
      /\ \A t \in Lwps : t \notin proc.live => dr'[t] = dr[t] /\ dr6'[t] = dr6[t]
      /\ r.ok = TRUE => r.valid = TRUE
      /\ r.valid = FALSE => g_dbg.dbregs_valid = FALSE
      /\ r.ok = FALSE /\ p = TRUE => \A t \in Lwps : dr'[t] = dr[t]
      /\ r.ok = TRUE /\ p = FALSE => \A t \in proc.live : dr'[t] = w
  <2>1. TypeOK /\ Main \in proc.live
    BY GhostTypes
  <2>2. SyncOutcome(r, w, p)
    BY <2>1, SyncFacts
  <2> QED
    BY <1>3, <2>2 DEF SyncOutcome
<1>5. \A s \in WpSlots : w[s].installed = FALSE => w[s] = ZeroWp
  <2> SUFFICES ASSUME NEW s \in WpSlots, w[s].installed = FALSE PROVE w[s] = ZeroWp
    OBVIOUS
  <2>1. w[s] = wps[s] \/ w[s] = ZeroWp
    BY <1>2 DEF Grown, Shrunk
  <2> QED
    BY <2>1 DEF GhostInv
<1>6. \A s \in WpSlots : wps'[s].installed = FALSE => wps'[s] = ZeroWp
  BY <1>3, <1>4, <1>5 DEF GhostInv
<1>7. \A t \in Lwps, s \in WpSlots : dr'[t][s].installed = FALSE => dr'[t][s] = ZeroWp
  <2> SUFFICES ASSUME NEW t \in Lwps, NEW s \in WpSlots, dr'[t][s].installed = FALSE
               PROVE  dr'[t][s] = ZeroWp
    OBVIOUS
  <2>1. CASE dr'[t] = dr[t]
    BY <2>1 DEF GhostInv
  <2>2. CASE dr'[t] = w
    BY <2>2, <1>5
  <2> QED
    BY <2>1, <2>2, <1>4
<1>8. g_dbg'.dbregs_valid = FALSE => \A s \in WpSlots : wps'[s].installed = FALSE
  BY <1>3, <1>4 DEF GhostInv
<1>9. \A t \in Lwps : t \notin proc.live => dr6'[t] = {} /\ dr'[t] = NoWps
  BY <1>4 DEF GhostInv
<1>10. ASSUME Alive, NEW t \in Lwps, NEW s \in WpSlots, dr'[t][s].installed = TRUE
       PROVE  wps'[s] = dr'[t][s]
  <2>1. CASE r.ok = TRUE /\ dr'[t] = w
    BY <2>1, <1>3
  <2>2. CASE r.ok = TRUE /\ dr'[t] = dr[t]
    <3>1. wps[s] = dr[t][s] /\ wps[s].installed = TRUE /\ wps' = w
      BY <2>2, <1>3, <1>10 DEF GhostInv
    <3>2. CASE p = TRUE
      BY <3>1, <3>2, <2>2, <1>2 DEF Grown
    <3>3. CASE p = FALSE
      <4>1. t \in proc.live
        BY <2>2, <1>4, <1>9, <1>10, ZeroWpFacts
      <4> QED
        BY <4>1, <3>1, <3>3, <2>2, <1>4
    <3> QED
      BY <3>2, <3>3
  <2>3. CASE r.ok = FALSE /\ dr'[t] = dr[t]
    BY <2>3, <1>3, <1>10 DEF GhostInv
  <2>4. CASE r.ok = FALSE /\ dr'[t] = w /\ p = FALSE
    BY <2>4, <1>2, <1>3, <1>10, ZeroWpFacts DEF Shrunk
  <2> QED
    BY <2>1, <2>2, <2>3, <2>4, <1>4
<1>11. Alive' => \A t \in Lwps, s \in WpSlots : dr'[t][s].installed = TRUE => wps'[s] = dr'[t][s]
  BY <1>10 DEF Alive
<1> QED
  BY <1>6, <1>7, <1>8, <1>9, <1>11 DEF GhostInv

LEMMA ContinueRegs ==
  ASSUME CoreInv, Continue
  PROVE  /\ (SameSession /\ dr' = dr /\ dr6' = dr6 /\ \A s \in WpSlots : wps[s].installed = FALSE)
              \/ Retabled
         /\ {"lwplist", "dbregs"} \cap Faults = {} =>
              \/ dr' = dr /\ \A s \in WpSlots : wps[s].installed = FALSE
              \/ \A t \in proc.live : dr'[t] = wps
<1>1. TypeOK /\ Main \in proc.live /\ g_dbg \in Session /\ wps \in Registers /\ Ready
  BY GhostTypes DEF Continue
<1>2. CASE MustRearm
  <2>1. PICK r \in sync_hardware_dbregs(wps, TRUE) : Synced(r, bps, wps)
    BY <1>2 DEF Continue, bps, wps
  <2>2. /\ wps' = wps /\ g_dbg'.dbregs_valid = r.valid /\ dr' = r.regs.dr /\ dr6' = r.regs.dr6
    BY <2>1, <1>1, SyncedFacts, TableFacts
  <2>3. SyncOutcome(r, wps, TRUE)
    BY <1>1, SyncFacts
  <2>4. Resynced(wps, TRUE, wps') /\ Grown(wps)
    BY <2>2 DEF Resynced, Grown
  <2> QED
    BY <2>2, <2>3, <2>4, <1>1 DEF SyncOutcome, Retabled
<1>3. CASE ~MustRearm
  <2>1. UNCHANGED <<g_dbg, dr, dr6>>
    BY <1>3 DEF Continue
  <2>2. \A s \in WpSlots : wps[s].installed = FALSE
    BY <1>3, <1>1, WatchFacts DEF MustRearm
  <2> QED
    BY <2>1, <2>2 DEF SameSession, wps
<1> QED
  BY <1>2, <1>3

LEMMA GhostTarget ==
  ASSUME CoreInv, GhostInv, TargetNext
  PROVE  GhostInv'
<1>1. UNCHANGED <<g_dbg, dr>> /\ (Alive' => Alive) /\ proc \in Process /\ wps' = wps
  BY TargetCore DEF CoreInv, TypeOK, wps
<1>2. /\ proc.live \subseteq proc'.live
      /\ \A u \in Lwps : u \notin proc'.live => dr6'[u] = dr6[u]
  <2>1. CASE \E t \in Lwps : Trap(t) \/ SpawnThread(t)
    <3>1. CASE \E t \in Lwps : Trap(t)
      <4>1. proc' = Halted /\ dr6' = dr6
        BY <3>1 DEF Trap
      <4> QED
        BY <4>1, <1>1, ProcMoves
    <3>2. CASE \E t \in Lwps : SpawnThread(t)
      <4>1. PICK t \in Lwps : proc' = [proc EXCEPT !.live = @ \cup {t}] /\ dr6' = dr6
        BY <3>2 DEF SpawnThread, thread
      <4> QED
        BY <4>1, <1>1 DEF Process
    <3> QED
      BY <2>1, <3>1, <3>2
  <2>2. CASE DeliverSigstop \/ ExitTarget
    <3>1. dr6' = dr6 /\ (proc' = [Halted EXCEPT !.sigstop = FALSE]
                         \/ proc' = [proc EXCEPT !.state = "exit", !.stepping = 0,
                              !.event = IF g_dbg.attached THEN "exit" ELSE "none"])
      BY <2>2 DEF DeliverSigstop, ExitTarget, thread
    <3>2. proc'.live = proc.live
      BY <3>1, <1>1 DEF Process, Halted
    <3> QED
      BY <3>1, <3>2
  <2>3. CASE \E t \in Lwps : Execute(t)
    <3>1. PICK t \in Lwps : Execute(t)
      BY <2>3
    <3>2. proc'.live = proc.live
      BY <3>1, <1>1, ExecuteCore, ProcMoves
    <3>3. t \in proc.live /\ \A u \in Lwps : u # t => dr6'[u] = dr6[u]
      BY <3>1 DEF Execute, CoreInv, TypeOK
    <3> QED
      BY <3>2, <3>3
  <2> QED
    BY <2>1, <2>2, <2>3 DEF TargetNext
<1> QED
  BY <1>1, <1>2, GhostKept

LEMMA GhostDetach ==
  ASSUME CoreInv, GhostInv, DetachNow, {"lwplist", "dbregs"} \cap Faults = {}
  PROVE  GhostInv'
<1>1. /\ wps \in Registers /\ proc \in Process /\ TypeOK /\ Main \in proc.live
      /\ g_dbg.dbregs_valid \in BOOLEAN
  BY GhostTypes DEF TypeOK
<1>2. CASE /\ Ready /\ g_dbg' = NoSession /\ proc' = Resumed(0)
           /\ \E r \in DetachRegs : dr' = r.regs.dr /\ dr6' = r.regs.dr6
  <2>1. PICK r \in DetachRegs : dr' = r.regs.dr /\ dr6' = r.regs.dr6
    BY <1>2
  <2>2. /\ \A t \in Lwps : dr'[t] \in {dr[t], NoWps}
        /\ \A t \in Lwps : t \notin proc.live => dr'[t] = dr[t] /\ dr6'[t] = dr6[t]
        /\ g_dbg.dbregs_valid = TRUE => \A t \in proc.live : dr'[t] = NoWps
    BY <2>1, <1>1, <1>2, DetachRegsFacts
  <2>3. wps' = NoWps /\ proc'.live = proc.live /\ Alive
    BY <1>1, <1>2, ProcMoves, NoSessionFacts DEF wps, Ready, Alive
  <2>4. \A t \in Lwps, s \in WpSlots : dr'[t][s] = ZeroWp
    <3> SUFFICES ASSUME NEW t \in Lwps, NEW s \in WpSlots PROVE dr'[t][s] = ZeroWp
      OBVIOUS
    <3>1. CASE dr'[t] = NoWps
      BY <3>1, ZeroWpFacts
    <3>2. CASE t \notin proc.live
      BY <3>2, <2>2, ZeroWpFacts DEF GhostInv
    <3>3. CASE dr'[t] = dr[t] /\ g_dbg.dbregs_valid = FALSE
      <4>1. dr[t] \in Registers /\ dr[t][s].installed \in BOOLEAN
        BY GhostTypes
      <4>2. dr[t][s].installed # TRUE
        BY <3>3, <2>3 DEF GhostInv
      <4> QED
        BY <4>1, <4>2, <3>3 DEF GhostInv
    <3> QED
      BY <3>1, <3>2, <3>3, <2>2, <1>1
  <2>5. \A t \in Lwps : t \notin proc'.live => dr6'[t] = {} /\ dr'[t] = NoWps
    BY <2>2, <2>3 DEF GhostInv
  <2> QED
    BY <2>3, <2>4, <2>5, ZeroWpFacts DEF GhostInv
<1>3. CASE /\ \E keep : Kept(keep)
           /\ \/ \E r \in DetachRegs : dr' = r.regs.dr /\ dr6' = r.regs.dr6
              \/ UNCHANGED <<dr, dr6>>
  <2>1. /\ \A t \in Lwps : dr'[t] \in {dr[t], NoWps}
        /\ \A t \in Lwps : t \notin proc.live => dr'[t] = dr[t] /\ dr6'[t] = dr6[t]
    BY <1>1, <1>3, DetachRegsFacts
  <2>2. SameSession /\ proc' = proc
    BY <1>3 DEF Kept
  <2>3. (Alive' => Alive) /\ proc.live \subseteq proc'.live
    BY <2>2 DEF Alive
  <2> QED
    BY <2>1, <2>2, <2>3, GhostKept DEF SameSession
<1> QED
  BY <1>2, <1>3, DetachNowFacts

LEMMA GhostStatus ==
  ASSUME CoreInv, GhostInv, SameSession, StatusRegs, proc'.live = proc.live, Alive' => Alive
  PROVE  GhostInv'
<1>1. \A u \in Lwps : u \notin proc'.live => dr'[u] = dr[u] /\ dr6'[u] = dr6[u]
  BY DEF GhostInv, StatusRegs
<1> QED
  BY <1>1, GhostKept DEF SameSession, StatusRegs

LEMMA GhostPoll ==
  ASSUME CoreInv, GhostInv, PollEvents \/ DetachPoll
  PROVE  GhostInv'
<1>1. g_dbg.attached = TRUE /\ Poll
  BY PollingCore
<1>2. UNCHANGED thread /\ proc'.live = proc.live
  BY <1>1, PollFacts
<1>3. CASE g_dbg' = NoSession /\ proc'.state = "exit"
  <2>1. wps' = NoWps /\ ~Alive'
    BY <1>3, NoSessionFacts DEF wps, Alive
  <2> QED
    BY <2>1, <1>2, ZeroWpFacts DEF GhostInv, thread
<1>4. CASE SameSession /\ proc.state = "stop"
  BY <1>2, <1>4, GhostKept DEF SameSession, thread, Alive
<1> QED
  BY <1>1, <1>3, <1>4, PollFacts

(* Threads can be listed; memdbg_debugger_clear_all_breakpoints, which      *)
(* empties its tables whatever becomes of the registers, is not used       *)
(* together with hardware breakpoints; where sessions are detached, which  *)
(* ignores a failure to clear the registers, no thread refuses; and        *)
(* clients do not write debug registers of their own.                      *)
GhostHypothesis ==
  /\ "lwplist" \notin Faults
  /\ ~Sent("clear all") \/ ~Sent("set hw")
  /\ ~Sent("detach") \/ "dbregs" \notin Faults
  /\ ~Sent("set dbregs")

GhostedInv == CoreInv /\ GhostInv /\ (Sent("clear all") => OnlySw)

LEMMA GhostCalls ==
  ASSUME GhostHypothesis, CoreInv, GhostInv, OpNext
  PROVE  GhostInv'
<1>1. CASE StepOverStopped \/ StepOverForced \/ StepOverExited
  <2>1. UNCHANGED thread /\ SameSession /\ proc \in Process
    BY <1>1, StepOverStoppedCore, StepOverForcedCore, StepOverExitedCore
       DEF SameSession, wps, CoreInv, TypeOK
  <2>2. proc'.live = proc.live
    <3>1. CASE StepOverStopped \/ StepOverExited
      BY <3>1, <2>1, ProcMoves DEF StepOverStopped, StepOverExited
    <3>2. CASE StepOverForced
      BY <3>2, <2>1 DEF StepOverForced, Halted, Process
    <3> QED
      BY <1>1, <3>1, <3>2
  <2>3. Alive' => Alive
    BY <1>1, StepOverStoppedCore, StepOverForcedCore, StepOverExitedCore DEF Alive
  <2> QED
    BY <2>1, <2>2, <2>3, GhostKept DEF SameSession, thread
<1>2. CASE ContinueThread
  BY <1>2, ContinueThreadCore, GhostStatus
<1>3. CASE ContinueResume
  <2>1. UNCHANGED thread /\ SameSession /\ proc \in Process
    BY <1>3, ContinueResumeCore DEF CoreInv, TypeOK
  <2>2. proc'.live = proc.live /\ (Alive' => Alive)
    <3>1. CASE proc' = Resumed(0) /\ Ready
      BY <3>1, <2>1, ProcMoves DEF Alive, Ready
    <3>2. CASE proc' = proc
      BY <3>2 DEF Alive
    <3> QED
      BY <1>3, <3>1, <3>2, ContinueResumeCore
  <2> QED
    BY <2>1, <2>2, GhostKept DEF SameSession, thread
<1>4. CASE DetachPoll
  BY <1>4, GhostPoll
<1>5. CASE DetachGivesUp
  <2>1. UNCHANGED <<g_dbg, proc, thread>>
    BY <1>5 DEF DetachGivesUp
  <2> QED
    BY <2>1, GhostKept DEF wps, thread, Alive
<1>6. CASE op.cmd = "detach" /\ DetachNow
  <2>1. Sent("detach")
    BY <1>6 DEF CoreInv, TableInv
  <2> QED
    BY <2>1, <1>6, GhostDetach DEF GhostHypothesis
<1>7. CASE StepOverGivesUp
  BY <1>7, StepOverGivesUpCore, GhostKept DEF wps, thread, Alive
<1> QED
  BY <1>1, <1>2, <1>3, <1>4, <1>5, <1>6, <1>7 DEF OpNext

LEMMA GhostCommands ==
  ASSUME GhostHypothesis, GhostedInv, CommandNext
  PROVE  GhostInv'
<1> USE DEF GhostedInv
<1>1. CASE Attach
  <2>1. /\ wps' = NoWps /\ proc'.live = proc.live /\ Alive /\ UNCHANGED thread
        /\ g_dbg.attached = FALSE
    BY <1>1, AttachCore
  <2>2. \A t \in Lwps, s \in WpSlots : dr[t][s] = ZeroWp
    <3> SUFFICES ASSUME NEW t \in Lwps, NEW s \in WpSlots PROVE dr[t][s] = ZeroWp
      OBVIOUS
    <3>1. dr[t][s].installed \in BOOLEAN
      BY GhostTypes
    <3>2. dr[t][s].installed # TRUE
      BY <2>1 DEF GhostInv
    <3> QED
      BY <3>1, <3>2 DEF GhostInv
  <2> QED
    BY <2>1, <2>2, ZeroWpFacts DEF GhostInv, thread
<1>2. CASE Stop \/ (Sent("detach") /\ DetachStop)
  <2>1. UNCHANGED <<g_dbg, thread>> /\ proc'.live = proc.live /\ proc'.state = proc.state
    BY <1>2, StopFacts
  <2> QED
    BY <2>1, GhostKept DEF wps, thread, Alive
<1>3. CASE PollEvents
  BY <1>3, GhostPoll
<1>4. CASE Continue
  <2>1. g_dbg.attached = TRUE /\ g_dbg'.attached = TRUE /\ proc' = proc
    BY <1>4, ContinueCore
  <2>2. CASE Retabled
    BY <2>1, <2>2, GhostRetabled DEF GhostHypothesis
  <2>3. CASE SameSession /\ dr' = dr /\ dr6' = dr6
    BY <2>1, <2>3, GhostKept DEF SameSession, Alive
  <2> QED
    BY <1>4, <2>2, <2>3, ContinueRegs
<1>5. CASE \E t \in Lwps : Step(t)
  BY <1>5, StepCore, GhostStatus
<1>6. CASE Sent("detach") /\ DetachNow
  BY <1>6, GhostDetach DEF GhostHypothesis
<1>7. CASE \E a \in Insns, c \in BOOLEAN : SetSwBreakpoint(a, c)
  <2>1. UNCHANGED <<proc, thread>> /\ SameSession
    BY <1>7, SetSwCore
  <2> QED
    BY <2>1, GhostKept DEF SameSession, thread, Alive
<1>8. CASE (\E a \in Insns : SetHwBreakpoint(a)) \/ (\E a \in WatchAddrs : SetWatchpoint(a))
           \/ (\E S : ClearWatchpoints(S)) \/ (Sent("clear all") /\ ClearAllBreakpoints)
  <2>1. Retabled /\ proc' = proc /\ g_dbg.attached = TRUE /\ g_dbg'.attached = TRUE
    BY <1>8, SetHwCore, SetWatchpointCore, ClearWatchpointsCore, ClearAllCore
  <2> QED
    BY <2>1, GhostRetabled DEF GhostHypothesis
<1>9. CASE \E a \in Insns : ClearBreakpoint(a)
  <2>1. /\ proc' = proc /\ g_dbg.attached = TRUE /\ g_dbg'.attached = TRUE
        /\ (SameSession /\ dr' = dr /\ dr6' = dr6) \/ Retabled
    BY <1>9, ClearBreakpointCore
  <2>2. CASE Retabled
    BY <2>1, <2>2, GhostRetabled DEF GhostHypothesis
  <2>3. CASE SameSession /\ dr' = dr /\ dr6' = dr6
    BY <2>1, <2>3, GhostKept DEF SameSession, Alive
  <2> QED
    BY <2>1, <2>2, <2>3
<1>10. CASE \E t \in Lwps, a \in Insns : SetRip(t, a)
  <2>1. UNCHANGED <<g_dbg, proc, dr, dr6>>
    BY <1>10 DEF SetRip
  <2> QED
    BY <2>1, GhostKept DEF wps, Alive
<1>11. \/ Attach \/ Stop \/ PollEvents \/ Continue
       \/ Sent("detach") /\ DetachNow
       \/ Sent("detach") /\ DetachStop
       \/ Sent("clear all") /\ ClearAllBreakpoints
       \/ \E t \in Lwps : Step(t) \/ \E a \in Insns : SetRip(t, a)
       \/ \E a \in Insns : \/ SetSwBreakpoint(a, TRUE) \/ SetSwBreakpoint(a, FALSE)
                           \/ SetHwBreakpoint(a) \/ ClearBreakpoint(a)
       \/ \E a \in WatchAddrs : SetWatchpoint(a)
       \/ \E S : ClearWatchpoints(S)
  BY Zenon DEF CommandNext, GhostHypothesis
<1> QED
  BY <1>1, <1>2, <1>3, <1>4, <1>5, <1>6, <1>7, <1>8, <1>9, <1>10, <1>11

LEMMA GhostNext ==
  ASSUME GhostHypothesis, GhostedInv, [Next]_vars
  PROVE  GhostedInv'
<1>1. CoreInv'
  BY CoreNext DEF GhostedInv
<1>2. Sent("clear all") => OnlySw'
  BY OnlySwNext DEF GhostedInv, GhostHypothesis
<1>3. GhostInv'
  <2>1. CASE UNCHANGED vars
    BY <2>1, GhostKept DEF GhostedInv, vars, wps, Alive
  <2>2. CASE TargetNext
    BY <2>2, GhostTarget DEF GhostedInv
  <2>3. CASE OpNext
    BY <2>3, GhostCalls DEF GhostedInv
  <2>4. CASE CommandNext
    BY <2>4, GhostCommands
  <2> QED
    BY <2>1, <2>2, <2>3, <2>4 DEF Next
<1> QED
  BY <1>1, <1>2, <1>3 DEF GhostedInv, Sent

LEMMA GhostInit ==
  ASSUME Init
  PROVE  GhostInv
<1>1. wps = NoWps /\ \A t \in Lwps : dr[t] = NoWps /\ dr6[t] = {}
  BY NoSessionFacts DEF Init, wps
<1> QED
  BY <1>1, ZeroWpFacts DEF GhostInv

LEMMA GhostedInvariant == GhostHypothesis => (Spec => []GhostedInv)
<1> SUFFICES ASSUME GhostHypothesis PROVE Spec => []GhostedInv
  OBVIOUS
<1>1. Init => GhostedInv
  BY CoreInit, SwInit, GhostInit DEF GhostedInv
<1>2. GhostedInv /\ [Next]_vars => GhostedInv'
  BY GhostNext
<1> QED
  BY <1>1, <1>2, PTL DEF Spec

(* An armed debug register is always one of the watchpoint table, in every *)
(* thread and also once the session is over (NoGhost), whichever threads   *)
(* refuse PT_SETDBREGS, with or without a rollback that succeeds.          *)
THEOREM NoRegisterOutlives == GhostHypothesis => (Spec => []NoGhost)
<1> SUFFICES ASSUME GhostHypothesis PROVE Spec => []NoGhost
  OBVIOUS
<1>1. GhostedInv => NoGhost
  <2> SUFFICES ASSUME GhostedInv, Alive, NEW t \in proc.live, NEW s \in WpSlots,
                      dr[t][s].installed
               PROVE  wps[s] = dr[t][s]
    BY DEF NoGhost, wps
  <2>1. t \in Lwps /\ dr[t][s].installed \in BOOLEAN
    BY GhostTypes DEF GhostedInv
  <2> QED
    BY <2>1 DEF GhostedInv, GhostInv
<1> QED
  BY <1>1, GhostedInvariant, PTL

(* memdbg_debugger_continue sets out with exactly the table's watchpoints  *)
(* in every thread, also in those born since they were set and in those    *)
(* whose registers a client has written (ArmedOnResume), unless threads    *)
(* cannot be listed or one refuses its registers: continue ignores that.   *)
THEOREM EveryThreadArmed ==
  {"lwplist", "dbregs"} \cap Faults = {} => (Spec => ArmedOnResume)
<1> SUFFICES ASSUME {"lwplist", "dbregs"} \cap Faults = {} PROVE Spec => ArmedOnResume
  OBVIOUS
<1>1. ASSUME CoreInv, Continue, FreeWp # WpSlots
      PROVE  \A t \in proc.live : dr'[t] = wps
  <2>1. g_dbg \in Session
    BY <1>1 DEF CoreInv, TypeOK
  <2>2. ~\A s \in WpSlots : wps[s].installed = FALSE
    BY <1>1, <2>1, WatchFacts
  <2> QED
    BY <2>2, <1>1, ContinueRegs
<1>2. CoreInv => [Continue /\ FreeWp # WpSlots
                    => \A t \in proc.live : dr'[t] = g_dbg.watchpoints]_vars
  BY <1>1 DEF wps
<1> QED
  BY <1>2, SessionBookkeeping, PTL DEF ArmedOnResume
=============================================================================
