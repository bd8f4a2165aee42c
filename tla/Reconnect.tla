------------------------------ MODULE Reconnect ------------------------------
(***************************************************************************)
(* The frontend's connection to the console: connect, heartbeat, automatic *)
(* reconnection after rest mode and the restoration of the session         *)
(* (frontend/src/app/shell/connection.cpp and session.cpp, with the        *)
(* control client of core/client/client_pool.cpp).                         *)
(*                                                                         *)
(* Grain.  The user interface is one thread that runs every poll once per  *)
(* frame; a poll that changes something is one action, and so is what the  *)
(* user does in a frame.  The tasks that std::async started (connect,      *)
(* ping, process list, memory maps) end at any moment.  The polls are      *)
(* taken in any order, that of draw_app among them: nothing stated below   *)
(* depends on the order.                                                   *)
(*                                                                         *)
(* Data.  What is read from the console is tagged with the life of the     *)
(* console it was read in: a process is its name and a life, because PIDs  *)
(* change when the console wakes.  An epoch is only ever compared with the *)
(* current one, so a task keeps whether the epoch it captured is still     *)
(* current, and likewise for the connect generation.  A timer is a flag    *)
(* that says whether it has expired.  The saved identity of the target is  *)
(* forgotten as soon as nothing reads it before begin_reconnect replaces   *)
(* it.                                                                     *)
(*                                                                         *)
(* AppState::client is a reference that is bound once, to the first        *)
(* control client.  An automatic reconnection replaces that client and     *)
(* frees it; from then on (freed) a read through the reference may return  *)
(* anything.                                                               *)
(***************************************************************************)
EXTENDS Naturals, FiniteSets

CONSTANTS Names,     \* the processes of the console, by logical identity
          NoName,    \* no process
          ProcessLists, \* the process lists of each of the console's lives
          MaxOutages \* bound on how often the console stops answering

ASSUME ReconnectAssumption ==
  /\ NoName \notin Names
  /\ MaxOutages \in Nat
  /\ ProcessLists \in [1..MaxOutages + 1 -> SUBSET SUBSET Names]

VARIABLES console,  \* whether it answers, its life and its daemon instance
          ctl,      \* pool.control(): its socket and the life it was opened in
          freed,    \* the client that AppState::client refers to was destroyed
          rc,       \* ReconnectState, has_hello and saved_daemon_instance_id
          conn,     \* the connect attempt: s_connect_future, s_connect_generation
          heart,    \* the heartbeat
          restore,  \* RestoreState
          mref,     \* the memory maps refresh
          view,     \* what the user sees: processes, selected process, maps
          alive     \* FALSE once a null client has been used

vars == <<console, ctl, freed, rc, conn, heart, restore, mref, view, alive>>

MaxLife == MaxOutages + 1
Lives == 1..MaxLife
Phases == {"Disconnected", "Connecting", "Online", "ConnectionLost",
           "WaitingForWake", "Reconnecting", "Restoring"}
Futures == {"none", "run", "ok", "fail"}

Nobody == [life |-> 0, name |-> NoName]
Processes == [life : Lives, name : Names]

NoSocket == [open |-> FALSE, life |-> 0]
NoConnect == [pending |-> FALSE, cancel |-> FALSE, moved |-> FALSE, fut |-> "none",
              life |-> 0, inst |-> 0]
NoPing == [pending |-> FALSE, failures |-> 0, fut |-> "none", life |-> 0]
NoMaps == [pending |-> FALSE, fut |-> "none", current |-> FALSE, pid |-> Nobody,
           life |-> 0, got |-> Nobody, error |-> FALSE]
NoRestore == [stage |-> "Idle", fut |-> "none", current |-> FALSE, list |-> {},
              life |-> 0, matched |-> Nobody]
EmptyView == [procs |-> {}, sel |-> Nobody, maps |-> Nobody]

Consoles == [up : BOOLEAN, life : Lives, inst : Lives, outages : 0..MaxOutages]
Sockets == [open : BOOLEAN, life : 0..MaxLife]
ReconnectStates ==
  [phase : Phases, stale : BOOLEAN, manual : BOOLEAN, hello : BOOLEAN, due : BOOLEAN,
   target : Names \cup {NoName}, saved : 0..MaxLife]
ConnectAttempts ==
  [pending : BOOLEAN, cancel : BOOLEAN, moved : BOOLEAN, fut : Futures,
   life : 0..MaxLife, inst : 0..MaxLife]
Heartbeats == [pending : BOOLEAN, failures : 0..2, fut : Futures, life : 0..MaxLife]
RestoreStates ==
  [stage : {"Idle", "RefreshingProcesses", "RefreshingMaps", "Failed"}, fut : Futures,
   current : BOOLEAN, list : SUBSET Names, life : 0..MaxLife,
   matched : Processes \cup {Nobody}]
MapRefreshes ==
  [pending : BOOLEAN, fut : Futures, current : BOOLEAN, pid : Processes \cup {Nobody},
   life : 0..MaxLife, got : Processes \cup {Nobody}, error : BOOLEAN]
Views == [procs : SUBSET Processes, sel : Processes \cup {Nobody},
          maps : Processes \cup {Nobody}]

TypeOK ==
  /\ console \in Consoles /\ ctl \in Sockets
  /\ freed \in BOOLEAN /\ alive \in BOOLEAN
  /\ rc \in ReconnectStates
  /\ conn \in ConnectAttempts /\ (conn.pending <=> conn.fut # "none")
  /\ heart \in Heartbeats /\ restore \in RestoreStates
  /\ mref \in MapRefreshes /\ view \in Views

Init ==
  /\ console = [up |-> TRUE, life |-> 1, inst |-> 1, outages |-> 0]
  /\ ctl = NoSocket
  /\ freed = FALSE /\ alive = TRUE
  /\ rc = [phase |-> "Disconnected", stale |-> FALSE, manual |-> FALSE,
           hello |-> FALSE, due |-> TRUE, target |-> NoName, saved |-> 0]
  /\ conn = NoConnect
  /\ heart = NoPing
  /\ restore = NoRestore
  /\ mref = NoMaps
  /\ view = EmptyView

-----------------------------------------------------------------------------
(* The console *)

(* A socket opened in the console's present life, while it answers. *)
Works(life) == console.up /\ life = console.life

(* The console enters rest mode, or its network goes down. *)
Sleep ==
  /\ alive /\ console.up /\ console.outages < MaxOutages
  /\ console' = [console EXCEPT !.up = FALSE, !.outages = @ + 1]
  /\ UNCHANGED <<ctl, freed, rc, conn, heart, restore, mref, view, alive>>

(* It comes back: with its sockets, without them, or with the payload      *)
(* started anew.                                                           *)
Wake ==
  /\ alive /\ ~console.up
  /\ \/ console' = [console EXCEPT !.up = TRUE]
     \/ \E inst \in {console.inst, console.life + 1} :
          console' = [console EXCEPT !.up = TRUE, !.life = @ + 1, !.inst = inst]
  /\ UNCHANGED <<ctl, freed, rc, conn, heart, restore, mref, view, alive>>

(* The backoff timer. *)
Elapse ==
  /\ alive /\ ~rc.due
  /\ rc' = [rc EXCEPT !.due = TRUE]
  /\ UNCHANGED <<console, ctl, freed, conn, heart, restore, mref, view, alive>>

-----------------------------------------------------------------------------
(* Helpers *)

(* What state.client.connected() may return. *)
ConnectedReads == IF freed THEN BOOLEAN ELSE {ctl.open}

(* quiesce_transport: cancels the I/O, collects the futures that are ready,*)
(* bumps the epoch and clears the pending flags of the others: such a task *)
(* still runs, on a closed socket, and what it reads is no longer looked   *)
(* at (an error message of the maps refresh excepted).  Quiesced is what   *)
(* it does to the reconnect state.                                         *)
StillRunning(fut) == IF fut = "run" THEN "run" ELSE "none"
(* Slip: the heartbeat is not among the tasks that are given up. *)
QuiesceTransportSlip ==
  /\ mref' = [NoMaps EXCEPT !.fut = StillRunning(mref.fut), !.error = mref.error]
  /\ restore' = [restore EXCEPT !.current = FALSE, !.life = 0]
  /\ ctl' = NoSocket
  /\ UNCHANGED heart
QuiesceTransport ==
  /\ heart' = [NoPing EXCEPT !.fut = StillRunning(heart.fut)]
  /\ mref' = [NoMaps EXCEPT !.fut = StillRunning(mref.fut), !.error = mref.error]
  /\ restore' = [restore EXCEPT !.current = FALSE, !.life = 0]
  /\ ctl' = NoSocket
Quiesced == [rc EXCEPT !.hello = FALSE, !.stale = TRUE, !.phase = "ConnectionLost"]

Launched == [NoConnect EXCEPT !.pending = TRUE, !.fut = "run"]

(* connect_console(AutomaticReconnect) *)
ConnectAgain ==
  /\ QuiesceTransport
  /\ rc' = [Quiesced EXCEPT !.phase = "Reconnecting"]
  /\ conn' = Launched
  /\ UNCHANGED view

(* connect_console(ManualFreshConnection) *)
ConnectFresh ==
  IF conn.pending
  THEN UNCHANGED <<ctl, rc, conn, heart, restore, mref, view>>
  ELSE /\ QuiesceTransport
       /\ rc' = [Quiesced EXCEPT !.manual = FALSE, !.stale = FALSE, !.phase = "Connecting",
                                 !.target = NoName]
       /\ view' = EmptyView
       /\ conn' = Launched

(* The identity that is remembered of the selected PID: that of the        *)
(* selected process while it is listed; where the list is of another life, *)
(* the process that has the PID now, the one described by the process      *)
(* information, or none.                                                   *)
TargetIdentities ==
  IF view.sel \in view.procs THEN {view.sel.name}
  ELSE IF view.sel = Nobody THEN {NoName}
  ELSE {NoName, view.sel.name} \cup {p.name : p \in view.procs}

(* begin_reconnect: remembers the selected process, closes the sockets,    *)
(* bumps the epoch and forgets a restoration in progress.  h is the        *)
(* heartbeat as its caller leaves it.                                      *)
BeginReconnect(h) ==
  /\ heart' = h
  /\ IF rc.manual
     THEN UNCHANGED <<ctl, rc, restore, mref>>
     ELSE /\ ctl' = NoSocket
          /\ \E target \in TargetIdentities :
               rc' = [rc EXCEPT !.phase = "WaitingForWake", !.stale = TRUE, !.due = FALSE,
                                !.target = target]
          /\ restore' = NoRestore
          /\ mref' = [mref EXCEPT !.current = FALSE]

(* memory_lease: the task works on a socket of the present connection, the *)
(* memory role's or the control's.  With the control closed there may be   *)
(* neither, and there is none once the roles have been invalidated; the    *)
(* lease is then null and the task that uses it crashes.                   *)
LeaseMayWork == ctl.open \/ rc.phase \in {"Online", "Restoring"}
LeaseMayBeNull == ~ctl.open

(* request_maps_refresh_async for the process sel, connected being what    *)
(* state.client.connected() answers.                                       *)
RequestMaps(sel, connected) ==
  IF mref.pending \/ conn.pending \/ ~connected \/ sel = Nobody \/ mref.fut = "run"
  THEN UNCHANGED <<mref, alive>>
  ELSE \/ /\ LeaseMayWork
          /\ mref' = [pending |-> TRUE, fut |-> "run", current |-> TRUE, pid |-> sel,
                      life |-> ctl.life, got |-> Nobody, error |-> FALSE]
          /\ UNCHANGED alive
       \/ LeaseMayBeNull /\ alive' = FALSE /\ UNCHANGED mref

-----------------------------------------------------------------------------
(* The tasks.  I/O on a lost or cancelled socket fails, unless the answer  *)
(* had been read before; a failure may close the control socket (the lease *)
(* may be the control) or leave it open (an error status).                 *)

ConnectTask ==
  /\ alive /\ conn.fut = "run"
  /\ \/ /\ console.up
        /\ conn' = [conn EXCEPT !.fut = "ok", !.life = console.life, !.inst = console.inst]
     \/ /\ ~console.up \/ conn.cancel
        /\ conn' = [conn EXCEPT !.fut = "fail"]
  /\ UNCHANGED <<console, ctl, freed, rc, heart, restore, mref, view, alive>>

CloseOnFailure(life) ==
  ctl' \in IF life = ctl.life THEN {ctl, [ctl EXCEPT !.open = FALSE]} ELSE {ctl}

(* state.client.ping() over the control socket: a socket that does not     *)
(* work is closed, an error status leaves it open.  Through the freed      *)
(* client the ping may end in any way.                                     *)
PingTask ==
  /\ alive /\ heart.fut = "run"
  /\ \/ /\ Works(heart.life) \/ freed
        /\ \E fut \in {"ok", "fail"} : heart' = [heart EXCEPT !.fut = fut]
        /\ UNCHANGED ctl
     \/ /\ ~Works(heart.life) \/ ~ctl.open
        /\ heart' = [heart EXCEPT !.fut = "fail"]
        /\ ctl' = IF heart.life = ctl.life /\ ~freed THEN [ctl EXCEPT !.open = FALSE] ELSE ctl
  /\ UNCHANGED <<console, freed, rc, conn, restore, mref, view, alive>>

ProcessListTask ==
  /\ alive /\ restore.fut = "run"
  /\ \/ /\ restore.life \in Lives
        /\ \E list \in ProcessLists[restore.life] :
             restore' = [restore EXCEPT !.fut = "ok", !.list = list]
        /\ UNCHANGED ctl
     \/ /\ restore' = [restore EXCEPT !.fut = "fail"]
        /\ CloseOnFailure(restore.life)
  /\ UNCHANGED <<console, freed, rc, conn, heart, mref, view, alive>>

(* The processes that may have the PID for which the maps are asked: in    *)
(* the life it was listed in the process itself, in another one any.  (The *)
(* task of a connection that was given up has no life: see                 *)
(* QuiesceTransport.)                                                      *)
Answering ==
  IF mref.life \in {0, mref.pid.life} THEN {mref.pid}
  ELSE [life : {mref.life}, name : Names]

MapsTask ==
  /\ alive /\ mref.fut = "run"
  /\ \/ /\ \E got \in Answering :
             mref' = [mref EXCEPT !.fut = "ok", !.error = FALSE, !.got = got]
        /\ UNCHANGED ctl
     \/ /\ mref' = [mref EXCEPT !.fut = "fail", !.error = TRUE]
        /\ CloseOnFailure(mref.life)
  /\ UNCHANGED <<console, freed, rc, conn, heart, restore, view, alive>>

-----------------------------------------------------------------------------
(* The polls of a frame *)

ConnectReady == conn.pending /\ conn.fut \in {"ok", "fail"}
Cancelled == conn.cancel \/ conn.moved

(* poll_connect *)
ConnectCancelled ==
  /\ alive /\ ConnectReady /\ Cancelled
  /\ conn' = NoConnect
  /\ UNCHANGED <<console, ctl, freed, rc, heart, restore, mref, view, alive>>

(* A failed attempt; an automatic one is scheduled again                   *)
(* (schedule_reconnect_retry).                                             *)
ConnectFailed ==
  /\ alive /\ ConnectReady /\ ~Cancelled /\ conn.fut = "fail"
  /\ conn' = NoConnect
  /\ IF rc.phase \in {"Reconnecting", "WaitingForWake"} /\ ~rc.manual
     THEN /\ rc' = [rc EXCEPT !.phase = "WaitingForWake", !.due = FALSE]
          /\ heart' = [heart EXCEPT !.failures = 0]
     ELSE UNCHANGED <<rc, heart>>
  /\ UNCHANGED <<console, ctl, freed, restore, mref, view, alive>>

ConnectSucceeded == ConnectReady /\ ~Cancelled /\ conn.fut = "ok"

(* An automatic reconnection: replace_control, then the session is         *)
(* restored.  A new daemon instance invalidates what the user sees.        *)
Reconnected ==
  /\ alive /\ ConnectSucceeded /\ rc.phase = "Reconnecting"
  /\ conn' = NoConnect
  /\ ctl' = [open |-> TRUE, life |-> conn.life]
  /\ freed' = TRUE
  /\ heart' = [heart EXCEPT !.failures = 0]
  /\ view' = IF rc.saved \notin {0, conn.inst} THEN EmptyView ELSE view
  /\ rc' = [rc EXCEPT !.phase = "Restoring", !.stale = TRUE, !.hello = TRUE,
                      !.saved = conn.inst]
  /\ restore' = NoRestore
  /\ mref' = [mref EXCEPT !.current = FALSE]
  /\ UNCHANGED <<console, alive>>

ConnectedFresh ==
  /\ alive /\ ConnectSucceeded /\ rc.phase # "Reconnecting"
  /\ conn' = NoConnect
  /\ ctl' = [open |-> TRUE, life |-> conn.life]
  /\ heart' = [heart EXCEPT !.failures = 0]
  /\ rc' = [rc EXCEPT !.phase = "Online", !.hello = TRUE, !.saved = conn.inst]
  /\ UNCHANGED <<console, freed, restore, mref, view, alive>>

(* poll_session_health *)

(* Slip: the threshold of two failed heartbeats holds for a closed socket too. *)
TransportLostSlip(connected) ==
  /\ rc.hello /\ ~connected /\ ~conn.pending /\ rc.phase = "Online"
  /\ heart.failures >= 2
TransportLost(connected) ==
  rc.hello /\ ~connected /\ ~conn.pending /\ rc.phase = "Online"

HealthLost ==
  /\ alive
  /\ \E connected \in ConnectedReads : TransportLost(connected)
  /\ BeginReconnect(heart)
  /\ UNCHANGED <<console, freed, conn, view, alive>>

HealthPing ==
  /\ alive
  /\ \E connected \in ConnectedReads : ~TransportLost(connected)
  /\ heart.pending /\ heart.fut \in {"ok", "fail"}
  /\ LET failures == IF heart.fut = "fail" THEN heart.failures + 1 ELSE 0
     IN IF failures >= 2
        THEN BeginReconnect([NoPing EXCEPT !.failures = 2])
        ELSE /\ heart' = [NoPing EXCEPT !.failures = failures]
             /\ UNCHANGED <<ctl, rc, restore, mref>>
  /\ UNCHANGED <<console, freed, conn, view, alive>>

(* Slip: pings are not suspended during a connect attempt. *)
PingReadySlip(connected, busy) == connected /\ ~mref.pending /\ ~busy
PingReady(connected, busy) ==
  connected /\ ~conn.pending /\ ~mref.pending /\ ~busy

(* busy says whether telemetry, a scan, a task of the task manager or one  *)
(* of the plugins is pending when the poll looks.  These tasks are not     *)
(* modelled, so it may be either, in every frame and for ever; nor is the  *)
(* heartbeat timer.  A ping left over from an earlier connection is waited *)
(* for first.                                                              *)
HealthSend ==
  /\ alive
  /\ \E connected \in ConnectedReads : ~TransportLost(connected)
  /\ ~heart.pending /\ heart.fut # "run"
  /\ \E connected \in ConnectedReads, busy \in BOOLEAN : PingReady(connected, busy)
  /\ heart' = [heart EXCEPT !.pending = TRUE, !.fut = "run", !.life = ctl.life]
  /\ UNCHANGED <<console, ctl, freed, rc, conn, restore, mref, view, alive>>

(* poll_reconnect *)

(* Slip: only a session that still has its HELLO is reconnected. *)
RetryDueSlip(connected) ==
  /\ ~rc.manual /\ ~conn.pending /\ ~connected /\ rc.due /\ rc.hello
  /\ rc.phase \in {"WaitingForWake", "Reconnecting"}
RetryDue(connected) ==
  /\ ~rc.manual /\ ~conn.pending /\ ~connected /\ rc.due
  /\ rc.phase \in {"WaitingForWake", "Reconnecting"}

PollReconnect ==
  /\ alive
  /\ \E connected \in ConnectedReads : RetryDue(connected)
  /\ ConnectAgain
  /\ UNCHANGED <<console, freed, alive>>

(* poll_restore_session, while phase is Restoring *)
Restores == rc.phase = "Restoring" /\ rc.hello /\ TRUE \in ConnectedReads

RestoreStart ==
  /\ alive /\ Restores /\ restore.stage = "Idle"
  /\ \/ /\ restore' = [NoRestore EXCEPT !.stage = "RefreshingProcesses", !.fut = "run",
                                        !.current = TRUE, !.life = ctl.life]
        /\ UNCHANGED alive
     \/ LeaseMayBeNull /\ alive' = FALSE /\ UNCHANGED restore
  /\ UNCHANGED <<console, ctl, freed, rc, conn, heart, mref, view>>

Listed == {[life |-> restore.life, name |-> n] : n \in restore.list}

(* The matches that the target's content id, title id, path and name may   *)
(* find: the process itself, or another one whose new PID is that of a     *)
(* process of an earlier life in the cache of process information.         *)
Matches == {p \in Listed : p.name = rc.target \/ restore.life > 1}

(* The process list has arrived (of this epoch: begin_reconnect and        *)
(* poll_connect reset the restoration, so the test of the epoch rejects    *)
(* none).  The target is matched in the same poll and the refresh of its   *)
(* maps requested.                                                         *)
RestoreList ==
  /\ alive /\ Restores
  /\ restore.stage = "RefreshingProcesses" /\ restore.fut # "run"
  /\ \/ /\ restore.fut = "fail" \/ ~restore.current
        /\ restore' = [NoRestore EXCEPT !.stage = IF restore.current THEN "Failed" ELSE "Idle"]
        /\ UNCHANGED <<rc, mref, view, alive>>
     \/ /\ restore.fut = "ok" /\ restore.current
        /\ rc.target = NoName \/ Listed = {}
        /\ view' = [view EXCEPT !.procs = Listed]
        /\ rc' = [rc EXCEPT !.phase = "Online", !.stale = TRUE, !.target = NoName]
        /\ restore' = NoRestore
        /\ UNCHANGED <<mref, alive>>
     \/ /\ restore.fut = "ok" /\ restore.current
        /\ rc.target # NoName /\ Listed # {}
        /\ \A p \in Listed : p.name # rc.target
        /\ view' = [view EXCEPT !.procs = Listed, !.sel = Nobody]
        /\ restore' = [NoRestore EXCEPT !.stage = "Failed"]
        /\ UNCHANGED <<rc, mref, alive>>
     \/ /\ restore.fut = "ok" /\ restore.current /\ rc.target # NoName
        /\ \E p \in Matches :
             /\ view' = [view EXCEPT !.procs = Listed, !.sel = p]
             /\ restore' = [NoRestore EXCEPT !.stage = "RefreshingMaps", !.matched = p]
             /\ \E connected \in ConnectedReads : RequestMaps(p, connected)
        /\ UNCHANGED rc
  /\ UNCHANGED <<console, ctl, freed, conn, heart>>

(* The maps refresh is no longer pending. *)
Restorable == ~mref.error /\ view.sel = restore.matched /\ view.maps # Nobody

RestoreMaps ==
  /\ alive /\ Restores
  /\ restore.stage = "RefreshingMaps" /\ ~mref.pending
  /\ IF Restorable
     THEN /\ restore' = NoRestore
          /\ rc' = [rc EXCEPT !.phase = "Online", !.stale = FALSE, !.target = NoName]
     ELSE /\ restore' = [NoRestore EXCEPT !.stage = "Failed"]
          /\ UNCHANGED rc
  /\ UNCHANGED <<console, ctl, freed, conn, heart, mref, view, alive>>

(* Slip: the transport is fine, so the session no longer counts as stale. *)
RestoreFailedSlip ==
  /\ alive /\ Restores /\ restore.stage = "Failed"
  /\ restore' = NoRestore
  /\ rc' = [rc EXCEPT !.phase = "Online", !.stale = FALSE, !.target = NoName]
  /\ UNCHANGED <<console, ctl, freed, conn, heart, mref, view, alive>>

RestoreFailed ==
  /\ alive /\ Restores /\ restore.stage = "Failed"
  /\ restore' = NoRestore
  /\ rc' = [rc EXCEPT !.phase = "Online", !.stale = TRUE, !.target = NoName]
  /\ UNCHANGED <<console, ctl, freed, conn, heart, mref, view, alive>>

(* poll_map_refresh *)
MapsReady == mref.pending /\ mref.fut \in {"ok", "fail"}

(* Slip: the epoch of the result is not looked at. *)
PollMapRefreshSlip ==
  /\ alive /\ MapsReady
  /\ mref' = [NoMaps EXCEPT !.error = mref.error]
  /\ view' = IF mref.pid = view.sel /\ mref.fut = "ok"
             THEN [view EXCEPT !.maps = mref.got] ELSE view
  /\ UNCHANGED <<console, ctl, freed, rc, conn, heart, restore, alive>>

PollMapRefresh ==
  /\ alive /\ MapsReady
  /\ mref' = [NoMaps EXCEPT !.error = mref.error]
  /\ view' = IF mref.current /\ mref.pid = view.sel /\ mref.fut = "ok"
             THEN [view EXCEPT !.maps = mref.got] ELSE view
  /\ UNCHANGED <<console, ctl, freed, rc, conn, heart, restore, alive>>

-----------------------------------------------------------------------------
(* What the user may do in a frame *)

UserConnect ==
  /\ alive
  /\ FALSE \in ConnectedReads
  /\ ConnectFresh
  /\ UNCHANGED <<console, freed, alive>>

ConnectSequencePending ==
  conn.pending \/ rc.phase \in {"Reconnecting", "WaitingForWake"}

(* cancel_connect *)

(* Slip: the attempt counts as over before its task has ended. *)
UserCancelEarly ==
  /\ alive /\ ConnectSequencePending
  /\ conn' = IF conn.pending THEN [conn EXCEPT !.pending = FALSE, !.moved = TRUE] ELSE conn
  /\ rc' = [rc EXCEPT !.manual = TRUE, !.phase = "Disconnected", !.target = NoName]
  /\ UNCHANGED <<console, ctl, freed, heart, restore, mref, view, alive>>

(* Slip: the retries are stopped, the attempt under way is not marked. *)
UserCancelSlip ==
  /\ alive /\ ConnectSequencePending
  /\ rc' = [rc EXCEPT !.manual = TRUE, !.phase = "Disconnected", !.target = NoName]
  /\ UNCHANGED <<console, ctl, freed, conn, heart, restore, mref, view, alive>>

UserCancel ==
  /\ alive /\ ConnectSequencePending
  /\ conn' = IF conn.pending THEN [conn EXCEPT !.cancel = TRUE, !.moved = TRUE] ELSE conn
  /\ rc' = [rc EXCEPT !.manual = TRUE, !.phase = "Disconnected", !.target = NoName]
  /\ UNCHANGED <<console, ctl, freed, heart, restore, mref, view, alive>>

(* disconnect_console, offered while connected and not busy. *)
UserDisconnect ==
  /\ alive
  /\ TRUE \in ConnectedReads /\ ~conn.pending /\ ~mref.pending
  /\ QuiesceTransport
  /\ rc' = [Quiesced EXCEPT !.manual = TRUE, !.target = NoName]
  /\ view' = EmptyView
  /\ UNCHANGED <<console, freed, conn, alive>>

(* topbar_select_process *)
UserSelect ==
  /\ alive
  /\ \E p \in view.procs : view' = [view EXCEPT !.sel = p, !.maps = Nobody]
  /\ UNCHANGED <<console, ctl, freed, rc, conn, heart, restore, mref, alive>>

(* topbar_refresh_processes, a request over the control client.  The       *)
(* selection survives when its PID is in the new list, in a later life     *)
(* possibly as the PID of another process.                                 *)
UserRefreshProcesses ==
  /\ alive /\ TRUE \in ConnectedReads
  /\ \/ /\ ~freed /\ Works(ctl.life)
        /\ \E names \in ProcessLists[ctl.life] :
             LET procs == [life : {ctl.life}, name : names]
             IN view' \in IF view.sel \in procs THEN {[view EXCEPT !.procs = procs]}
                          ELSE {[EmptyView EXCEPT !.procs = procs]}
                               \cup IF view.sel.life \notin {0, ctl.life} /\ procs # {}
                                    THEN {[view EXCEPT !.procs = procs]} ELSE {}
        /\ UNCHANGED ctl
     \/ /\ freed \/ ~Works(ctl.life)
        /\ IF freed THEN UNCHANGED ctl ELSE CloseOnFailure(ctl.life)
        /\ UNCHANGED view
  /\ UNCHANGED <<console, freed, rc, conn, heart, restore, mref, alive>>

UserRefreshMaps ==
  /\ alive
  /\ \E connected \in ConnectedReads : RequestMaps(view.sel, connected)
  /\ UNCHANGED <<console, ctl, freed, rc, conn, heart, restore, view>>

-----------------------------------------------------------------------------
PollConnect == ConnectCancelled \/ ConnectFailed \/ Reconnected \/ ConnectedFresh
PollSessionHealth == HealthLost \/ HealthPing \/ HealthSend
PollRestoreSession == RestoreStart \/ RestoreList \/ RestoreMaps \/ RestoreFailed

User ==
  \/ UserConnect \/ UserCancel \/ UserDisconnect \/ UserSelect
  \/ UserRefreshProcesses \/ UserRefreshMaps

Next ==
  \/ Sleep \/ Wake \/ Elapse
  \/ ConnectTask \/ PingTask \/ ProcessListTask \/ MapsTask
  \/ PollConnect \/ PollSessionHealth \/ PollReconnect
  \/ PollRestoreSession \/ PollMapRefresh
  \/ User

Spec == Init /\ [][Next]_vars

(* Every frame runs every poll, a task ends (its sockets have timeouts)    *)
(* and a timer expires.  Nothing is assumed of the sending of pings, which *)
(* other tasks may suspend for as long as they like.                       *)
Fairness ==
  /\ WF_vars(PollConnect) /\ WF_vars(HealthLost) /\ WF_vars(HealthPing)
  /\ WF_vars(PollReconnect) /\ WF_vars(PollRestoreSession) /\ WF_vars(PollMapRefresh)
  /\ WF_vars(ConnectTask) /\ WF_vars(PingTask)
  /\ WF_vars(ProcessListTask) /\ WF_vars(MapsTask) /\ WF_vars(Elapse)

FairSpec == Spec /\ Fairness

-----------------------------------------------------------------------------
(* Properties *)

(* What is done to the selected process while the session counts as        *)
(* verified (Online and not stale), such as the write of a locked entry    *)
(* that names no PID, is done to a process that the console listed over    *)
(* the connection in use: never to a PID of its previous life, whatever    *)
(* reconnections, failed restorations and selections came before.          *)
SelectionOfThisLife ==
  rc.phase = "Online" /\ ~rc.stale /\ view.sel # Nobody => view.sel.life = ctl.life

(* Maps that a task read over an earlier connection are dropped: the maps  *)
(* shown only ever change to maps that were read over the connection in    *)
(* use, while there is one, and they are those of the selected process,    *)
(* unless its PID is one of the console's previous life.                   *)
MapsOfThisConnection ==
  [][view'.maps \notin {view.maps, Nobody} =>
       /\ view'.maps.life = ctl.life
       /\ view.sel.life = ctl.life => view'.maps = view.sel
       /\ rc.phase \in {"Online", "Restoring"}]_vars

(* After the user has cancelled or disconnected, no attempt that was still *)
(* under way and no timer opens the connection: only the user's own        *)
(* connect does.                                                           *)
CancelIsFinal ==
  [][rc.manual /\ ctl'.open => ctl.open]_vars

(* A ping that was sent over an earlier connection is not held against the *)
(* one in use.                                                             *)
PingsOfThisConnection ==
  heart.pending /\ rc.phase \in {"Online", "Restoring"} => heart.life = ctl.life

(* A reconnection never overtakes the restoration: an attempt that started *)
(* automatically ends in Restoring, in a retry, or with the user's word.   *)
(* (The phase, not the attempt, decides at its end which kind it was.)     *)
AttemptKeepsPhase ==
  conn.pending /\ ~Cancelled => rc.phase \in {"Connecting", "Reconnecting"}

(* While the client is the one AppState::client refers to, a lost          *)
(* connection is retried until the console, once it answers for good, is   *)
(* reconnected, unless the user takes over.                                *)
RetriesSucceed ==
  <>[]console.up =>
    (rc.phase \in {"WaitingForWake", "Reconnecting"} /\ ~freed
       ~> freed \/ rc.phase \in {"Disconnected", "Connecting"})

(* A control socket that no longer works is noticed, provided that pings   *)
(* are sent again and again while the socket seems open: a scan that never *)
(* ends, or telemetry that is always pending when the health poll looks,   *)
(* would keep the loss unnoticed.                                          *)
LossNoticed ==
  []<>(heart.pending \/ ~ctl.open \/ rc.phase # "Online") =>
    (rc.phase = "Online" /\ ~freed /\ ~Works(ctl.life)
       ~> rc.phase # "Online" \/ Works(ctl.life))
=============================================================================
