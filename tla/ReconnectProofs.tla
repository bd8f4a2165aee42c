-------------------------- MODULE ReconnectProofs --------------------------
(***************************************************************************)
(* Theorems about Reconnect, for every set of processes, every process     *)
(* list and any number of outages: its safety properties hold whatever the *)
(* freed client answers, and trainer locks (TrainerLocks) change nothing   *)
(* about them.                                                             *)
(*                                                                         *)
(* The argument: quiesce_transport leaves no ping, maps refresh or open    *)
(* socket behind a connect attempt (Quiet), so nothing can change the      *)
(* phase under the attempt except the user, who marks it (Marked); an      *)
(* open socket or a current maps refresh therefore belongs to a connection *)
(* in use (InUse), and what is verified was listed over it (Verified).     *)
(***************************************************************************)
EXTENDS TrainerLocks, TLAPS

Live == rc.phase \in {"Online", "Restoring"}

(* Nothing is under way beside a connect attempt. *)
Quiet ==
  conn.pending => ~heart.pending /\ ~mref.pending /\ ~mref.current /\ ~ctl.open

(* An attempt that outlives the user's cancel is marked. *)
Marked == rc.manual /\ conn.pending => conn.cancel

(* An open control socket, and a maps refresh whose epoch is current,      *)
(* belong to the connection in use.                                        *)
InUse ==
  /\ ctl.open => Live
  /\ mref.current => Live /\ mref.life = ctl.life
  /\ mref.fut = "ok" /\ mref.current =>
       /\ mref.got.life = mref.life
       /\ mref.pid.life = mref.life => mref.got = mref.pid

(* Lives and processes that are not the null ones, where it matters for    *)
(* the types.                                                              *)
Grounded ==
  /\ console.life <= console.outages + 1
  /\ ~console.up => console.life <= console.outages
  /\ conn.fut = "ok" => conn.life \in Lives
  /\ Live => ctl.life \in Lives
  /\ mref.fut = "run" => \/ mref.life = 0 /\ mref.pid = Nobody
                         \/ mref.life \in Lives /\ mref.pid \in Processes
  /\ restore.fut = "ok" /\ restore.current => restore.life \in Lives

Coherent ==
  /\ TypeOK /\ Grounded /\ Quiet /\ Marked /\ InUse
  /\ AttemptKeepsPhase /\ PingsOfThisConnection

(* The processes that are listed, matched or selected when the session is  *)
(* verified come from the connection in use.                               *)
ListedHere == \A p \in view.procs : p.life = ctl.life
Verified ==
  /\ rc.phase = "Connecting" => view.procs = {} /\ view.sel = Nobody
  /\ rc.phase = "Online" /\ ~rc.stale => ListedHere
  /\ rc.phase = "Restoring" /\ restore.stage = "RefreshingProcesses" =>
       restore.life = ctl.life
  /\ rc.phase = "Restoring" /\ restore.stage = "RefreshingMaps" =>
       ListedHere /\ restore.matched.life = ctl.life
  /\ SelectionOfThisLife

-----------------------------------------------------------------------------
(* The initial state is coherent. *)
LEMMA InitCoherent == Init => Coherent
  <1> SUFFICES ASSUME Init PROVE Coherent
    OBVIOUS
  <1> USE ReconnectAssumption DEF Init, Lives, MaxLife, Phases, Futures, NoSocket,
                                  NoConnect, NoPing, NoRestore, NoMaps, EmptyView
  <1>1. TypeOK
    <2>1. console \in Consoles
      BY DEF Consoles
    <2>2. ctl \in Sockets /\ heart \in Heartbeats /\ conn \in ConnectAttempts
      BY DEF Sockets, Heartbeats, ConnectAttempts
    <2>3. rc \in ReconnectStates
      BY DEF ReconnectStates
    <2>4. restore \in RestoreStates
      BY DEF RestoreStates
    <2>5. mref \in MapRefreshes
      BY DEF MapRefreshes
    <2>6. view \in Views
      BY DEF Views
    <2> QED BY <2>1, <2>2, <2>3, <2>4, <2>5, <2>6 DEF TypeOK
  <1>2. Grounded /\ Quiet /\ Marked /\ InUse /\ AttemptKeepsPhase /\ PingsOfThisConnection
    BY DEF Grounded, Quiet, Marked, InUse, AttemptKeepsPhase, PingsOfThisConnection,
           Live, Lives, MaxLife
  <1> QED BY <1>1, <1>2 DEF Coherent

(* The console's own steps and the timer. *)
LEMMA ConsoleStep ==
  ASSUME Coherent, Sleep \/ Wake \/ Elapse PROVE Coherent'
  <1> USE ReconnectAssumption DEF Coherent
  <1>0. /\ console \in Consoles
        /\ console.life \in Nat /\ console.outages \in Nat
    BY DEF TypeOK, Consoles, Lives
  <1>1. CASE Sleep
    <2> USE <1>1 DEF Sleep
    <2>1. console.outages + 1 \in 0..MaxOutages
      BY <1>0
    <2>2. console' \in Consoles /\ console'.life = console.life
          /\ console'.outages = console.outages + 1
      BY <1>0, <2>1 DEF Consoles
    <2>3. TypeOK'
      BY <2>2 DEF TypeOK
    <2>4. Grounded'
      BY <1>0, <2>2 DEF Grounded, Live
    <2>5. Quiet' /\ Marked' /\ InUse' /\ AttemptKeepsPhase' /\ PingsOfThisConnection'
      BY DEF Quiet, Marked, InUse, AttemptKeepsPhase, PingsOfThisConnection, Live,
             Cancelled
    <2> QED BY <2>3, <2>4, <2>5
  <1>2. CASE Wake
    <2> USE <1>2 DEF Wake
    <2>1. console.life <= console.outages /\ console.outages <= MaxOutages
      BY <1>0 DEF Grounded, Consoles
    <2>2. console.life + 1 \in Lives
      BY <1>0, <2>1 DEF Lives, MaxLife
    <2>3. /\ console' \in Consoles /\ console'.outages = console.outages
          /\ console'.life \in {console.life, console.life + 1} /\ console'.up
      BY <1>0, <2>2 DEF Consoles
    <2>4. TypeOK'
      BY <2>3 DEF TypeOK
    <2>5. Grounded'
      BY <1>0, <2>1, <2>3 DEF Grounded, Live
    <2>6. Quiet' /\ Marked' /\ InUse' /\ AttemptKeepsPhase' /\ PingsOfThisConnection'
      BY DEF Quiet, Marked, InUse, AttemptKeepsPhase, PingsOfThisConnection, Live,
             Cancelled
    <2> QED BY <2>4, <2>5, <2>6
  <1>3. CASE Elapse
    <2> USE <1>3 DEF Elapse
    <2>1. TypeOK'
      BY DEF TypeOK, ReconnectStates
    <2>2. Grounded'
      BY DEF TypeOK, Grounded, Live, ReconnectStates
    <2>3. Quiet' /\ Marked' /\ InUse' /\ AttemptKeepsPhase' /\ PingsOfThisConnection'
      BY DEF TypeOK, ReconnectStates, Quiet, Marked, InUse, AttemptKeepsPhase,
             PingsOfThisConnection, Live, Cancelled
    <2> QED BY <2>1, <2>2, <2>3
  <1> QED BY <1>1, <1>2, <1>3

(* A life is a valid tag. *)
LEMMA LivesTag == Lives \subseteq 0..MaxLife
  BY ReconnectAssumption DEF Lives, MaxLife

(* A failed task leaves the control socket as it is or closes it. *)
LEMMA CloseOnFailureKeepsLife ==
  ASSUME TypeOK, NEW life, CloseOnFailure(life)
  PROVE  ctl' \in Sockets /\ ctl'.life = ctl.life /\ (ctl'.open => ctl.open)
  BY DEF CloseOnFailure, TypeOK, Sockets

(* The tasks. *)
LEMMA TaskStep ==
  ASSUME Coherent, ConnectTask \/ PingTask \/ ProcessListTask \/ MapsTask
  PROVE  Coherent'
  <1> USE ReconnectAssumption DEF Coherent
  <1>0. /\ console \in Consoles /\ ctl \in Sockets /\ rc \in ReconnectStates
        /\ conn \in ConnectAttempts /\ heart \in Heartbeats
        /\ restore \in RestoreStates /\ mref \in MapRefreshes
    BY DEF TypeOK
  <1>1. CASE ConnectTask
    <2> USE <1>1 DEF ConnectTask
    <2>0. console.life \in Lives /\ console.inst \in Lives
      BY <1>0 DEF Consoles
    <2>1. /\ conn' \in ConnectAttempts
          /\ conn'.pending = conn.pending /\ conn'.cancel = conn.cancel
          /\ conn'.moved = conn.moved /\ conn'.fut \in {"ok", "fail"}
          /\ conn'.fut = "ok" => conn'.life \in Lives
      <3>1. CASE conn' = [conn EXCEPT !.fut = "ok", !.life = console.life,
                                      !.inst = console.inst]
        BY ONLY <1>0, <2>0, <3>1, LivesTag DEF ConnectAttempts, Futures
      <3>2. CASE conn' = [conn EXCEPT !.fut = "fail"]
        BY ONLY <1>0, <3>2 DEF ConnectAttempts, Futures
      <3> QED BY <3>1, <3>2
    <2>2. conn.pending
      BY DEF TypeOK
    <2>3. TypeOK'
      BY <2>1, <2>2 DEF TypeOK
    <2>4. Grounded'
      BY <2>1 DEF Grounded, Live
    <2>5. Quiet' /\ Marked' /\ InUse' /\ AttemptKeepsPhase' /\ PingsOfThisConnection'
      BY <2>1 DEF Quiet, Marked, InUse, AttemptKeepsPhase, PingsOfThisConnection,
                  Live, Cancelled
    <2> QED BY <2>3, <2>4, <2>5
  <1>2. CASE PingTask
    <2> USE <1>2 DEF PingTask
    <2>1. /\ heart' \in Heartbeats
          /\ heart'.pending = heart.pending /\ heart'.life = heart.life
      BY <1>0 DEF Heartbeats, Futures
    <2>2. ctl' \in Sockets /\ ctl'.life = ctl.life /\ (ctl'.open => ctl.open)
      BY <1>0 DEF Sockets
    <2>3. TypeOK'
      BY <2>1, <2>2 DEF TypeOK
    <2>4. Grounded'
      BY <2>2 DEF Grounded, Live
    <2>5. Quiet' /\ Marked' /\ InUse' /\ AttemptKeepsPhase' /\ PingsOfThisConnection'
      BY <2>1, <2>2 DEF Quiet, Marked, InUse, AttemptKeepsPhase,
                        PingsOfThisConnection, Live, Cancelled
    <2> QED BY <2>3, <2>4, <2>5
  <1>3. CASE ProcessListTask
    <2> USE <1>3 DEF ProcessListTask
    <2>0. restore.life \in Lives => ProcessLists[restore.life] \subseteq SUBSET Names
      BY DEF Lives, MaxLife
    <2>1. /\ restore' \in RestoreStates
          /\ restore'.fut = "ok" => restore'.life \in Lives
      <3>1. CASE /\ restore.life \in Lives
                 /\ \E list \in ProcessLists[restore.life] :
                      restore' = [restore EXCEPT !.fut = "ok", !.list = list]
        <4>1. PICK list \in SUBSET Names :
                restore' = [restore EXCEPT !.fut = "ok", !.list = list]
          BY <2>0, <3>1
        <4> QED BY ONLY <1>0, <3>1, <4>1 DEF RestoreStates, Futures
      <3>2. CASE restore' = [restore EXCEPT !.fut = "fail"]
        BY ONLY <1>0, <3>2 DEF RestoreStates, Futures
      <3> QED BY <3>1, <3>2
    <2>2. ctl' \in Sockets /\ ctl'.life = ctl.life /\ (ctl'.open => ctl.open)
      BY <1>0, CloseOnFailureKeepsLife
    <2>3. TypeOK'
      BY <2>1, <2>2 DEF TypeOK
    <2>4. Grounded'
      BY <2>1, <2>2 DEF Grounded, Live
    <2>5. Quiet' /\ Marked' /\ InUse' /\ AttemptKeepsPhase' /\ PingsOfThisConnection'
      BY <2>2 DEF Quiet, Marked, InUse, AttemptKeepsPhase, PingsOfThisConnection,
                  Live, Cancelled
    <2> QED BY <2>3, <2>4, <2>5
  <1>4. CASE MapsTask
    <2> USE <1>4 DEF MapsTask
    <2>0. \A got \in Answering : /\ got \in Processes \cup {Nobody}
                                 /\ got.life = mref.life
                                 /\ mref.pid.life = mref.life => got = mref.pid
      <3>1. CASE mref.life = 0 /\ mref.pid = Nobody
        BY ONLY <3>1 DEF Answering, Nobody
      <3>2. CASE mref.life \in Lives /\ mref.pid \in Processes
        <4>1. mref.life # 0
          BY ONLY <3>2, ReconnectAssumption DEF Lives, MaxLife
        <4>2. [life : {mref.life}, name : Names] \subseteq Processes
          BY ONLY <3>2 DEF Processes
        <4>3. CASE mref.life = mref.pid.life
          BY ONLY <3>2, <4>3 DEF Answering
        <4>4. CASE mref.life # mref.pid.life
          <5>1. Answering = [life : {mref.life}, name : Names]
            BY ONLY <4>1, <4>4 DEF Answering
          <5> QED BY ONLY <4>2, <4>4, <5>1
        <4> QED BY <4>3, <4>4
      <3> QED BY <3>1, <3>2 DEF Grounded
    <2>x. \/ \E got \in Answering :
                mref' = [mref EXCEPT !.fut = "ok", !.error = FALSE, !.got = got]
          \/ mref' = [mref EXCEPT !.fut = "fail", !.error = TRUE]
      OBVIOUS
    <2>1. /\ mref' \in MapRefreshes
          /\ mref'.pending = mref.pending /\ mref'.current = mref.current
          /\ mref'.life = mref.life /\ mref'.pid = mref.pid /\ mref'.fut # "run"
          /\ mref'.fut = "ok" => /\ mref'.got.life = mref.life
                                 /\ mref.pid.life = mref.life => mref'.got = mref.pid
      <3>1. CASE \E got \in Answering :
                   mref' = [mref EXCEPT !.fut = "ok", !.error = FALSE, !.got = got]
        <4>1. PICK got \in Answering :
                mref' = [mref EXCEPT !.fut = "ok", !.error = FALSE, !.got = got]
          BY <3>1
        <4>2. /\ got \in Processes \cup {Nobody} /\ got.life = mref.life
              /\ mref.pid.life = mref.life => got = mref.pid
          BY <2>0
        <4>3. /\ mref' \in MapRefreshes /\ mref'.got = got
              /\ mref'.pending = mref.pending /\ mref'.current = mref.current
              /\ mref'.life = mref.life /\ mref'.pid = mref.pid /\ mref'.fut = "ok"
          BY ONLY <1>0, <4>1, <4>2 DEF MapRefreshes, Futures
        <4> QED BY ONLY <4>2, <4>3
      <3>2. CASE mref' = [mref EXCEPT !.fut = "fail", !.error = TRUE]
        BY ONLY <1>0, <3>2 DEF MapRefreshes, Futures
      <3> QED BY <2>x, <3>1, <3>2
    <2>2. ctl' \in Sockets /\ ctl'.life = ctl.life /\ (ctl'.open => ctl.open)
      BY <1>0, CloseOnFailureKeepsLife
    <2>3. TypeOK'
      BY <2>1, <2>2 DEF TypeOK
    <2>4. Grounded'
      BY <2>1, <2>2 DEF Grounded, Live
    <2>5. Quiet' /\ Marked' /\ AttemptKeepsPhase' /\ PingsOfThisConnection'
      BY <2>1, <2>2 DEF Quiet, Marked, AttemptKeepsPhase, PingsOfThisConnection, Live,
                        Cancelled
    <2>6. InUse'
      <3>1. InUse /\ rc' = rc
        OBVIOUS
      <3> QED BY ONLY <2>1, <2>2, <3>1 DEF InUse, Live
    <2> QED BY <2>3, <2>4, <2>5, <2>6
  <1> QED BY <1>1, <1>2, <1>3, <1>4

(* poll_connect. *)
LEMMA ConnectStep == ASSUME Coherent, PollConnect PROVE Coherent'
  <1> USE DEF Coherent, ConnectReady
  <1>0. /\ ctl \in Sockets /\ rc \in ReconnectStates /\ conn \in ConnectAttempts
        /\ heart \in Heartbeats /\ mref \in MapRefreshes /\ view \in Views
    BY DEF TypeOK
  <1>n. NoConnect \in ConnectAttempts /\ ~NoConnect.pending /\ NoConnect.fut = "none"
    BY ReconnectAssumption DEF ConnectAttempts, NoConnect, Futures, MaxLife
  <1>h. ASSUME heart' = [heart EXCEPT !.failures = 0]
        PROVE  /\ heart' \in Heartbeats /\ heart'.pending = heart.pending
               /\ heart'.life = heart.life
    BY ONLY <1>0, <1>h DEF Heartbeats
  <1>q. conn.pending => ~heart.pending /\ ~mref.pending /\ ~mref.current /\ ~ctl.open
    BY DEF Quiet
  <1>1. CASE ConnectCancelled
    <2> USE <1>1 DEF ConnectCancelled
    <2>1. TypeOK'
      BY <1>n DEF TypeOK
    <2>2. Grounded' /\ Quiet' /\ Marked' /\ InUse' /\ AttemptKeepsPhase'
          /\ PingsOfThisConnection'
      BY <1>n DEF Grounded, Quiet, Marked, InUse, AttemptKeepsPhase,
                  PingsOfThisConnection, Live
    <2> QED BY <2>1, <2>2
  <1>2. CASE ConnectFailed
    <2> USE <1>2 DEF ConnectFailed
    <2>1. /\ rc' \in ReconnectStates
          /\ rc'.phase \in {rc.phase, "WaitingForWake"}
      <3>1. CASE rc' = [rc EXCEPT !.phase = "WaitingForWake", !.due = FALSE]
        BY ONLY <1>0, <3>1 DEF ReconnectStates, Phases
      <3> QED BY <1>0, <3>1
    <2>2. /\ heart' \in Heartbeats /\ heart'.pending = heart.pending
          /\ heart'.life = heart.life
      BY <1>0, <1>h
    <2>3. TypeOK'
      BY <1>n, <2>1, <2>2 DEF TypeOK
    <2>4. ~conn'.pending /\ conn'.fut = "none"
      BY <1>n
    <2>5. Quiet' /\ Marked' /\ AttemptKeepsPhase'
      BY <2>4 DEF Quiet, Marked, AttemptKeepsPhase
    <2>6. Grounded' /\ InUse' /\ PingsOfThisConnection'
      BY <1>q, <2>1, <2>2, <2>4 DEF Grounded, InUse, PingsOfThisConnection, Live
    <2> QED BY <2>3, <2>5, <2>6
  <1>s. ASSUME ConnectSucceeded, ctl' = [open |-> TRUE, life |-> conn.life]
        PROVE  ctl' \in Sockets /\ ctl'.life \in Lives
    <2>1. conn.life \in Lives /\ conn.life \in 0..MaxLife
      BY <1>0, <1>s DEF ConnectSucceeded, Grounded, ConnectAttempts
    <2> QED BY ONLY <2>1, <1>s DEF Sockets
  <1>3. CASE Reconnected
    <2> USE <1>3 DEF Reconnected
    <2>1. ctl' \in Sockets /\ ctl'.life \in Lives
      BY <1>s
    <2>2. /\ heart' \in Heartbeats /\ heart'.pending = heart.pending
      BY <1>h
    <2>3. view' \in Views
      BY <1>0 DEF Views, EmptyView
    <2>4. rc' \in ReconnectStates /\ rc'.phase = "Restoring"
      <3>1. conn.inst \in 0..MaxLife
        BY <1>0 DEF ConnectAttempts
      <3>2. rc' = [rc EXCEPT !.phase = "Restoring", !.stale = TRUE, !.hello = TRUE,
                             !.saved = conn.inst]
        OBVIOUS
      <3> QED BY ONLY <1>0, <3>1, <3>2 DEF ReconnectStates, Phases
    <2>5. restore' \in RestoreStates /\ restore'.fut = "none"
      <3>1. 0 \in 0..MaxLife
        BY ReconnectAssumption DEF MaxLife
      <3> QED BY <3>1 DEF RestoreStates, NoRestore, Futures
    <2>6. /\ mref' \in MapRefreshes /\ ~mref'.current /\ mref'.fut = mref.fut
          /\ mref'.life = mref.life /\ mref'.pid = mref.pid
      <3>1. mref' = [mref EXCEPT !.current = FALSE]
        OBVIOUS
      <3> QED BY ONLY <1>0, <3>1 DEF MapRefreshes
    <2>7. TypeOK'
      BY <1>n, <2>1, <2>2, <2>3, <2>4, <2>5, <2>6 DEF TypeOK
    <2>8. ~conn'.pending /\ conn'.fut = "none" /\ ~heart'.pending
      BY <1>n, <1>q, <2>2 DEF ConnectSucceeded
    <2>9. Quiet' /\ Marked' /\ AttemptKeepsPhase' /\ InUse' /\ PingsOfThisConnection'
      BY <2>4, <2>6, <2>8 DEF Quiet, Marked, AttemptKeepsPhase, InUse,
                              PingsOfThisConnection, Live
    <2>10. Grounded'
      BY <2>1, <2>5, <2>6, <2>8 DEF Grounded, Live
    <2> QED BY <2>7, <2>9, <2>10
  <1>4. CASE ConnectedFresh
    <2> USE <1>4 DEF ConnectedFresh
    <2>1. ctl' \in Sockets /\ ctl'.life \in Lives
      BY <1>s
    <2>2. /\ heart' \in Heartbeats /\ heart'.pending = heart.pending
      BY <1>h
    <2>3. rc' \in ReconnectStates /\ rc'.phase = "Online"
      <3>1. conn.inst \in 0..MaxLife
        BY <1>0 DEF ConnectAttempts
      <3>2. rc' = [rc EXCEPT !.phase = "Online", !.hello = TRUE, !.saved = conn.inst]
        OBVIOUS
      <3> QED BY ONLY <1>0, <3>1, <3>2 DEF ReconnectStates, Phases
    <2>4. TypeOK'
      BY <1>n, <2>1, <2>2, <2>3 DEF TypeOK
    <2>5. ~conn'.pending /\ conn'.fut = "none" /\ ~heart'.pending /\ ~mref.current
      BY <1>n, <1>q, <2>2 DEF ConnectSucceeded
    <2>6. Quiet' /\ Marked' /\ AttemptKeepsPhase' /\ InUse' /\ PingsOfThisConnection'
      BY <2>3, <2>5 DEF Quiet, Marked, AttemptKeepsPhase, InUse, PingsOfThisConnection,
                        Live
    <2>7. Grounded'
      BY <2>1, <2>5 DEF Grounded, Live
    <2> QED BY <2>4, <2>6, <2>7
  <1> QED BY <1>1, <1>2, <1>3, <1>4 DEF PollConnect

(* quiesce_transport leaves nothing under way: a task that still runs is   *)
(* not looked at any more.                                                 *)
LEMMA QuiesceLeavesNothing ==
  ASSUME TypeOK, QuiesceTransport
  PROVE  /\ heart' \in Heartbeats /\ ~heart'.pending
         /\ mref' \in MapRefreshes /\ ~mref'.pending /\ ~mref'.current
         /\ mref'.life = 0 /\ mref'.pid = Nobody
         /\ restore' \in RestoreStates /\ ~restore'.current
         /\ ctl' \in Sockets /\ ~ctl'.open
  <1>1. 0 \in 0..MaxLife /\ 0 \in 0..2
    BY ReconnectAssumption DEF MaxLife
  <1>2. \A fut : StillRunning(fut) \in Futures
    BY DEF StillRunning, Futures
  <1>3. heart' \in Heartbeats /\ ~heart'.pending
    <2>1. heart' = [NoPing EXCEPT !.fut = StillRunning(heart.fut)]
      BY DEF QuiesceTransport
    <2> QED BY ONLY <1>1, <1>2, <2>1 DEF Heartbeats, NoPing
  <1>4. /\ mref' \in MapRefreshes /\ ~mref'.pending /\ ~mref'.current
        /\ mref'.life = 0 /\ mref'.pid = Nobody
    <2>1. mref' = [NoMaps EXCEPT !.fut = StillRunning(mref.fut), !.error = mref.error]
      BY DEF QuiesceTransport
    <2>2. mref.error \in BOOLEAN
      BY DEF TypeOK, MapRefreshes
    <2> QED BY ONLY <1>1, <1>2, <2>1, <2>2 DEF MapRefreshes, NoMaps
  <1>5. restore' \in RestoreStates /\ ~restore'.current
    <2>1. restore' = [restore EXCEPT !.current = FALSE, !.life = 0]
      BY DEF QuiesceTransport
    <2>2. restore \in RestoreStates
      BY DEF TypeOK
    <2> QED BY ONLY <1>1, <2>1, <2>2 DEF RestoreStates
  <1>6. ctl' \in Sockets /\ ~ctl'.open
    BY <1>1 DEF QuiesceTransport, NoSocket, Sockets
  <1> QED BY <1>3, <1>4, <1>5, <1>6

(* What a step that quiesces the transport still has to show: a phase      *)
(* without a connection, and a connect attempt that is marked or awaited.  *)
LEMMA QuiescedStep ==
  ASSUME Coherent, QuiesceTransport, UNCHANGED <<console, freed, alive>>,
         rc' \in ReconnectStates, view' \in Views, ~Live',
         conn' \in ConnectAttempts, conn'.pending <=> conn'.fut # "none",
         conn'.fut # "ok", Marked', AttemptKeepsPhase'
  PROVE  Coherent'
  <1>1. TypeOK'
    BY QuiesceLeavesNothing DEF Coherent, TypeOK
  <1>2. Grounded'
    BY QuiesceLeavesNothing DEF Coherent, Grounded
  <1>3. Quiet' /\ InUse' /\ PingsOfThisConnection'
    BY QuiesceLeavesNothing DEF Coherent, Quiet, InUse, PingsOfThisConnection, Live
  <1> QED BY <1>1, <1>2, <1>3 DEF Coherent

(* The attempt that connect_console launches. *)
LEMMA LaunchedAttempt ==
  /\ Launched \in ConnectAttempts /\ Launched.pending
  /\ Launched.fut = "run" /\ ~Launched.cancel /\ ~Launched.moved
  <1>1. 0 \in 0..MaxLife
    BY ReconnectAssumption DEF MaxLife
  <1> QED BY <1>1 DEF Launched, NoConnect, ConnectAttempts, Futures

(* begin_reconnect, with no attempt under way and no ping left. *)
LEMMA BeginReconnectStep ==
  ASSUME Coherent, NEW h \in Heartbeats, BeginReconnect(h),
         UNCHANGED <<console, freed, conn, view, alive>>,
         ~conn.pending,
         h.pending /\ Live => h.life = ctl.life
  PROVE  Coherent'
  <1> USE DEF Coherent
  <1>0. /\ rc \in ReconnectStates /\ mref \in MapRefreshes /\ view \in Views
        /\ conn.fut = "none"
    BY DEF TypeOK
  <1>1. CASE rc.manual
    <2> USE <1>1 DEF BeginReconnect
    <2>1. TypeOK'
      BY DEF TypeOK
    <2>2. Grounded' /\ Quiet' /\ Marked' /\ InUse' /\ AttemptKeepsPhase'
      BY DEF Grounded, Quiet, Marked, InUse, AttemptKeepsPhase, Live, Cancelled
    <2>3. PingsOfThisConnection'
      BY DEF PingsOfThisConnection, Live
    <2> QED BY <2>1, <2>2, <2>3
  <1>2. CASE ~rc.manual
    <2> USE <1>2 DEF BeginReconnect
    <2>0. 0 \in 0..MaxLife
      BY ONLY ReconnectAssumption DEF MaxLife
    <2>1. ctl' \in Sockets /\ ~ctl'.open
      <3>1. ctl' = NoSocket
        OBVIOUS
      <3> QED BY ONLY <2>0, <3>1 DEF NoSocket, Sockets
    <2>2. rc' \in ReconnectStates /\ rc'.phase = "WaitingForWake"
      <3>1. PICK n \in Names \cup {NoName} :
              rc' = [rc EXCEPT !.phase = "WaitingForWake", !.stale = TRUE,
                               !.due = FALSE, !.target = n]
        <4>1. TargetIdentities \subseteq Names \cup {NoName}
          BY ONLY <1>0 DEF TargetIdentities, Views, Processes, Nobody
        <4> QED BY <4>1
      <3> QED BY ONLY <1>0, <3>1 DEF ReconnectStates, Phases
    <2>3. restore' \in RestoreStates /\ restore'.fut = "none"
      <3>1. restore' = NoRestore
        OBVIOUS
      <3> QED BY ONLY <2>0, <3>1 DEF NoRestore, RestoreStates, Futures
    <2>4. /\ mref' \in MapRefreshes /\ ~mref'.current /\ mref'.fut = mref.fut
          /\ mref'.life = mref.life /\ mref'.pid = mref.pid
      <3>1. mref' = [mref EXCEPT !.current = FALSE]
        OBVIOUS
      <3> QED BY ONLY <1>0, <3>1 DEF MapRefreshes
    <2>5. TypeOK'
      BY <2>1, <2>2, <2>3, <2>4 DEF TypeOK
    <2>6. ~Live'
      BY <2>2 DEF Live
    <2>7. Quiet' /\ Marked' /\ InUse' /\ AttemptKeepsPhase' /\ PingsOfThisConnection'
      BY <2>1, <2>4, <2>6 DEF Quiet, Marked, InUse, AttemptKeepsPhase,
                              PingsOfThisConnection, Live
    <2>8. Grounded'
      BY <1>0, <2>3, <2>4, <2>6 DEF Grounded
    <2> QED BY <2>5, <2>7, <2>8
  <1> QED BY <1>1, <1>2

(* poll_session_health. *)
LEMMA HealthStep == ASSUME Coherent, PollSessionHealth PROVE Coherent'
  <1> USE DEF Coherent
  <1>0. ctl \in Sockets /\ heart \in Heartbeats
    BY DEF TypeOK
  <1>1. CASE HealthLost
    <2>1. /\ BeginReconnect(heart) /\ ~conn.pending
          /\ UNCHANGED <<console, freed, conn, view, alive>>
      BY <1>1 DEF HealthLost, TransportLost
    <2>2. heart.pending /\ Live => heart.life = ctl.life
      BY DEF PingsOfThisConnection, Live
    <2> QED BY <1>0, <2>1, <2>2, BeginReconnectStep
  <1>2. CASE HealthPing
    <2>1. ~conn.pending /\ UNCHANGED <<console, freed, conn, view, alive>>
      BY <1>2 DEF HealthPing, Quiet
    <2>2. PICK failures \in 0..2 :
            LET h == [NoPing EXCEPT !.failures = failures]
            IN BeginReconnect(h) \/ (heart' = h /\ UNCHANGED <<ctl, rc, restore, mref>>)
      <3>1. heart.failures \in 0..2
        BY <1>0 DEF Heartbeats
      <3> QED BY <1>2, <3>1 DEF HealthPing
    <2> DEFINE h == [NoPing EXCEPT !.failures = failures]
    <2>3. h \in Heartbeats /\ ~h.pending
      <3>1. 0 \in 0..MaxLife
        BY ReconnectAssumption DEF MaxLife
      <3> QED BY <3>1 DEF Heartbeats, NoPing, Futures
    <2> HIDE DEF h
    <2>4. BeginReconnect(h) \/ (heart' = h /\ UNCHANGED <<ctl, rc, restore, mref>>)
      BY <2>2 DEF h
    <2>5. CASE BeginReconnect(h)
      BY <2>1, <2>3, <2>5, BeginReconnectStep
    <2>6. CASE heart' = h /\ UNCHANGED <<ctl, rc, restore, mref>>
      <3>1. TypeOK'
        BY <2>1, <2>3, <2>6 DEF TypeOK
      <3>2. /\ Grounded' /\ Quiet' /\ Marked' /\ InUse' /\ AttemptKeepsPhase'
            /\ PingsOfThisConnection'
        BY <2>1, <2>3, <2>6 DEF Grounded, Quiet, Marked, InUse, AttemptKeepsPhase,
                                PingsOfThisConnection, Live, Cancelled
      <3> QED BY <3>1, <3>2
    <2> QED BY <2>4, <2>5, <2>6
  <1>3. CASE HealthSend
    <2>1. /\ ~conn.pending /\ UNCHANGED <<console, ctl, freed, rc, conn, restore, mref, view, alive>>
          /\ heart' = [heart EXCEPT !.pending = TRUE, !.fut = "run", !.life = ctl.life]
      BY <1>3 DEF HealthSend, PingReady
    <2>2. heart' \in Heartbeats /\ heart'.life = ctl.life
      <3>1. ctl.life \in 0..MaxLife
        BY <1>0 DEF Sockets
      <3> QED BY ONLY <1>0, <2>1, <3>1 DEF Heartbeats, Futures
    <2>3. TypeOK'
      BY <2>1, <2>2 DEF TypeOK
    <2>4. /\ Grounded' /\ Quiet' /\ Marked' /\ InUse' /\ AttemptKeepsPhase'
          /\ PingsOfThisConnection'
      BY <2>1, <2>2 DEF Grounded, Quiet, Marked, InUse, AttemptKeepsPhase,
                        PingsOfThisConnection, Live, Cancelled
    <2> QED BY <2>3, <2>4
  <1> QED BY <1>1, <1>2, <1>3 DEF PollSessionHealth

(* poll_reconnect. *)
LEMMA ReconnectStep == ASSUME Coherent, PollReconnect PROVE Coherent'
  <1> USE DEF Coherent
  <1>1. /\ ~rc.manual /\ QuiesceTransport /\ conn' = Launched
        /\ rc' = [rc EXCEPT !.hello = FALSE, !.stale = TRUE, !.phase = "Reconnecting"]
        /\ UNCHANGED <<console, freed, view, alive>>
    <2>1. rc \in ReconnectStates
      BY DEF TypeOK
    <2> QED BY <2>1 DEF PollReconnect, RetryDue, ConnectAgain, Quiesced, ReconnectStates
  <1>2. /\ rc' \in ReconnectStates /\ rc'.phase = "Reconnecting" /\ ~rc'.manual
    <2>1. rc \in ReconnectStates
      BY DEF TypeOK
    <2> QED BY <1>1, <2>1 DEF ReconnectStates, Phases
  <1>3. view' \in Views /\ ~Live' /\ Marked' /\ AttemptKeepsPhase'
    BY <1>1, <1>2 DEF TypeOK, Live, Marked, AttemptKeepsPhase
  <1> QED BY <1>1, <1>2, <1>3, LaunchedAttempt, QuiescedStep

(* request_maps_refresh_async: a refresh that is started belongs to the    *)
(* connection in use.                                                      *)
LEMMA RequestMapsStep ==
  ASSUME Coherent, NEW sel \in Processes \cup {Nobody}, NEW connected,
         RequestMaps(sel, connected)
  PROVE  /\ mref' \in MapRefreshes /\ alive' \in BOOLEAN
         /\ \/ mref' = mref
            \/ /\ ~conn.pending /\ Live /\ sel \in Processes
               /\ mref'.fut = "run" /\ mref'.life = ctl.life /\ mref'.pid = sel
  <1> USE DEF Coherent
  <1>0. mref \in MapRefreshes /\ alive \in BOOLEAN /\ ctl \in Sockets
    BY DEF TypeOK
  <1>1. CASE UNCHANGED mref
    BY <1>0, <1>1 DEF RequestMaps
  <1>2. CASE /\ ~conn.pending /\ sel # Nobody /\ LeaseMayWork /\ UNCHANGED alive
             /\ mref' = [pending |-> TRUE, fut |-> "run", current |-> TRUE, pid |-> sel,
                         life |-> ctl.life, got |-> Nobody, error |-> FALSE]
    <2>1. Live
      BY <1>2 DEF LeaseMayWork, InUse, Live
    <2>2. ctl.life \in 0..MaxLife
      BY <1>0 DEF Sockets
    <2>3. sel \in Processes
      BY <1>2
    <2>4. mref' \in MapRefreshes
      BY ONLY <1>2, <2>2, <2>3 DEF MapRefreshes, Futures
    <2> QED BY <1>0, <1>2, <2>1, <2>3, <2>4
  <1> QED BY <1>1, <1>2 DEF RequestMaps

(* A step of the restoration, or a request of the user, changes neither    *)
(* the connection nor the attempt; it may end the restoration and start a  *)
(* maps refresh.                                                           *)
LEMMA SessionStep ==
  ASSUME Coherent, UNCHANGED <<console, ctl, freed, conn, heart>>,
         alive' \in BOOLEAN,
         rc' = rc \/ (rc.phase = "Restoring" /\ rc'.phase = "Online"),
         rc' \in ReconnectStates, rc'.manual = rc.manual,
         view' \in Views,
         restore' \in RestoreStates,
         restore'.fut = "ok" /\ restore'.current => restore'.life \in Lives,
         mref' \in MapRefreshes,
         \/ mref' = mref
         \/ /\ ~conn.pending /\ Live /\ mref'.pid \in Processes
            /\ mref'.fut = "run" /\ mref'.life = ctl.life
  PROVE  Coherent'
  <1> USE DEF Coherent
  <1>0. Live' <=> Live
    BY DEF Live
  <1>1. TypeOK'
    BY DEF TypeOK
  <1>2. Grounded'
    BY <1>0 DEF Grounded
  <1>3. Quiet' /\ Marked' /\ InUse'
    BY <1>0 DEF Quiet, Marked, InUse
  <1>4. AttemptKeepsPhase' /\ PingsOfThisConnection'
    BY <1>0 DEF AttemptKeepsPhase, PingsOfThisConnection, Live, Cancelled
  <1> QED BY <1>1, <1>2, <1>3, <1>4

(* poll_restore_session. *)
LEMMA RestoreStep == ASSUME Coherent, PollRestoreSession PROVE Coherent'
  <1> USE DEF Coherent
  <1>0. /\ ctl \in Sockets /\ rc \in ReconnectStates /\ alive \in BOOLEAN
        /\ restore \in RestoreStates /\ mref \in MapRefreshes /\ view \in Views
        /\ restore.fut = "ok" /\ restore.current => restore.life \in Lives
    BY DEF TypeOK, Grounded
  <1>n. NoRestore \in RestoreStates /\ NoRestore.fut = "none"
    <2>1. 0 \in 0..MaxLife
      BY ReconnectAssumption DEF MaxLife
    <2> QED BY <2>1 DEF NoRestore, RestoreStates, Futures
  <1>o. ASSUME NEW b \in BOOLEAN, rc.phase = "Restoring",
               rc' = [rc EXCEPT !.phase = "Online", !.stale = b, !.target = NoName]
        PROVE  /\ rc' \in ReconnectStates /\ rc'.manual = rc.manual
               /\ rc'.phase = "Online"
    BY ONLY <1>0, <1>o DEF ReconnectStates, Phases
  <1>f. ASSUME NEW s \in {"Idle", "Failed"}
        PROVE  /\ [NoRestore EXCEPT !.stage = s] \in RestoreStates
               /\ [NoRestore EXCEPT !.stage = s].fut = "none"
    BY ONLY <1>n, <1>f DEF RestoreStates
  <1>1. CASE RestoreStart
    <2> USE <1>1 DEF RestoreStart
    <2>1. restore' \in RestoreStates
          /\ (restore'.fut = "ok" /\ restore'.current => restore'.life \in Lives)
      <3>1. CASE restore' = [NoRestore EXCEPT !.stage = "RefreshingProcesses",
                                !.fut = "run", !.current = TRUE, !.life = ctl.life]
        <4>1. ctl.life \in 0..MaxLife
          BY <1>0 DEF Sockets
        <4> QED BY ONLY <1>n, <3>1, <4>1 DEF RestoreStates, Futures
      <3> QED BY <1>0, <3>1
    <2>2. alive' \in BOOLEAN
      BY <1>0
    <2> QED BY <1>0, <2>1, <2>2, SessionStep
  <1>2. CASE RestoreList
    <2>1. Listed \subseteq Processes \/ ~(restore.fut = "ok" /\ restore.current)
      BY <1>0 DEF Listed, Processes, RestoreStates
    <2>2. UNCHANGED <<console, ctl, freed, conn, heart>> /\ rc.phase = "Restoring"
      BY <1>2 DEF RestoreList, Restores
    <2>3. CASE /\ restore' = [NoRestore EXCEPT !.stage = IF restore.current THEN "Failed" ELSE "Idle"]
               /\ UNCHANGED <<rc, mref, view, alive>>
      <3>1. restore' \in RestoreStates /\ restore'.fut = "none"
        BY <1>f, <2>3
      <3> QED BY <1>0, <2>2, <2>3, <3>1, SessionStep
    <2>4. CASE /\ restore.fut = "ok" /\ restore.current
               /\ view' = [view EXCEPT !.procs = Listed]
               /\ rc' = [rc EXCEPT !.phase = "Online", !.stale = TRUE, !.target = NoName]
               /\ restore' = NoRestore
               /\ UNCHANGED <<mref, alive>>
      <3>1. view' \in Views
        BY ONLY <1>0, <2>1, <2>4 DEF Views
      <3>2. /\ rc' \in ReconnectStates /\ rc'.manual = rc.manual /\ rc'.phase = "Online"
        BY <1>o, <2>2, <2>4
      <3> QED BY <1>0, <1>n, <2>2, <2>4, <3>1, <3>2, SessionStep
    <2>5. CASE /\ restore.fut = "ok" /\ restore.current
               /\ view' = [view EXCEPT !.procs = Listed, !.sel = Nobody]
               /\ restore' = [NoRestore EXCEPT !.stage = "Failed"]
               /\ UNCHANGED <<rc, mref, alive>>
      <3>1. view' \in Views
        BY ONLY <1>0, <2>1, <2>5 DEF Views
      <3>2. restore' \in RestoreStates /\ restore'.fut = "none"
        BY <1>f, <2>5
      <3> QED BY <1>0, <2>2, <2>5, <3>1, <3>2, SessionStep
    <2>6. CASE /\ restore.fut = "ok" /\ restore.current /\ UNCHANGED rc
               /\ \E p \in Matches :
                    /\ view' = [view EXCEPT !.procs = Listed, !.sel = p]
                    /\ restore' = [NoRestore EXCEPT !.stage = "RefreshingMaps", !.matched = p]
                    /\ \E connected \in ConnectedReads : RequestMaps(p, connected)
      <3>1. PICK p \in Matches :
              /\ view' = [view EXCEPT !.procs = Listed, !.sel = p]
              /\ restore' = [NoRestore EXCEPT !.stage = "RefreshingMaps", !.matched = p]
              /\ \E connected \in ConnectedReads : RequestMaps(p, connected)
        BY <2>6
      <3>2. p \in Processes
        BY <2>1, <2>6 DEF Matches
      <3>3. view' \in Views
        BY ONLY <1>0, <2>1, <2>6, <3>1, <3>2 DEF Views
      <3>4. restore' \in RestoreStates /\ restore'.fut = "none"
        BY ONLY <1>n, <3>1, <3>2 DEF RestoreStates
      <3>5. /\ mref' \in MapRefreshes /\ alive' \in BOOLEAN
            /\ \/ mref' = mref
               \/ /\ ~conn.pending /\ Live /\ mref'.pid \in Processes
                  /\ mref'.fut = "run" /\ mref'.life = ctl.life
        BY <3>1, <3>2, RequestMapsStep
      <3> QED BY <1>0, <2>2, <2>6, <3>3, <3>4, <3>5, SessionStep
    <2> QED BY <1>2, <2>3, <2>4, <2>5, <2>6 DEF RestoreList
  <1>3. CASE RestoreMaps
    <2>1. /\ UNCHANGED <<console, ctl, freed, conn, heart, mref, view, alive>>
          /\ rc.phase = "Restoring"
      BY <1>3 DEF RestoreMaps, Restores
    <2>2. restore' \in RestoreStates /\ restore'.fut = "none"
      BY <1>3, <1>n, <1>f DEF RestoreMaps
    <2>3. \/ rc' = rc
          \/ /\ rc' \in ReconnectStates /\ rc'.manual = rc.manual /\ rc'.phase = "Online"
      BY <1>3, <1>o, <2>1 DEF RestoreMaps
    <2> QED BY <1>0, <2>1, <2>2, <2>3, SessionStep
  <1>4. CASE RestoreFailed
    <2>1. /\ UNCHANGED <<console, ctl, freed, conn, heart, mref, view, alive>>
          /\ rc.phase = "Restoring" /\ restore' = NoRestore
      BY <1>4 DEF RestoreFailed, Restores
    <2>2. /\ rc' \in ReconnectStates /\ rc'.manual = rc.manual /\ rc'.phase = "Online"
      BY <1>4, <1>o, <2>1 DEF RestoreFailed
    <2> QED BY <1>0, <1>n, <2>1, <2>2, SessionStep
  <1> QED BY <1>1, <1>2, <1>3, <1>4 DEF PollRestoreSession

(* poll_map_refresh. *)
LEMMA MapRefreshStep == ASSUME Coherent, PollMapRefresh PROVE Coherent'
  <1> USE DEF Coherent
  <1>0. mref \in MapRefreshes /\ view \in Views
    BY DEF TypeOK
  <1>1. UNCHANGED <<console, ctl, freed, rc, conn, heart, restore, alive>>
    BY DEF PollMapRefresh
  <1>2. /\ mref' \in MapRefreshes /\ ~mref'.current /\ ~mref'.pending
        /\ mref'.fut = "none"
    <2>1. mref' = [NoMaps EXCEPT !.error = mref.error]
      BY DEF PollMapRefresh
    <2>2. mref.error \in BOOLEAN
      BY <1>0 DEF MapRefreshes
    <2>3. 0 \in 0..MaxLife
      BY ReconnectAssumption DEF MaxLife
    <2> QED BY ONLY <2>1, <2>2, <2>3 DEF MapRefreshes, NoMaps, Futures
  <1>3. view' \in Views
    <2>1. mref.got \in Processes \cup {Nobody}
      BY <1>0 DEF MapRefreshes
    <2>2. view' = view \/ view' = [view EXCEPT !.maps = mref.got]
      BY DEF PollMapRefresh
    <2> QED BY ONLY <1>0, <2>1, <2>2 DEF Views
  <1>4. TypeOK'
    BY <1>1, <1>2, <1>3 DEF TypeOK
  <1>5. /\ Grounded' /\ Quiet' /\ Marked' /\ InUse' /\ AttemptKeepsPhase'
        /\ PingsOfThisConnection'
    BY <1>1, <1>2 DEF Grounded, Quiet, Marked, InUse, AttemptKeepsPhase,
                      PingsOfThisConnection, Live, Cancelled
  <1> QED BY <1>4, <1>5

(* What the user does. *)
LEMMA UserStep == ASSUME Coherent, User PROVE Coherent'
  <1> USE DEF Coherent
  <1>0. /\ console \in Consoles /\ ctl \in Sockets /\ rc \in ReconnectStates
        /\ conn \in ConnectAttempts /\ restore \in RestoreStates
        /\ mref \in MapRefreshes /\ view \in Views /\ alive \in BOOLEAN
        /\ restore.fut = "ok" /\ restore.current => restore.life \in Lives
    BY DEF TypeOK, Grounded
  <1>e. EmptyView \in Views
    BY DEF EmptyView, Views
  <1>q. ASSUME NEW s \in BOOLEAN, NEW m \in BOOLEAN, NEW ph \in Phases,
               rc' = [rc EXCEPT !.hello = FALSE, !.stale = s, !.manual = m,
                                !.phase = ph, !.target = NoName]
        PROVE  rc' \in ReconnectStates /\ rc'.phase = ph /\ rc'.manual = m
    BY ONLY <1>0, <1>q DEF ReconnectStates
  <1>1. CASE UserConnect
    <2>1. CASE conn.pending
      <3>1. UNCHANGED vars
        BY <1>1, <2>1 DEF UserConnect, ConnectFresh, vars
      <3> QED BY <3>1 DEF vars, TypeOK, Grounded, Quiet, Marked, InUse,
                  AttemptKeepsPhase, PingsOfThisConnection, Live, Cancelled
    <2>2. CASE ~conn.pending
      <3>1. /\ QuiesceTransport /\ conn' = Launched /\ view' = EmptyView
            /\ UNCHANGED <<console, freed, alive>>
            /\ rc' = [rc EXCEPT !.hello = FALSE, !.stale = FALSE, !.manual = FALSE,
                                !.phase = "Connecting", !.target = NoName]
        BY <1>0, <1>1, <2>2 DEF UserConnect, ConnectFresh, Quiesced, ReconnectStates
      <3>2. rc' \in ReconnectStates /\ rc'.phase = "Connecting" /\ ~rc'.manual
        BY <1>q, <3>1 DEF Phases
      <3>3. ~Live' /\ Marked' /\ AttemptKeepsPhase'
        BY <3>2 DEF Live, Marked, AttemptKeepsPhase
      <3> QED BY <1>e, <3>1, <3>2, <3>3, LaunchedAttempt, QuiescedStep
    <2> QED BY <2>1, <2>2
  <1>2. CASE UserCancel
    <2>1. /\ UNCHANGED <<console, ctl, freed, heart, restore, mref, view, alive>>
          /\ ConnectSequencePending
          /\ rc' = [rc EXCEPT !.manual = TRUE, !.phase = "Disconnected", !.target = NoName]
          /\ conn' = IF conn.pending THEN [conn EXCEPT !.cancel = TRUE, !.moved = TRUE]
                     ELSE conn
      BY <1>2 DEF UserCancel
    <2>2. rc' \in ReconnectStates /\ rc'.phase = "Disconnected"
      BY ONLY <1>0, <2>1 DEF ReconnectStates, Phases
    <2>3. /\ conn' \in ConnectAttempts /\ conn'.pending = conn.pending
          /\ conn'.fut = conn.fut /\ conn'.life = conn.life
          /\ conn.pending => conn'.cancel
      BY ONLY <1>0, <2>1 DEF ConnectAttempts
    <2>4. ~ctl.open /\ ~mref.current
      BY <2>1 DEF ConnectSequencePending, Quiet, InUse, Live
    <2>5. TypeOK'
      BY <2>1, <2>2, <2>3 DEF TypeOK
    <2>6. ~Live'
      BY <2>2 DEF Live
    <2>7. /\ Grounded' /\ Quiet' /\ Marked' /\ InUse'
      BY <2>1, <2>3, <2>4, <2>6 DEF Grounded, Quiet, Marked, InUse
    <2>8. AttemptKeepsPhase' /\ PingsOfThisConnection'
      BY <2>3, <2>6 DEF AttemptKeepsPhase, PingsOfThisConnection, Cancelled, Live
    <2> QED BY <2>5, <2>7, <2>8
  <1>3. CASE UserDisconnect
    <2>1. /\ QuiesceTransport /\ ~conn.pending /\ view' = EmptyView
          /\ UNCHANGED <<console, freed, conn, alive>>
          /\ rc' = [rc EXCEPT !.hello = FALSE, !.stale = TRUE, !.manual = TRUE,
                              !.phase = "ConnectionLost", !.target = NoName]
      BY <1>0, <1>3 DEF UserDisconnect, Quiesced, ReconnectStates
    <2>2. rc' \in ReconnectStates /\ rc'.phase = "ConnectionLost"
      BY <1>q, <2>1 DEF Phases
    <2>3. /\ conn' \in ConnectAttempts /\ (conn'.pending <=> conn'.fut # "none")
          /\ conn'.fut # "ok"
      BY <1>0, <2>1 DEF TypeOK
    <2>4. ~Live' /\ Marked' /\ AttemptKeepsPhase'
      BY <2>1, <2>2 DEF Live, Marked, AttemptKeepsPhase
    <2> QED BY <1>e, <2>1, <2>2, <2>3, <2>4, QuiescedStep
  <1>4. CASE UserSelect
    <2>1. PICK p \in view.procs : view' = [view EXCEPT !.sel = p, !.maps = Nobody]
      BY <1>4 DEF UserSelect
    <2>2. view' \in Views
      BY ONLY <1>0, <2>1 DEF Views
    <2> QED BY <1>0, <1>4, <2>2, SessionStep DEF UserSelect
  <1>5. CASE UserRefreshProcesses
    <2>1. /\ UNCHANGED <<console, freed, rc, conn, heart, restore, mref, alive>>
          /\ ctl' \in Sockets /\ ctl'.life = ctl.life /\ (ctl'.open => ctl.open)
      BY <1>0, <1>5, CloseOnFailureKeepsLife DEF UserRefreshProcesses
    <2>2. view' \in Views
      <3>1. CASE UNCHANGED view
        BY <1>0, <3>1
      <3>2. CASE /\ Works(ctl.life)
                 /\ \E names \in ProcessLists[ctl.life] :
                      LET procs == [life : {ctl.life}, name : names]
                      IN \/ view' = [view EXCEPT !.procs = procs]
                         \/ view' = [EmptyView EXCEPT !.procs = procs]
        <4>1. ctl.life \in Lives
          BY <1>0, <3>2 DEF Works, Consoles
        <4>2. ProcessLists[ctl.life] \subseteq SUBSET Names
          BY <4>1, ReconnectAssumption DEF Lives, MaxLife
        <4>3. PICK names \in SUBSET Names :
                \/ view' = [view EXCEPT !.procs = [life : {ctl.life}, name : names]]
                \/ view' = [EmptyView EXCEPT !.procs = [life : {ctl.life}, name : names]]
          BY <3>2, <4>2
        <4>4. [life : {ctl.life}, name : names] \subseteq Processes
          BY <4>1 DEF Processes
        <4> QED BY ONLY <1>0, <1>e, <4>3, <4>4 DEF Views
      <3> QED BY <1>5, <3>1, <3>2 DEF UserRefreshProcesses
    <2>3. TypeOK'
      BY <2>1, <2>2 DEF TypeOK
    <2>4. Grounded'
      BY <2>1 DEF Grounded, Live
    <2>5. Quiet' /\ Marked' /\ InUse' /\ AttemptKeepsPhase' /\ PingsOfThisConnection'
      BY <2>1 DEF Quiet, Marked, InUse, AttemptKeepsPhase, PingsOfThisConnection,
                  Live, Cancelled
    <2> QED BY <2>3, <2>4, <2>5
  <1>6. CASE UserRefreshMaps
    <2>1. view.sel \in Processes \cup {Nobody}
      BY <1>0 DEF Views
    <2>2. /\ mref' \in MapRefreshes /\ alive' \in BOOLEAN
          /\ \/ mref' = mref
             \/ /\ ~conn.pending /\ Live /\ mref'.pid \in Processes
                /\ mref'.fut = "run" /\ mref'.life = ctl.life
      BY <1>6, <2>1, RequestMapsStep DEF UserRefreshMaps
    <2> QED BY <1>0, <1>6, <2>2, SessionStep DEF UserRefreshMaps
  <1> QED BY <1>1, <1>2, <1>3, <1>4, <1>5, <1>6 DEF User

(* Coherent is an invariant. *)
LEMMA CoherentAlways == Spec => []Coherent
  <1>1. ASSUME Coherent, Next PROVE Coherent'
    BY <1>1, ConsoleStep, TaskStep, ConnectStep, HealthStep, ReconnectStep, RestoreStep,
       MapRefreshStep, UserStep DEF Next
  <1>2. ASSUME Coherent, UNCHANGED vars PROVE Coherent'
    BY <1>2 DEF vars, Coherent, TypeOK, Grounded, Quiet, Marked, InUse, Live, Cancelled,
                AttemptKeepsPhase, PingsOfThisConnection
  <1>3. Coherent /\ [Next]_vars => Coherent'
    BY <1>1, <1>2
  <1> QED BY InitCoherent, <1>3, PTL DEF Spec

-----------------------------------------------------------------------------
(* The types, for any number of outages: no reconnection, restoration or   *)
(* late task leaves a state the code's structures cannot hold, and a       *)
(* connect attempt is pending exactly while it has a future.               *)
THEOREM Typing == Spec => []TypeOK
  <1>1. Coherent => TypeOK
    BY DEF Coherent
  <1> QED BY <1>1, CoherentAlways, PTL

(* While an attempt that the user has not cancelled is under way, the      *)
(* phase still says which kind of attempt it is when poll_connect looks at *)
(* it.                                                                     *)
THEOREM PhaseKept == Spec => []AttemptKeepsPhase
  <1>1. Coherent => AttemptKeepsPhase
    BY DEF Coherent
  <1> QED BY <1>1, CoherentAlways, PTL

(* The heartbeat counts only pings of the connection in use.               *)
THEOREM PingsKept == Spec => []PingsOfThisConnection
  <1>1. Coherent => PingsOfThisConnection
    BY DEF Coherent
  <1> QED BY <1>1, CoherentAlways, PTL

(* Only poll_connect opens the control socket, for an attempt that was not *)
(* cancelled.                                                              *)
LEMMA OpenedByConnect ==
  ASSUME Coherent, [Next]_vars, ctl'.open PROVE ctl.open \/ ConnectSucceeded
  <1>t. TypeOK /\ ctl \in Sockets
    BY DEF Coherent, TypeOK
  <1>s. ~NoSocket.open
    BY DEF NoSocket
  <1>1. CASE UNCHANGED ctl
    BY <1>1
  <1>2. CASE PingTask
    BY <1>t, <1>2 DEF PingTask, Sockets
  <1>3. CASE ProcessListTask \/ MapsTask \/ UserRefreshProcesses
    BY <1>t, <1>3, CloseOnFailureKeepsLife
       DEF ProcessListTask, MapsTask, UserRefreshProcesses
  <1>4. CASE Reconnected \/ ConnectedFresh
    BY <1>4 DEF Reconnected, ConnectedFresh
  <1>5. CASE HealthLost \/ HealthPing
    BY <1>s, <1>5 DEF HealthLost, HealthPing, BeginReconnect
  <1>6. CASE PollReconnect \/ UserConnect \/ UserDisconnect
    BY <1>s, <1>6 DEF PollReconnect, UserConnect, UserDisconnect, ConnectAgain,
                      ConnectFresh, QuiesceTransport
  <1>7. CASE Sleep \/ Wake \/ Elapse \/ ConnectTask \/ ConnectCancelled \/ ConnectFailed
    BY <1>1, <1>7 DEF Sleep, Wake, Elapse, ConnectTask, ConnectCancelled, ConnectFailed
  <1>8. CASE HealthSend \/ PollRestoreSession \/ PollMapRefresh
    BY <1>1, <1>8 DEF HealthSend, PollRestoreSession, RestoreStart, RestoreList,
                      RestoreMaps, RestoreFailed, PollMapRefresh
  <1>9. CASE UserCancel \/ UserSelect \/ UserRefreshMaps
    BY <1>1, <1>9 DEF UserCancel, UserSelect, UserRefreshMaps
  <1> QED BY <1>1, <1>2, <1>3, <1>4, <1>5, <1>6, <1>7, <1>8, <1>9
          DEF Next, PollConnect, PollSessionHealth, User, vars

(* Once the user has cancelled or disconnected, only the user's connect    *)
(* opens a connection again: an attempt that outlives the cancel is        *)
(* marked, and poll_connect drops what it brings.                          *)
THEOREM CancelFinal == Spec => CancelIsFinal
  <1>1. ASSUME Coherent, [Next]_vars PROVE rc.manual /\ ctl'.open => ctl.open
    <2>1. ConnectSucceeded => ~rc.manual
      BY <1>1 DEF Coherent, Marked, ConnectSucceeded, ConnectReady, Cancelled
    <2> QED BY <1>1, <2>1, OpenedByConnect
  <1>2. Coherent /\ [Next]_vars => [rc.manual /\ ctl'.open => ctl.open]_vars
    BY <1>1
  <1> QED BY <1>2, CoherentAlways, PTL DEF Spec, CancelIsFinal

(* The maps that are shown change to other maps only when poll_map_refresh *)
(* takes a result of the current epoch for the process still selected.     *)
LEMMA MapsFromRefresh ==
  ASSUME Coherent, [Next]_vars, view'.maps \notin {view.maps, Nobody}
  PROVE  /\ mref.current /\ mref.fut = "ok" /\ mref.pid = view.sel
         /\ view'.maps = mref.got
  <1>t. view \in Views
    BY DEF Coherent, TypeOK
  <1>e. EmptyView.maps = Nobody
    BY DEF EmptyView
  <1>1. CASE view'.maps = view.maps \/ view'.maps = Nobody
    BY <1>1
  <1>2. CASE PollMapRefresh
    <2>1. \/ view' = view
          \/ /\ mref.current /\ mref.fut = "ok" /\ mref.pid = view.sel
             /\ view' = [view EXCEPT !.maps = mref.got]
      BY <1>2 DEF PollMapRefresh
    <2>2. view' = [view EXCEPT !.maps = mref.got] => view'.maps = mref.got
      BY ONLY <1>t DEF Views
    <2> QED BY <1>1, <2>1, <2>2
  <1>3. CASE Reconnected \/ UserConnect \/ UserDisconnect
    BY <1>e, <1>1, <1>3 DEF Reconnected, UserConnect, UserDisconnect, ConnectFresh
  <1>4. CASE RestoreList
    <2>1. \/ view' = view
          \/ view' = [view EXCEPT !.procs = Listed]
          \/ view' = [view EXCEPT !.procs = Listed, !.sel = Nobody]
          \/ \E p \in Matches : view' = [view EXCEPT !.procs = Listed, !.sel = p]
      BY <1>4 DEF RestoreList
    <2>2. view'.maps = view.maps
      BY ONLY <1>t, <2>1 DEF Views
    <2> QED BY <1>1, <2>2
  <1>5. CASE UserSelect
    <2>1. view'.maps = Nobody
      BY <1>t, <1>5 DEF UserSelect, Views
    <2> QED BY <1>1, <2>1
  <1>6. CASE UserRefreshProcesses
    <2>1. \/ view' = view
          \/ \E procs : \/ view' = [view EXCEPT !.procs = procs]
                        \/ view' = [EmptyView EXCEPT !.procs = procs]
      BY <1>6 DEF UserRefreshProcesses
    <2>2. view'.maps = view.maps \/ view'.maps = Nobody
      BY ONLY <1>t, <2>1 DEF Views, EmptyView
    <2> QED BY <1>1, <2>2
  <1>7. CASE Sleep \/ Wake \/ Elapse \/ ConnectTask \/ PingTask \/ ProcessListTask \/ MapsTask
    BY <1>1, <1>7 DEF Sleep, Wake, Elapse, ConnectTask, PingTask, ProcessListTask,
                      MapsTask
  <1>8. CASE ConnectCancelled \/ ConnectFailed \/ ConnectedFresh
    BY <1>1, <1>8 DEF ConnectCancelled, ConnectFailed, ConnectedFresh
  <1>9. CASE PollSessionHealth \/ PollReconnect
    BY <1>1, <1>9 DEF PollSessionHealth, HealthLost, HealthPing, HealthSend,
                      PollReconnect, ConnectAgain
  <1>10. CASE RestoreStart \/ RestoreMaps \/ RestoreFailed
    BY <1>1, <1>10 DEF RestoreStart, RestoreMaps, RestoreFailed
  <1>11. CASE UserCancel \/ UserRefreshMaps
    BY <1>1, <1>11 DEF UserCancel, UserRefreshMaps
  <1> QED BY <1>1, <1>2, <1>3, <1>4, <1>5, <1>6, <1>7, <1>8, <1>9, <1>10, <1>11
          DEF Next, PollConnect, PollRestoreSession, User, vars

(* No maps of an earlier connection, nor of another process than the       *)
(* selected one while its PID is of this life, are ever shown as fresh,    *)
(* whatever refreshes were under way when the connection was lost.         *)
THEOREM FreshMaps == Spec => MapsOfThisConnection
  <1>1. ASSUME Coherent, [Next]_vars, view'.maps \notin {view.maps, Nobody}
        PROVE  /\ view'.maps.life = ctl.life
               /\ view.sel.life = ctl.life => view'.maps = view.sel
               /\ rc.phase \in {"Online", "Restoring"}
    <2>1. /\ mref.current /\ mref.fut = "ok" /\ mref.pid = view.sel
          /\ view'.maps = mref.got
      BY <1>1, MapsFromRefresh
    <2>2. /\ Live /\ mref.life = ctl.life /\ mref.got.life = mref.life
          /\ mref.pid.life = mref.life => mref.got = mref.pid
      BY <1>1, <2>1 DEF Coherent, InUse
    <2> QED BY <2>1, <2>2 DEF Live
  <1>2. Coherent /\ [Next]_vars =>
          [view'.maps \notin {view.maps, Nobody} =>
             /\ view'.maps.life = ctl.life
             /\ view.sel.life = ctl.life => view'.maps = view.sel
             /\ rc.phase \in {"Online", "Restoring"}]_vars
    BY <1>1
  <1> QED BY <1>2, CoherentAlways, PTL DEF Spec, MapsOfThisConnection

-----------------------------------------------------------------------------
(* A step that leaves alone what Verified is about preserves it. *)
LEMMA VerifiedElsewhere ==
  ASSUME Verified, rc'.phase = rc.phase, rc'.stale = rc.stale, ctl'.life = ctl.life,
         view'.procs = view.procs, view'.sel = view.sel,
         restore'.stage = restore.stage, restore'.life = restore.life,
         restore'.matched = restore.matched
  PROVE  Verified'
  BY DEF Verified, ListedHere, SelectionOfThisLife

(* So does one that ends in a phase without a connection. *)
LEMMA VerifiedOffline ==
  ASSUME rc'.phase \notin {"Connecting", "Online", "Restoring"} PROVE Verified'
  BY DEF Verified, SelectionOfThisLife

(* Every step preserves Verified. *)
LEMMA VerifiedStep == ASSUME Coherent, Verified, [Next]_vars PROVE Verified'
  <1>0. /\ ctl \in Sockets /\ rc \in ReconnectStates /\ restore \in RestoreStates
        /\ view \in Views /\ TypeOK /\ heart \in Heartbeats
    BY DEF Coherent, TypeOK
  <1>1. CASE UNCHANGED <<rc, ctl, restore, view>>
    BY <1>1, VerifiedElsewhere
  <1>2. CASE Sleep \/ Wake \/ ConnectTask \/ ConnectCancelled \/ HealthSend \/ UserRefreshMaps
    BY <1>1, <1>2 DEF Sleep, Wake, ConnectTask, ConnectCancelled, HealthSend,
                      UserRefreshMaps
  <1>3. CASE Elapse
    <2>1. rc'.phase = rc.phase /\ rc'.stale = rc.stale
      BY <1>0, <1>3 DEF Elapse, ReconnectStates
    <2> QED BY <1>3, <2>1, VerifiedElsewhere DEF Elapse
  <1>4. CASE PingTask
    <2>1. ctl'.life = ctl.life
      BY <1>0, <1>4 DEF PingTask, Sockets
    <2> QED BY <1>4, <2>1, VerifiedElsewhere DEF PingTask
  <1>5. CASE ProcessListTask
    <2>1. ctl'.life = ctl.life
      BY <1>0, <1>5, CloseOnFailureKeepsLife DEF ProcessListTask
    <2>2. \/ \E list : restore' = [restore EXCEPT !.fut = "ok", !.list = list]
          \/ restore' = [restore EXCEPT !.fut = "fail"]
      BY <1>5 DEF ProcessListTask
    <2>3. /\ restore'.stage = restore.stage /\ restore'.life = restore.life
          /\ restore'.matched = restore.matched
      BY ONLY <1>0, <2>2 DEF RestoreStates
    <2> QED BY <1>5, <2>1, <2>3, VerifiedElsewhere DEF ProcessListTask
  <1>6. CASE MapsTask
    <2>1. ctl'.life = ctl.life
      BY <1>0, <1>6, CloseOnFailureKeepsLife DEF MapsTask
    <2> QED BY <1>6, <2>1, VerifiedElsewhere DEF MapsTask
  <1>7. CASE ConnectFailed
    <2>1. CASE rc' = [rc EXCEPT !.phase = "WaitingForWake", !.due = FALSE]
      <3>1. rc'.phase = "WaitingForWake"
        BY ONLY <1>0, <2>1 DEF ReconnectStates
      <3> QED BY <3>1, VerifiedOffline
    <2> QED BY <1>1, <1>7, <2>1 DEF ConnectFailed
  <1>8. CASE Reconnected
    <2>1. rc'.phase = "Restoring" /\ restore'.stage = "Idle"
      BY <1>0, <1>8 DEF Reconnected, ReconnectStates, NoRestore
    <2> QED BY <2>1 DEF Verified, SelectionOfThisLife
  <1>9. CASE ConnectedFresh
    <2>1. rc'.phase = "Online" /\ view' = view
      BY <1>0, <1>9 DEF ConnectedFresh, ReconnectStates
    <2>2. view.procs = {} /\ view.sel = Nobody
      BY <1>9 DEF ConnectedFresh, ConnectSucceeded, ConnectReady, Coherent,
                  AttemptKeepsPhase, Verified
    <2> QED BY <2>1, <2>2 DEF Verified, ListedHere, SelectionOfThisLife
  <1>10. CASE \E h : BeginReconnect(h) /\ UNCHANGED view
    <2>1. CASE rc.manual
      BY <1>1, <1>10, <2>1 DEF BeginReconnect
    <2>2. CASE ~rc.manual
      <3>1. rc'.phase = "WaitingForWake"
        BY <1>0, <1>10, <2>2 DEF BeginReconnect, ReconnectStates
      <3> QED BY <3>1, VerifiedOffline
    <2> QED BY <2>1, <2>2
  <1>11. CASE HealthLost \/ HealthPing
    BY <1>1, <1>10, <1>11 DEF HealthLost, HealthPing
  <1>12. CASE PollReconnect \/ UserCancel \/ UserDisconnect
    <2>1. rc'.phase \in {"Reconnecting", "Disconnected", "ConnectionLost"}
      BY <1>0, <1>12 DEF PollReconnect, ConnectAgain, UserCancel, UserDisconnect,
                         Quiesced, ReconnectStates
    <2> QED BY <2>1, VerifiedOffline
  <1>13. CASE UserConnect
    <2>1. CASE conn.pending
      BY <1>1, <1>13, <2>1 DEF UserConnect, ConnectFresh
    <2>2. CASE ~conn.pending
      <3>1. rc'.phase = "Connecting" /\ view' = EmptyView
        BY <1>0, <1>13, <2>2 DEF UserConnect, ConnectFresh, Quiesced, ReconnectStates
      <3> QED BY <3>1 DEF Verified, SelectionOfThisLife, EmptyView
    <2> QED BY <2>1, <2>2
  <1>14. CASE RestoreStart
    <2>1. /\ UNCHANGED <<rc, ctl, view>> /\ rc.phase = "Restoring"
          /\ \/ restore' = restore
             \/ restore' = [NoRestore EXCEPT !.stage = "RefreshingProcesses", !.fut = "run",
                                             !.current = TRUE, !.life = ctl.life]
      BY <1>14 DEF RestoreStart, Restores
    <2>2. \/ restore' = restore
          \/ restore'.stage = "RefreshingProcesses" /\ restore'.life = ctl.life
      BY ONLY <2>1 DEF NoRestore
    <2>3. CASE restore' = restore
      BY <1>1, <2>1, <2>3
    <2>4. CASE restore'.stage = "RefreshingProcesses" /\ restore'.life = ctl.life
      BY <2>1, <2>4 DEF Verified, SelectionOfThisLife
    <2> QED BY <2>2, <2>3, <2>4
  <1>15. CASE RestoreList
    <2>1. /\ ctl' = ctl /\ rc.phase = "Restoring" /\ restore.life = ctl.life
      BY <1>15 DEF RestoreList, Restores, Verified
    <2>2. \A p \in Listed : p.life = ctl.life
      BY <2>1 DEF Listed
    <2>3. CASE \E s \in {"Idle", "Failed"} :
                 restore' = [NoRestore EXCEPT !.stage = s] /\ rc' = rc
      <3>1. restore'.stage \in {"Idle", "Failed"} /\ rc'.phase = "Restoring"
        BY <2>1, <2>3 DEF NoRestore
      <3> QED BY <3>1 DEF Verified, SelectionOfThisLife
    <2>4. CASE rc' = [rc EXCEPT !.phase = "Online", !.stale = TRUE, !.target = NoName]
      <3>1. rc'.phase = "Online" /\ rc'.stale
        BY ONLY <1>0, <2>4 DEF ReconnectStates
      <3> QED BY <3>1 DEF Verified, SelectionOfThisLife
    <2>5. CASE /\ rc' = rc
               /\ \E p \in Listed :
                    /\ view' = [view EXCEPT !.procs = Listed, !.sel = p]
                    /\ restore' = [NoRestore EXCEPT !.stage = "RefreshingMaps", !.matched = p]
      <3>1. PICK p \in Listed :
              /\ view' = [view EXCEPT !.procs = Listed, !.sel = p]
              /\ restore' = [NoRestore EXCEPT !.stage = "RefreshingMaps", !.matched = p]
        BY <2>5
      <3>2. /\ view'.procs = Listed /\ restore'.stage = "RefreshingMaps"
            /\ restore'.matched = p
        BY ONLY <1>0, <3>1 DEF Views, NoRestore
      <3> QED BY <2>1, <2>2, <2>5, <3>2 DEF Verified, ListedHere, SelectionOfThisLife
    <2> QED BY <1>15, <2>3, <2>4, <2>5 DEF RestoreList, Matches
  <1>16. CASE RestoreMaps
    <2>1. UNCHANGED <<ctl, view>> /\ rc.phase = "Restoring"
          /\ restore.stage = "RefreshingMaps"
      BY <1>16 DEF RestoreMaps, Restores
    <2>2. CASE Restorable
      <3>1. rc'.phase = "Online" /\ restore'.stage = "Idle" /\ view.sel = restore.matched
        <4>1. rc' = [rc EXCEPT !.phase = "Online", !.stale = FALSE, !.target = NoName]
          BY <1>16, <2>2 DEF RestoreMaps
        <4>2. restore' = NoRestore /\ view.sel = restore.matched
          BY <1>16, <2>2 DEF RestoreMaps, Restorable
        <4> QED BY ONLY <1>0, <4>1, <4>2 DEF ReconnectStates, NoRestore
      <3> QED BY <2>1, <3>1 DEF Verified, ListedHere, SelectionOfThisLife
    <2>3. CASE ~Restorable
      <3>1. rc' = rc /\ restore'.stage = "Failed"
        BY <1>16, <2>3 DEF RestoreMaps, NoRestore
      <3> QED BY <2>1, <3>1 DEF Verified, SelectionOfThisLife
    <2> QED BY <2>2, <2>3
  <1>17. CASE RestoreFailed
    <2>1. rc'.phase = "Online" /\ rc'.stale
      BY <1>0, <1>17 DEF RestoreFailed, ReconnectStates
    <2> QED BY <2>1 DEF Verified, SelectionOfThisLife
  <1>18. CASE PollMapRefresh
    <2>1. view'.procs = view.procs /\ view'.sel = view.sel
      BY <1>0, <1>18 DEF PollMapRefresh, Views
    <2> QED BY <1>18, <2>1, VerifiedElsewhere DEF PollMapRefresh
  <1>19. CASE UserSelect
    <2>1. PICK p \in view.procs : view' = [view EXCEPT !.sel = p, !.maps = Nobody]
      BY <1>19 DEF UserSelect
    <2>2. view'.procs = view.procs /\ view'.sel = p
      BY ONLY <1>0, <2>1 DEF Views
    <2>3. UNCHANGED <<rc, ctl, restore>>
      BY <1>19 DEF UserSelect
    <2> QED BY <2>2, <2>3 DEF Verified, ListedHere, SelectionOfThisLife
  <1>20. CASE UserRefreshProcesses
    <2>1. UNCHANGED <<rc, restore>> /\ ctl'.life = ctl.life
      BY <1>0, <1>20, CloseOnFailureKeepsLife DEF UserRefreshProcesses
    <2>2. CASE UNCHANGED view
      BY <2>1, <2>2, VerifiedElsewhere
    <2>3. CASE /\ ~freed
               /\ \E names : LET procs == [life : {ctl.life}, name : names] IN
                    \/ view.sel \in procs /\ view' = [view EXCEPT !.procs = procs]
                    \/ view' = [EmptyView EXCEPT !.procs = procs]
                    \/ /\ view.sel.life \notin {0, ctl.life}
                       /\ view' = [view EXCEPT !.procs = procs]
      <3>1. PICK names : LET procs == [life : {ctl.life}, name : names] IN
                    \/ view.sel \in procs /\ view' = [view EXCEPT !.procs = procs]
                    \/ view' = [EmptyView EXCEPT !.procs = procs]
                    \/ /\ view.sel.life \notin {0, ctl.life}
                       /\ view' = [view EXCEPT !.procs = procs]
        BY <2>3
      <3> DEFINE procs == [life : {ctl.life}, name : names]
      <3>2. \A p \in procs : p.life = ctl.life
        OBVIOUS
      <3> HIDE DEF procs
      <3>3. /\ view'.procs = procs
            /\ \/ view'.sel = view.sel /\ (view.sel \in procs \/ view.sel.life \notin {0, ctl.life})
               \/ view'.sel = Nobody
        <4>1. \/ view.sel \in procs /\ view' = [view EXCEPT !.procs = procs]
              \/ view' = [EmptyView EXCEPT !.procs = procs]
              \/ /\ view.sel.life \notin {0, ctl.life}
                 /\ view' = [view EXCEPT !.procs = procs]
          BY <3>1 DEF procs
        <4> QED BY ONLY <1>0, <4>1 DEF Views, EmptyView
      <3>4. ListedHere'
        BY <2>1, <3>2, <3>3 DEF ListedHere
      <3>5. Live
        <4>1. ctl.open
          BY <1>20, <2>3 DEF UserRefreshProcesses, ConnectedReads
        <4> QED BY <4>1 DEF Coherent, InUse
      <3>6. SelectionOfThisLife'
        <4>1. Nobody.life = 0
          BY DEF Nobody
        <4> QED BY <2>1, <3>2, <3>3, <4>1 DEF Verified, SelectionOfThisLife
      <3> QED BY <2>1, <3>4, <3>5, <3>6 DEF Verified, Live
    <2> QED BY <1>20, <2>2, <2>3 DEF UserRefreshProcesses
  <1> QED BY <1>1, <1>2, <1>3, <1>4, <1>5, <1>6, <1>7, <1>8, <1>9, <1>11, <1>12, <1>13,
             <1>14, <1>15, <1>16, <1>17, <1>18, <1>19, <1>20
          DEF Next, PollConnect, PollSessionHealth, PollRestoreSession, User, vars

(* Between a reconnection and the end of a restoration that verified the   *)
(* target, or a fresh connection, the session counts as stale: while it    *)
(* does not, the selected process is one of the connection in use.         *)
THEOREM SelectionIsFresh == Spec => []SelectionOfThisLife
  <1>1. Init => Verified
    BY DEF Init, Verified, SelectionOfThisLife
  <1>2. Coherent /\ Verified /\ [Next]_vars => Verified'
    BY VerifiedStep
  <1>3. Verified => SelectionOfThisLife
    BY DEF Verified
  <1> QED BY <1>1, <1>2, <1>3, CoherentAlways, PTL DEF Spec

-----------------------------------------------------------------------------
(* A write of the locked entries does to the connection what a request of  *)
(* the user over the control client may do.                                *)
LEMMA LockStep == ASSUME LockNext PROVE [Next]_vars
  <1>1. CASE UserLock \/ UserUnlock
    BY <1>1 DEF UserLock, UserUnlock
  <1>2. CASE ApplyLockedCheats
    <2>1. CASE freed \/ Works(ctl.life)
      BY <1>2, <2>1 DEF ApplyLockedCheats, vars
    <2>2. CASE ~freed /\ ~Works(ctl.life)
      <3>1. UserRefreshProcesses
        BY <1>2, <2>2 DEF ApplyLockedCheats, LocksWrite, UserRefreshProcesses
      <3> QED BY <3>1 DEF Next, User
    <2> QED BY <2>1, <2>2
  <1> QED BY <1>1, <1>2 DEF LockNext

(* The frontend with trainer locks implements the one without: locks, the  *)
(* writes that fail on a dead socket and close it included, disturb no     *)
(* connection, restoration or refresh, so that every theorem above holds   *)
(* with them.                                                              *)
THEOREM LocksLeaveSessionAlone == LockSpec => Spec
  <1>1. LockInit => Init
    BY DEF LockInit
  <1>2. [LockNext]_lvars => [Next]_vars
    BY LockStep DEF lvars, vars
  <1> QED BY <1>1, <1>2, PTL DEF LockSpec, Spec
=============================================================================
