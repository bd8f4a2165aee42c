--------------------------- MODULE ScanJobsProofs ---------------------------
(***************************************************************************)
(* Tracked scans, for any number of handlers, jobs, slots and threads and  *)
(* any maps: the slot of a running scan stays its own, its counters are    *)
(* true, and an answer OK that is not cancelled covers every map once.     *)
(*                                                                         *)
(* A handler, its workers and its slot are spoken of as values (a, ws and  *)
(* sl), so that what a step does to them is a lemma without primes.        *)
(***************************************************************************)
EXTENDS PartitionProofs

(* A handler a runs a scan; it has made its workers. *)
Live(a) == a.pc \notin {"idle", "send"}
Launched == {"spawn", "inline", "last", "join", "check"}

(* Its worker w has not been started; it runs on the handler's own thread. *)
Asleep(a, w) ==
  \/ a.pc = "spawn" /\ (w = 1 \/ w >= a.next)
  \/ a.pc = "inline" /\ (w = 1 \/ w > a.next)
OnCaller(a, w) == (a.pc = "inline" /\ w = a.next) \/ (a.pc = "last" /\ w = 1)

(* The maps of its partition that a worker w scans before the n-th map. *)
Reached(a, w, n) ==
  {x \in Effective(a.maps) : Parts[a.job][w].first <= x /\ x < n}
Share(a, w) == Reached(a, w, Parts[a.job][w].end)

(* How far the handler is: which job it runs, with how many workers, and   *)
(* where its loops over them stand.                                        *)
StageInv(a) ==
  /\ a.pc # "idle" => a.job \in Jobs /\ a.slot \in Slots
  /\ a.pc \in {"idle", "prepare"} => a.used = 0
  /\ a.pc \in Launched => a.used > 0
  /\ a.pc \in {"finish", "send"} /\ a.status = "OK" => a.used > 0
  /\ a.used > 0 => a.maps = MapLists[a.job] /\ a.used = Len(Parts[a.job])
  /\ a.pc \in {"spawn", "join"} => a.next \in 2..a.used + 1
  /\ a.pc = "inline" => a.next \in 2..a.used

(* Which workers are under way at that stage. *)
PhaseInv(a, w, r) ==
  /\ r.pc = "none" <=> Asleep(a, w)
  /\ r.threaded => w # 1 /\ r.pc # "none"
  /\ ~r.threaded => r.pc \in {"none", "done"} \/ OnCaller(a, w)
  /\ a.pc = "join" /\ w < a.next => r.pc = "done"
  /\ a.pc \in {"check", "finish", "send"} => r.pc = "done"

(* What a worker has scanned: the maps of its partition before the one it  *)
(* is at.                                                                  *)
ScannedInv(a, w, r) ==
  /\ r.end = Parts[a.job][w].end /\ r.i >= Parts[a.job][w].first
  /\ r.scanned \subseteq Share(a, w)
  /\ r.pc \in {"none", "start", "scan"} => r.scanned = Reached(a, w, r.i)
  /\ r.pc = "count" => r.i \in Share(a, w) /\ r.scanned = Reached(a, w, r.i + 1)

(* A worker that ends early was told to, or reports an error. *)
EndInv(a, w, r, cancel) ==
  Live(a) /\ r.pc \in {"end", "done"} /\ r.status = "OK" /\ ~cancel
    => r.scanned = Share(a, w)

WorkersInv(a, ws, sl) ==
  /\ \A w \in Workers : w > a.used => ws[w] = NoWorker
  /\ \A w \in 1..a.used : /\ PhaseInv(a, w, ws[w])
                          /\ ScannedInv(a, w, ws[w])
                          /\ EndInv(a, w, ws[w], sl.cancel)

(* What the answer says. *)
AnswerInv(a, ws) ==
  /\ a.pc = "check" /\ a.status = "OK" => \A w \in 1..a.used : ws[w].status = "OK"
  /\ a.pc \in {"finish", "send"} /\ a.status = "OK" /\ ~a.cancelled
       => \A w \in 1..a.used : ws[w].scanned = Share(a, w)

(* The maps that a worker has scanned and that are in maps_done, unless    *)
(* the job was cancelled in between.                                       *)
CountedBy(r) == IF r.pc = "count" THEN r.scanned \ {r.i} ELSE r.scanned
Counted(ws) == UNION {CountedBy(ws[w]) : w \in Workers}
BusyOf(ws) == {w \in Workers : ws[w].pc \in {"scan", "count", "end"}}

(* The counters of the slot. *)
CounterInv(a, ws, sl) ==
  Live(a) =>
    /\ sl.active = Cardinality(BusyOf(ws))
    /\ sl.maps_done <= Cardinality(Counted(ws))
    /\ a.used > 0 => /\ sl.workers_total = a.used
                     /\ sl.maps_total = Cardinality(Effective(a.maps))

HandlerInv(a, ws, sl) ==
  StageInv(a) /\ WorkersInv(a, ws, sl) /\ AnswerInv(a, ws) /\ CounterInv(a, ws, sl)

(* The inductive invariant. *)
ScanInv ==
  /\ SlotKept
  /\ \A h \in Handlers : HandlerInv(handler[h], worker[h], slot[handler[h].slot])

-----------------------------------------------------------------------------
(* Constants and records *)

LEMMA PartsFacts ==
  ASSUME NEW j \in Jobs
  PROVE  /\ MapLists[j] \in Seq(Nat)
         /\ Len(Parts[j]) \in 1..Threads
         /\ \A w \in 1..Len(Parts[j]) : /\ Parts[j][w].first \in 1..Len(MapLists[j]) + 1
                                        /\ Parts[j][w].end \in 1..Len(MapLists[j]) + 1
         /\ \A i \in Effective(MapLists[j]) :
              \E k \in 1..Len(Parts[j]) : \A m \in 1..Len(Parts[j]) :
                i \in Parts[j][m].first..Parts[j][m].end - 1 <=> m = k
<1>1. MapLists[j] \in Seq(Nat)
  BY ScanAssumption
<1>2. Parts[j] = Partition(MapLists[j])
  BY DEF Parts
<1>3. PartitionExact(MapLists[j])
  BY <1>1, PartitionIsExact
<1> QED
  BY <1>1, <1>2, <1>3 DEF PartitionExact

LEMMA WorkersFacts ==
  /\ Threads \in Nat /\ Threads # 0
  /\ Workers = 1..Threads /\ Workers \subseteq Nat
  /\ 1 \in Workers /\ IsFiniteSet(Workers)
<1>1. Threads \in Nat /\ Threads # 0
  BY ScanAssumption
<1>2. IsFiniteSet(1..Threads)
  BY <1>1, FS_Interval
<1> QED
  BY <1>1, <1>2 DEF Workers

LEMMA NoWorkerFacts ==
  /\ NoWorker \in WorkerRecord
  /\ NoWorker.pc = "none" /\ NoWorker.scanned = {} /\ NoWorker.i = 0 /\ NoWorker.end = 0
  /\ NoWorker.status = "OK" /\ NoWorker.threaded = FALSE
BY DEF NoWorker, WorkerRecord

(* The fields of a worker. *)
LEMMA WorkerFields ==
  ASSUME NEW r \in WorkerRecord
  PROVE  /\ r.pc \in {"none", "start", "scan", "count", "end", "done"}
         /\ r.i \in Nat /\ r.end \in Nat /\ r.scanned \subseteq Nat
         /\ r.status \in {"OK", "ERROR"} /\ r.threaded \in BOOLEAN
BY DEF WorkerRecord

LEMMA HandlerFields ==
  ASSUME NEW a \in HandlerRecord
  PROVE  /\ a.pc \in {"idle", "prepare", "spawn", "inline", "last", "join", "check",
                      "finish", "send"}
         /\ a.job \in Jobs \cup {NoJob} /\ a.slot \in Slots \cup {NoSlot}
         /\ a.used \in Nat /\ a.used <= Threads /\ a.next \in Nat /\ a.next <= Threads + 1
         /\ a.status \in {"OK", "ERROR"} /\ a.cancelled \in BOOLEAN
         /\ 1..a.used \subseteq Workers
<1>1. /\ a.pc \in {"idle", "prepare", "spawn", "inline", "last", "join", "check",
                      "finish", "send"}
      /\ a.job \in Jobs \cup {NoJob} /\ a.slot \in Slots \cup {NoSlot}
      /\ a.used \in 0..Threads /\ a.next \in 0..Threads + 1
      /\ a.status \in {"OK", "ERROR"} /\ a.cancelled \in BOOLEAN
  BY DEF HandlerRecord
<1> QED
  BY <1>1, WorkersFacts

LEMMA SlotFields ==
  ASSUME NEW sl \in SlotRecord
  PROVE  /\ sl.job \in Jobs \cup {NoJob}
         /\ sl.state \in {"PENDING", "RUNNING"} \cup Finished
         /\ sl.cancel \in BOOLEAN
         /\ sl.maps_done \in Nat /\ sl.maps_total \in Nat /\ sl.active \in Nat
         /\ sl.workers_total \in Nat
BY DEF SlotRecord

-----------------------------------------------------------------------------
(* What a step leaves alone *)

(* Another handler's slot, or a cancel. *)
LEMMA SlotFrame ==
  ASSUME NEW a, NEW ws, NEW sl, NEW tl, HandlerInv(a, ws, sl),
         Live(a) => /\ sl.cancel => tl.cancel
                    /\ tl.active = sl.active /\ tl.maps_done = sl.maps_done
                    /\ tl.workers_total = sl.workers_total
                    /\ tl.maps_total = sl.maps_total
  PROVE  HandlerInv(a, ws, tl)
<1>1. StageInv(a) /\ AnswerInv(a, ws) /\ WorkersInv(a, ws, sl) /\ CounterInv(a, ws, sl)
  BY DEF HandlerInv
<1>2. CounterInv(a, ws, tl)
  BY <1>1 DEF CounterInv
<1>3. \A w \in 1..a.used : EndInv(a, w, ws[w], tl.cancel)
  BY <1>1 DEF WorkersInv, EndInv
<1>4. WorkersInv(a, ws, tl)
  BY <1>1, <1>3 DEF WorkersInv
<1> QED
  BY <1>1, <1>2, <1>4 DEF HandlerInv

(* A step of the handler that at most starts workers. *)
LEMMA HandlerMoves ==
  ASSUME NEW a \in HandlerRecord, NEW b \in HandlerRecord, NEW sl,
         NEW ws \in [Workers -> WorkerRecord], NEW us \in [Workers -> WorkerRecord],
         HandlerInv(a, ws, sl), Live(a), Live(b),
         b.job = a.job, b.maps = a.maps, b.used = a.used,
         \A w \in Workers :
           /\ us[w].i = ws[w].i /\ us[w].end = ws[w].end
           /\ us[w].scanned = ws[w].scanned /\ us[w].status = ws[w].status
           /\ us[w].pc = ws[w].pc \/ (ws[w].pc = "none" /\ us[w].pc = "start"),
         \A w \in Workers : w > a.used => us[w] = ws[w],
         StageInv(b), \A w \in 1..b.used : PhaseInv(b, w, us[w]), AnswerInv(b, us)
  PROVE  HandlerInv(b, us, sl)
<1>1. StageInv(a) /\ WorkersInv(a, ws, sl) /\ CounterInv(a, ws, sl)
  BY DEF HandlerInv
<1>2. \A w, n : Reached(b, w, n) = Reached(a, w, n)
  BY DEF Reached
<1>3. \A w : Share(b, w) = Share(a, w)
  BY <1>2 DEF Share
<1>4. 1..a.used \subseteq Workers
  BY HandlerFields
<1>5. ASSUME NEW w \in 1..b.used
      PROVE  ScannedInv(b, w, us[w]) /\ EndInv(b, w, us[w], sl.cancel)
  <2>1. ScannedInv(a, w, ws[w]) /\ EndInv(a, w, ws[w], sl.cancel) /\ w \in Workers
    BY <1>1, <1>4 DEF WorkersInv
  <2>2. PICK r : r = ws[w]
    OBVIOUS
  <2>3. PICK q : q = us[w]
    OBVIOUS
  <2>4. q.i = r.i /\ q.end = r.end /\ q.scanned = r.scanned /\ q.status = r.status
        /\ (q.pc = r.pc \/ (r.pc = "none" /\ q.pc = "start"))
    BY <2>1, <2>2, <2>3
  <2>5. ScannedInv(b, w, q)
    BY <2>1, <2>2, <2>4, <1>2, <1>3 DEF ScannedInv
  <2>6. EndInv(b, w, q, sl.cancel)
    BY <2>1, <2>2, <2>4, <1>3 DEF EndInv
  <2> QED
    BY <2>3, <2>5, <2>6
<1>6. WorkersInv(b, us, sl)
  BY <1>1, <1>5 DEF WorkersInv
<1>7. BusyOf(us) = BusyOf(ws)
  BY DEF BusyOf
<1>8. ASSUME NEW w \in Workers PROVE CountedBy(us[w]) = CountedBy(ws[w])
  BY DEF CountedBy
<1>9. Counted(us) = Counted(ws)
  BY <1>8 DEF Counted
<1>10. CounterInv(b, us, sl)
  BY <1>1, <1>7, <1>9 DEF CounterInv
<1> QED
  BY <1>6, <1>10 DEF HandlerInv

(* A step of a worker. *)
LEMMA WorkerMoves ==
  ASSUME NEW a \in HandlerRecord, NEW sl, NEW tl,
         NEW ws \in [Workers -> WorkerRecord], NEW us \in [Workers -> WorkerRecord],
         HandlerInv(a, ws, sl), Live(a), NEW w \in 1..a.used,
         a.pc \notin {"check", "finish"},
         \A v \in Workers : v # w => us[v] = ws[v],
         tl.cancel = sl.cancel,
         PhaseInv(a, w, us[w]), ScannedInv(a, w, us[w]), EndInv(a, w, us[w], sl.cancel),
         CounterInv(a, us, tl)
  PROVE  HandlerInv(a, us, tl)
<1>1. StageInv(a) /\ WorkersInv(a, ws, sl)
  BY DEF HandlerInv
<1>2. 1..a.used \subseteq Workers /\ a.used \in Nat /\ Workers \subseteq Nat
  BY HandlerFields, WorkersFacts
<1>3. \A v \in Workers : v > a.used => us[v] = NoWorker
  BY <1>1, <1>2 DEF WorkersInv
<1>4. ASSUME NEW v \in 1..a.used
      PROVE  PhaseInv(a, v, us[v]) /\ ScannedInv(a, v, us[v])
             /\ EndInv(a, v, us[v], tl.cancel)
  <2>1. CASE v = w
    BY <2>1
  <2>2. CASE v # w
    <3>1. us[v] = ws[v]
      BY <2>2, <1>2
    <3>2. PhaseInv(a, v, ws[v]) /\ ScannedInv(a, v, ws[v]) /\ EndInv(a, v, ws[v], sl.cancel)
      BY <1>1 DEF WorkersInv
    <3> QED
      BY <3>1, <3>2
  <2> QED
    BY <2>1, <2>2
<1>5. WorkersInv(a, us, tl)
  BY <1>3, <1>4 DEF WorkersInv
<1>6. AnswerInv(a, us)
  BY DEF AnswerInv, Live
<1> QED
  BY <1>1, <1>5, <1>6 DEF HandlerInv

-----------------------------------------------------------------------------
(* Workers under way *)

(* A worker that is under way belongs to a scan that runs. *)
LEMMA UnderWay ==
  ASSUME NEW a \in HandlerRecord, NEW ws \in [Workers -> WorkerRecord], NEW sl,
         HandlerInv(a, ws, sl), NEW w \in Workers, ws[w].pc \notin {"none", "done"}
  PROVE  /\ w \in 1..a.used /\ Live(a) /\ a.pc \in {"spawn", "inline", "last", "join"}
         /\ a.job \in Jobs /\ a.slot \in Slots
         /\ a.maps = MapLists[a.job] /\ a.used = Len(Parts[a.job])
<1>1. StageInv(a) /\ WorkersInv(a, ws, sl)
  BY DEF HandlerInv
<1>2. a.used \in Nat /\ Workers \subseteq Nat /\ Workers = 1..Threads /\ Threads \in Nat
  BY HandlerFields, WorkersFacts
<1>3. w <= a.used
  <2>1. ~(w > a.used)
    BY <1>1, NoWorkerFacts DEF WorkersInv
  <2> QED
    BY <2>1, <1>2
<1>4. w \in 1..a.used /\ a.used > 0
  BY <1>2, <1>3
<1>5. a.pc \notin {"check", "finish", "send"}
  BY <1>1, <1>4 DEF WorkersInv, PhaseInv
<1>6. a.pc \notin {"idle", "prepare"}
  BY <1>1, <1>4 DEF StageInv
<1>7. a.pc \in {"spawn", "inline", "last", "join"}
  BY <1>5, <1>6, HandlerFields
<1> QED
  BY <1>1, <1>4, <1>7 DEF StageInv, Live

LEMMA PhaseGoesOn ==
  ASSUME NEW a, NEW w, NEW r \in WorkerRecord, NEW q \in WorkerRecord, PhaseInv(a, w, r),
         r.pc \notin {"none", "done"}, q.pc # "none", q.threaded = r.threaded
  PROVE  PhaseInv(a, w, q)
BY DEF PhaseInv

LEMMA SharesFinite ==
  ASSUME NEW a \in HandlerRecord, NEW ws \in [Workers -> WorkerRecord], NEW sl,
         HandlerInv(a, ws, sl), a.used > 0, a.pc # "idle"
  PROVE  /\ Counted(ws) \subseteq Effective(a.maps)
         /\ UNION {ws[w].scanned : w \in Workers} \subseteq Effective(a.maps)
         /\ IsFiniteSet(Effective(a.maps)) /\ Cardinality(Effective(a.maps)) \in Nat
<1>1. StageInv(a) /\ WorkersInv(a, ws, sl)
  BY DEF HandlerInv
<1>2. a.used \in Nat /\ Workers \subseteq Nat
  BY HandlerFields, WorkersFacts
<1>3. ASSUME NEW w \in Workers PROVE ws[w].scanned \subseteq Effective(a.maps)
  <2>1. CASE w > a.used
    BY <2>1, <1>1, NoWorkerFacts DEF WorkersInv
  <2>2. CASE ~(w > a.used)
    <3>1. w \in 1..a.used
      BY <2>2, <1>2, WorkersFacts
    <3>2. ws[w].scanned \subseteq Share(a, w)
      BY <3>1, <1>1 DEF WorkersInv, ScannedInv
    <3> QED
      BY <3>2 DEF Share, Reached
  <2> QED
    BY <2>1, <2>2
<1>4. \A w \in Workers : CountedBy(ws[w]) \subseteq Effective(a.maps)
  BY <1>3 DEF CountedBy
<1>5. a.maps \in Seq(Nat)
  BY <1>1, PartsFacts DEF StageInv
<1> QED
  BY <1>3, <1>4, <1>5, EffectiveFinite DEF Counted

LEMMA BusyFinite ==
  ASSUME NEW ws
  PROVE  IsFiniteSet(BusyOf(ws)) /\ Cardinality(BusyOf(ws)) \in Nat
<1>1. BusyOf(ws) \subseteq Workers
  BY DEF BusyOf
<1> QED
  BY <1>1, WorkersFacts, FS_Subset, FS_CardinalityType

(* The maps counted only grow when those of the worker that moves do. *)
LEMMA CountedGrows ==
  ASSUME NEW ws, NEW us, NEW w \in Workers, CountedBy(ws[w]) \subseteq CountedBy(us[w]),
         \A v \in Workers : v # w => us[v] = ws[v]
  PROVE  Counted(ws) \subseteq Counted(us)
<1>1. \A v \in Workers : CountedBy(ws[v]) \subseteq CountedBy(us[v])
  OBVIOUS
<1> QED
  BY <1>1 DEF Counted

LEMMA CountKept ==
  ASSUME NEW S, NEW T, IsFiniteSet(T), S \subseteq T, NEW n \in Nat, n <= Cardinality(S)
  PROVE  n <= Cardinality(T)
<1>1. IsFiniteSet(S) /\ Cardinality(S) <= Cardinality(T)
  BY FS_Subset
<1>2. Cardinality(S) \in Nat /\ Cardinality(T) \in Nat
  BY <1>1, FS_CardinalityType
<1> QED
  BY <1>1, <1>2

(* The counters after a step of a worker. *)
LEMMA CounterMoves ==
  ASSUME NEW a \in HandlerRecord, NEW sl \in SlotRecord, NEW tl \in SlotRecord,
         NEW ws \in [Workers -> WorkerRecord], NEW us \in [Workers -> WorkerRecord],
         HandlerInv(a, ws, sl), NEW w \in Workers, ws[w].pc \notin {"none", "done"},
         \A v \in Workers : v # w => us[v] = ws[v],
         us[w].scanned \subseteq Effective(a.maps),
         tl.active = Cardinality(BusyOf(us)),
         tl.workers_total = sl.workers_total, tl.maps_total = sl.maps_total,
         CountedBy(ws[w]) \subseteq CountedBy(us[w]),
         \/ tl.maps_done = sl.maps_done
         \/ /\ tl.maps_done = sl.maps_done + 1
            /\ \E x \in CountedBy(us[w]) : x \notin Counted(ws)
  PROVE  CounterInv(a, us, tl)
<1>1. Live(a) /\ w \in 1..a.used /\ a.used > 0 /\ a.pc # "idle" /\ a.used \in Nat
  BY UnderWay, HandlerFields DEF Live
<1>2. CounterInv(a, ws, sl)
  BY DEF HandlerInv
<1>3. /\ Counted(ws) \subseteq Effective(a.maps) /\ IsFiniteSet(Effective(a.maps))
      /\ \A v \in Workers : ws[v].scanned \subseteq Effective(a.maps)
  BY <1>1, SharesFinite
<1>4. Counted(us) \subseteq Effective(a.maps)
  <2>1. \A v \in Workers : us[v].scanned \subseteq Effective(a.maps)
    BY <1>3
  <2> QED
    BY <2>1 DEF Counted, CountedBy
<1>5. IsFiniteSet(Counted(us)) /\ IsFiniteSet(Counted(ws))
  BY <1>3, <1>4, FS_Subset
<1>6. Counted(ws) \subseteq Counted(us)
  BY CountedGrows
<1>7. sl.maps_done <= Cardinality(Counted(ws)) /\ sl.maps_done \in Nat
  BY <1>1, <1>2, SlotFields DEF CounterInv
<1>8. tl.maps_done <= Cardinality(Counted(us))
  <2>1. CASE tl.maps_done = sl.maps_done
    BY <2>1, <1>5, <1>6, <1>7, CountKept
  <2>2. CASE /\ tl.maps_done = sl.maps_done + 1
             /\ \E x \in CountedBy(us[w]) : x \notin Counted(ws)
    <3>1. PICK x \in CountedBy(us[w]) : x \notin Counted(ws)
      BY <2>2
    <3>2. Counted(ws) \cup {x} \subseteq Counted(us)
      BY <1>6 DEF Counted
    <3>3. Cardinality(Counted(ws) \cup {x}) = Cardinality(Counted(ws)) + 1
      BY <3>1, <1>5, FS_AddElement
    <3>4. Cardinality(Counted(ws)) \in Nat
      BY <1>5, FS_CardinalityType
    <3>5. sl.maps_done + 1 \in Nat /\ sl.maps_done + 1 <= Cardinality(Counted(ws) \cup {x})
      BY <3>3, <3>4, <1>7
    <3>6. sl.maps_done + 1 <= Cardinality(Counted(us))
      BY ONLY <3>2, <3>5, <1>5, CountKept
    <3> QED
      BY <3>6, <2>2
  <2> QED
    BY <2>1, <2>2
<1> QED
  BY <1>1, <1>2, <1>8 DEF CounterInv

-----------------------------------------------------------------------------
(* parallel_worker_thread *)

LEMMA StartKeeps ==
  ASSUME NEW a \in HandlerRecord, NEW sl \in SlotRecord, NEW tl \in SlotRecord,
         NEW ws \in [Workers -> WorkerRecord], NEW us \in [Workers -> WorkerRecord],
         HandlerInv(a, ws, sl), NEW w \in Workers, ws[w].pc = "start",
         \A v \in Workers : v # w => us[v] = ws[v],
         us[w].threaded = ws[w].threaded, us[w].i = ws[w].i, us[w].end = ws[w].end,
         us[w].scanned = ws[w].scanned,
         us[w].pc = "scan" \/ (us[w].pc = "end" /\ us[w].status = "ERROR"),
         tl.active = sl.active + 1, tl.cancel = sl.cancel, tl.maps_done = sl.maps_done,
         tl.workers_total = sl.workers_total, tl.maps_total = sl.maps_total
  PROVE  HandlerInv(a, us, tl)
<1>1. Live(a) /\ w \in 1..a.used /\ a.pc \notin {"check", "finish"}
  BY UnderWay
<1>2. PhaseInv(a, w, ws[w]) /\ ScannedInv(a, w, ws[w]) /\ CounterInv(a, ws, sl)
  BY <1>1 DEF HandlerInv, WorkersInv
<1>3. PhaseInv(a, w, us[w])
  BY <1>2, PhaseGoesOn
<1>4. ScannedInv(a, w, us[w]) /\ EndInv(a, w, us[w], sl.cancel)
  BY <1>2 DEF ScannedInv, EndInv
<1>5. us[w].scanned \subseteq Effective(a.maps)
  BY <1>4 DEF ScannedInv, Share, Reached
<1>6. BusyOf(us) = BusyOf(ws) \cup {w} /\ w \notin BusyOf(ws)
  BY DEF BusyOf
<1>7. Cardinality(BusyOf(us)) = Cardinality(BusyOf(ws)) + 1
  <2>1. IsFiniteSet(BusyOf(ws))
    BY BusyFinite
  <2> QED
    BY ONLY <1>6, <2>1, FS_AddElement
<1>8. tl.active = Cardinality(BusyOf(us))
  BY <1>1, <1>2, <1>7 DEF CounterInv
<1>9. CountedBy(ws[w]) \subseteq CountedBy(us[w])
  BY DEF CountedBy
<1>10. CounterInv(a, us, tl)
  BY <1>5, <1>8, <1>9, CounterMoves
<1> QED
  BY <1>1, <1>3, <1>4, <1>10, WorkerMoves

LEMMA EndKeeps ==
  ASSUME NEW a \in HandlerRecord, NEW sl \in SlotRecord, NEW tl \in SlotRecord,
         NEW ws \in [Workers -> WorkerRecord], NEW us \in [Workers -> WorkerRecord],
         HandlerInv(a, ws, sl), NEW w \in Workers, ws[w].pc = "end",
         \A v \in Workers : v # w => us[v] = ws[v],
         us[w].threaded = ws[w].threaded, us[w].i = ws[w].i, us[w].end = ws[w].end,
         us[w].scanned = ws[w].scanned, us[w].status = ws[w].status, us[w].pc = "done",
         tl.active = sl.active - 1, tl.cancel = sl.cancel, tl.maps_done = sl.maps_done,
         tl.workers_total = sl.workers_total, tl.maps_total = sl.maps_total
  PROVE  HandlerInv(a, us, tl)
<1>1. Live(a) /\ w \in 1..a.used /\ a.pc \notin {"check", "finish"}
  BY UnderWay
<1>2. PhaseInv(a, w, ws[w]) /\ ScannedInv(a, w, ws[w]) /\ CounterInv(a, ws, sl)
      /\ EndInv(a, w, ws[w], sl.cancel)
  BY <1>1 DEF HandlerInv, WorkersInv
<1>3. PhaseInv(a, w, us[w])
  BY <1>2, PhaseGoesOn
<1>4. ScannedInv(a, w, us[w]) /\ EndInv(a, w, us[w], sl.cancel)
  BY <1>2 DEF ScannedInv, EndInv
<1>5. us[w].scanned \subseteq Effective(a.maps)
  BY <1>4 DEF ScannedInv, Share, Reached
<1>6. BusyOf(us) = BusyOf(ws) \ {w} /\ w \in BusyOf(ws)
  BY DEF BusyOf
<1>7. Cardinality(BusyOf(us)) = Cardinality(BusyOf(ws)) - 1
  BY <1>6, BusyFinite, FS_RemoveElement
<1>8. tl.active = Cardinality(BusyOf(us))
  BY <1>1, <1>2, <1>7 DEF CounterInv
<1>9. CountedBy(ws[w]) \subseteq CountedBy(us[w])
  BY DEF CountedBy
<1>10. CounterInv(a, us, tl)
  BY <1>5, <1>8, <1>9, CounterMoves
<1> QED
  BY <1>1, <1>3, <1>4, <1>10, WorkerMoves

LEMMA SharesDisjoint ==
  ASSUME NEW a, a.job \in Jobs, a.maps = MapLists[a.job],
         NEW v \in 1..Len(Parts[a.job]), NEW w \in 1..Len(Parts[a.job]),
         NEW x \in Share(a, v), x \in Share(a, w)
  PROVE  v = w
<1>1. PICK p, maps : p = Parts[a.job] /\ maps = MapLists[a.job]
  OBVIOUS
<1>2. x \in Effective(maps)
  BY <1>1 DEF Share, Reached
<1>3. /\ maps \in Seq(Nat) /\ Len(maps) \in Nat
      /\ \A m \in 1..Len(p) : p[m].first \in 1..Len(maps) + 1 /\ p[m].end \in 1..Len(maps) + 1
      /\ \E k \in 1..Len(p) : \A m \in 1..Len(p) :
           x \in p[m].first..p[m].end - 1 <=> m = k
  <2>1. maps \in Seq(Nat)
    BY <1>1, PartsFacts
  <2>2. \A m \in 1..Len(p) : p[m].first \in 1..Len(maps) + 1 /\ p[m].end \in 1..Len(maps) + 1
    BY <1>1, PartsFacts, Zenon
  <2>3. \A i \in Effective(MapLists[a.job]) :
          \E k \in 1..Len(Parts[a.job]) : \A m \in 1..Len(Parts[a.job]) :
            i \in Parts[a.job][m].first..Parts[a.job][m].end - 1 <=> m = k
    BY PartsFacts, Zenon
  <2>4. \E k \in 1..Len(p) : \A m \in 1..Len(p) :
          x \in p[m].first..p[m].end - 1 <=> m = k
    <3>1. x \in Effective(MapLists[a.job])
      BY ONLY <1>1, <1>2
    <3>2. \E k \in 1..Len(Parts[a.job]) : \A m \in 1..Len(Parts[a.job]) :
            x \in Parts[a.job][m].first..Parts[a.job][m].end - 1 <=> m = k
      BY ONLY <3>1, <2>3, Zenon
    <3> QED
      BY ONLY <3>2, <1>1, Zenon
  <2> QED
    BY <2>1, <2>2, <2>4
<1>4. x \in Nat
  BY <1>2, <1>3, EffectiveFinite
<1>5. ASSUME NEW m \in 1..Len(p), x \in Share(a, m) PROVE x \in p[m].first..p[m].end - 1
  <2>1. p[m].first <= x /\ x < p[m].end
    BY <1>1, <1>5 DEF Share, Reached
  <2>2. p[m].first \in Nat /\ p[m].end \in Nat
    BY <1>3
  <2> QED
    BY <2>1, <2>2, <1>4
<1>6. x \in p[v].first..p[v].end - 1 /\ x \in p[w].first..p[w].end - 1
  BY <1>1, <1>5
<1> QED
  BY <1>1, <1>3, <1>6

(* The maps that a worker r has left. *)
TodoOf(a, r) == {i \in r.i..r.end - 1 : a.maps[i] > 0}

LEMMA TodoIsLeft ==
  ASSUME NEW a, NEW w, NEW r \in WorkerRecord, a.job \in Jobs, a.maps = MapLists[a.job],
         w \in 1..Len(Parts[a.job]), ScannedInv(a, w, r)
  PROVE  /\ TodoOf(a, r) = {x \in Share(a, w) : r.i <= x}
         /\ TodoOf(a, r) \in SUBSET Nat
         /\ \A n \in Nat : Reached(a, w, n) \subseteq Nat
<1>1. PICK p : p = Parts[a.job][w]
  OBVIOUS
<1>2. PICK maps : maps = a.maps
  OBVIOUS
<1>3. /\ maps \in Seq(Nat) /\ Len(maps) \in Nat
      /\ p.first \in Nat /\ p.end \in Nat /\ 1 <= p.first /\ p.end <= Len(maps) + 1
  BY <1>1, <1>2, PartsFacts
<1>4. r.end = p.end /\ r.i >= p.first /\ r.i \in Nat
  BY <1>1, WorkerFields DEF ScannedInv
<1>5. ASSUME NEW x PROVE x \in TodoOf(a, r) <=> x \in Share(a, w) /\ r.i <= x
  <2>1. x \in TodoOf(a, r) <=> x \in r.i..r.end - 1 /\ maps[x] > 0
    BY <1>2 DEF TodoOf
  <2>2. x \in Share(a, w) <=> x \in 1..Len(maps) /\ maps[x] > 0 /\ p.first <= x /\ x < p.end
    BY <1>1, <1>2 DEF Share, Reached, Effective
  <2>3. x \in r.i..r.end - 1 => x \in 1..Len(maps) /\ p.first <= x /\ x < p.end /\ r.i <= x
    <3>1. PICK i, e, f, n : i = r.i /\ e = r.end /\ f = p.first /\ n = Len(maps)
      OBVIOUS
    <3>2. /\ i \in Nat /\ e \in Nat /\ f \in Nat /\ n \in Nat /\ 1 <= f /\ f <= i
          /\ e <= n + 1 /\ p.end = e
      BY ONLY <3>1, <1>3, <1>4
    <3>3. x \in i..e - 1 => x \in 1..n /\ f <= x /\ x < e /\ i <= x
      BY ONLY <3>2
    <3> QED
      BY ONLY <3>1, <3>2, <3>3
  <2>4. x \in 1..Len(maps) /\ x < p.end /\ r.i <= x => x \in r.i..r.end - 1
    BY <1>3, <1>4
  <2> QED
    BY <2>1, <2>2, <2>3, <2>4
<1>6. TodoOf(a, r) \in SUBSET Nat
  BY <1>3, <1>4 DEF TodoOf
<1>7. \A n : Reached(a, w, n) \subseteq Nat
  BY <1>2, <1>3, EffectiveFinite DEF Reached
<1> QED
  BY <1>5, <1>6, <1>7

LEMMA ScanKeeps ==
  ASSUME NEW a \in HandlerRecord, NEW sl \in SlotRecord,
         NEW ws \in [Workers -> WorkerRecord], NEW us \in [Workers -> WorkerRecord],
         HandlerInv(a, ws, sl), NEW w \in Workers, ws[w].pc = "scan",
         \A v \in Workers : v # w => us[v] = ws[v],
         us[w].threaded = ws[w].threaded, us[w].end = ws[w].end,
         \/ /\ us[w].pc = "end" /\ us[w].i = ws[w].i /\ us[w].scanned = ws[w].scanned
            /\ TodoOf(a, ws[w]) = {} \/ sl.cancel \/ us[w].status = "ERROR"
         \/ /\ us[w].pc = "count" /\ TodoOf(a, ws[w]) # {}
            /\ us[w].i = Lowest(TodoOf(a, ws[w]))
            /\ us[w].scanned = ws[w].scanned \cup {Lowest(TodoOf(a, ws[w]))}
  PROVE  HandlerInv(a, us, sl)
<1>1. /\ Live(a) /\ w \in 1..a.used /\ a.pc \notin {"check", "finish"}
      /\ a.job \in Jobs /\ a.maps = MapLists[a.job] /\ a.used = Len(Parts[a.job])
  BY UnderWay
<1>2. PhaseInv(a, w, ws[w]) /\ ScannedInv(a, w, ws[w]) /\ CounterInv(a, ws, sl)
  BY <1>1 DEF HandlerInv, WorkersInv
<1>3. PICK r : r = ws[w]
  OBVIOUS
<1>4. PICK q : q = us[w]
  OBVIOUS
<1>5. r \in WorkerRecord /\ q \in WorkerRecord
  BY <1>3, <1>4
<1>6. PhaseInv(a, w, q)
  BY <1>2, <1>3, <1>4, <1>5, PhaseGoesOn
<1>7. /\ TodoOf(a, r) = {x \in Share(a, w) : r.i <= x} /\ TodoOf(a, r) \in SUBSET Nat
      /\ \A n \in Nat : Reached(a, w, n) \subseteq Nat
  BY <1>1, <1>2, <1>3, <1>5, TodoIsLeft
<1>8. /\ r.end = Parts[a.job][w].end /\ r.i >= Parts[a.job][w].first
      /\ r.scanned \subseteq Share(a, w) /\ r.scanned = Reached(a, w, r.i)
      /\ r.i \in Nat /\ r.pc = "scan" /\ r.end \in Nat
  BY <1>2, <1>3, <1>5, WorkerFields DEF ScannedInv
<1>9. Parts[a.job][w].first \in Nat
  BY <1>1, PartsFacts
<1>10. ScannedInv(a, w, q) /\ EndInv(a, w, q, sl.cancel) /\ CountedBy(r) \subseteq CountedBy(q)
       /\ q.pc \in {"end", "count"}
  <2>1. CASE /\ q.pc = "end" /\ q.i = r.i /\ q.scanned = r.scanned
             /\ TodoOf(a, r) = {} \/ sl.cancel \/ q.status = "ERROR"
    <3>1. ScannedInv(a, w, q)
      BY <2>1, <1>3, <1>4, <1>8 DEF ScannedInv
    <3>2. ASSUME TodoOf(a, r) = {} PROVE r.scanned = Share(a, w)
      <4>1. ASSUME NEW x \in Share(a, w) PROVE x \in r.scanned
        <5>1. ~(r.i <= x) /\ x \in Nat
          BY <3>2, <1>7, <1>8 DEF Share
        <5>2. x < r.i
          BY <5>1, <1>8
        <5> QED
          BY <5>2, <1>8 DEF Share, Reached
      <4> QED
        BY <4>1, <1>8
    <3>3. EndInv(a, w, q, sl.cancel)
      BY <3>2, <2>1 DEF EndInv
    <3>4. CountedBy(r) \subseteq CountedBy(q)
      BY <2>1, <1>8 DEF CountedBy
    <3> QED
      BY <3>1, <3>3, <3>4, <2>1
  <2>2. CASE /\ q.pc = "count" /\ TodoOf(a, r) # {}
             /\ q.i = Lowest(TodoOf(a, r))
             /\ q.scanned = r.scanned \cup {Lowest(TodoOf(a, r))}
    <3>1. PICK x : x = Lowest(TodoOf(a, r))
      OBVIOUS
    <3>2. x \in TodoOf(a, r) /\ \A u \in TodoOf(a, r) : x <= u
      BY <3>1, <2>2, <1>7, LowestIn
    <3>3. x \in Share(a, w) /\ r.i <= x /\ x \in Nat
      BY <3>2, <1>7
    <3>4. ASSUME NEW y PROVE y \in Reached(a, w, r.i) \cup {x} <=> y \in Reached(a, w, x + 1)
      <4>1. CASE y \in Reached(a, w, r.i)
        <5>1. y < r.i /\ y \in Nat
          BY <4>1, <1>7, <1>8 DEF Reached
        <5>2. y < x + 1
          BY <5>1, <3>3, <1>8
        <5> QED
          BY <4>1, <5>2 DEF Reached
      <4>2. CASE y = x
        <5>1. x < x + 1
          BY <3>3
        <5> QED
          BY <4>2, <5>1, <3>3 DEF Share, Reached
      <4>3. CASE y \in Reached(a, w, x + 1) /\ y # x /\ y \notin Reached(a, w, r.i)
        <5>1. y \in Nat /\ y < x + 1 /\ ~(y < r.i) /\ x + 1 \in Nat
          <6>1. x + 1 \in Nat
            BY <3>3
          <6> QED
            BY <6>1, <4>3, <1>7 DEF Reached
        <5>2. y < x /\ r.i <= y
          BY <5>1, <4>3, <3>3, <1>8
        <5>3. x < Parts[a.job][w].end
          BY <3>3 DEF Share, Reached
        <5>4. y < Parts[a.job][w].end
          BY <5>1, <5>2, <5>3, <3>3, <1>8
        <5>5. y \in Share(a, w)
          BY <5>4, <4>3 DEF Share, Reached
        <5>6. y \in TodoOf(a, r)
          BY <5>5, <5>2, <1>7
        <5>7. x <= y
          BY <5>6, <3>2
        <5> QED
          BY <5>1, <5>2, <5>7, <3>3
      <4> QED
        BY <4>1, <4>2, <4>3
    <3>5. q.scanned = Reached(a, w, x + 1)
      BY <3>4, <3>1, <2>2, <1>8
    <3>6. q.i >= Parts[a.job][w].first
      BY <3>1, <3>3, <2>2, <1>8, <1>9
    <3>7. q.scanned \subseteq Share(a, w)
      BY <3>1, <3>3, <2>2, <1>8
    <3>8. ScannedInv(a, w, q)
      BY <3>1, <3>3, <3>5, <3>6, <3>7, <2>2, <1>3, <1>4, <1>8 DEF ScannedInv
    <3>9. EndInv(a, w, q, sl.cancel)
      BY <2>2 DEF EndInv
    <3>10. x \notin r.scanned
      <4>1. ~(x < r.i)
        BY <3>3, <1>8
      <4> QED
        BY <4>1, <1>8 DEF Reached
    <3>11. CountedBy(r) \subseteq CountedBy(q)
      BY <3>1, <3>10, <2>2, <1>8 DEF CountedBy
    <3> QED
      BY <3>8, <3>9, <3>11, <2>2
  <2> QED
    BY <2>1, <2>2, <1>3, <1>4
<1>11. us[w].scanned \subseteq Effective(a.maps)
  BY <1>4, <1>10 DEF ScannedInv, Share, Reached
<1>12. BusyOf(us) = BusyOf(ws)
  BY <1>3, <1>4, <1>8, <1>10 DEF BusyOf
<1>13. sl.active = Cardinality(BusyOf(us))
  BY <1>1, <1>2, <1>12 DEF CounterInv
<1>14. CounterInv(a, us, sl)
  BY <1>3, <1>4, <1>8, <1>10, <1>11, <1>13, CounterMoves
<1> QED
  BY <1>1, <1>4, <1>6, <1>10, <1>14, WorkerMoves

LEMMA CountKeeps ==
  ASSUME NEW a \in HandlerRecord, NEW sl \in SlotRecord, NEW tl \in SlotRecord,
         NEW ws \in [Workers -> WorkerRecord], NEW us \in [Workers -> WorkerRecord],
         HandlerInv(a, ws, sl), NEW w \in Workers, ws[w].pc = "count",
         \A v \in Workers : v # w => us[v] = ws[v],
         us[w].threaded = ws[w].threaded, us[w].end = ws[w].end,
         us[w].scanned = ws[w].scanned,
         tl.active = sl.active, tl.cancel = sl.cancel,
         tl.workers_total = sl.workers_total, tl.maps_total = sl.maps_total,
         \/ sl.cancel /\ us[w].pc = "end" /\ us[w].i = ws[w].i /\ tl.maps_done = sl.maps_done
         \/ us[w].pc = "scan" /\ us[w].i = ws[w].i + 1 /\ tl.maps_done = sl.maps_done + 1
  PROVE  HandlerInv(a, us, tl)
<1>1. /\ Live(a) /\ w \in 1..a.used /\ a.pc \notin {"check", "finish"}
      /\ a.job \in Jobs /\ a.maps = MapLists[a.job] /\ a.used = Len(Parts[a.job])
  BY UnderWay
<1>2. PhaseInv(a, w, ws[w]) /\ ScannedInv(a, w, ws[w]) /\ CounterInv(a, ws, sl)
      /\ WorkersInv(a, ws, sl)
  BY <1>1 DEF HandlerInv, WorkersInv
<1>3. PICK r : r = ws[w]
  OBVIOUS
<1>4. PICK q : q = us[w]
  OBVIOUS
<1>5. r \in WorkerRecord /\ q \in WorkerRecord
  BY <1>3, <1>4
<1>6. PhaseInv(a, w, q)
  BY <1>2, <1>3, <1>4, <1>5, PhaseGoesOn
<1>7. /\ r.end = Parts[a.job][w].end /\ r.i >= Parts[a.job][w].first
      /\ r.scanned \subseteq Share(a, w) /\ r.scanned = Reached(a, w, r.i + 1)
      /\ r.i \in Share(a, w) /\ r.i \in Nat /\ r.pc = "count"
  BY <1>2, <1>3, <1>5, WorkerFields DEF ScannedInv
<1>8. Parts[a.job][w].first \in Nat
  BY <1>1, PartsFacts
<1>9. r.i \in r.scanned
  <2>1. r.i < r.i + 1
    BY <1>7
  <2> QED
    BY <2>1, <1>7 DEF Share, Reached
<1>10. ScannedInv(a, w, q) /\ EndInv(a, w, q, sl.cancel) /\ q.pc \in {"end", "scan"}
  <2>1. CASE sl.cancel /\ q.pc = "end" /\ q.i = r.i
    BY <2>1, <1>3, <1>4, <1>7 DEF ScannedInv, EndInv
  <2>2. CASE q.pc = "scan" /\ q.i = r.i + 1
    <3>1. r.i + 1 >= Parts[a.job][w].first
      BY <1>7, <1>8
    <3> QED
      BY <3>1, <2>2, <1>3, <1>4, <1>7 DEF ScannedInv, EndInv
  <2> QED
    BY <2>1, <2>2, <1>3, <1>4
<1>11. us[w].scanned \subseteq Effective(a.maps)
  BY <1>4, <1>10 DEF ScannedInv, Share, Reached
<1>12. BusyOf(us) = BusyOf(ws)
  BY <1>3, <1>4, <1>7, <1>10 DEF BusyOf
<1>13. tl.active = Cardinality(BusyOf(us))
  BY <1>1, <1>2, <1>12 DEF CounterInv
<1>14. CountedBy(r) \subseteq CountedBy(q) /\ CountedBy(q) = r.scanned
  BY <1>3, <1>4, <1>7, <1>10 DEF CountedBy
<1>15. r.i \notin Counted(ws)
  <2>1. ASSUME NEW v \in Workers PROVE r.i \notin CountedBy(ws[v])
    <3>1. CASE v = w
      BY <3>1, <1>3, <1>7 DEF CountedBy
    <3>2. CASE v > a.used
      BY <3>2, <1>2, NoWorkerFacts DEF CountedBy, WorkersInv
    <3>3. CASE v # w /\ ~(v > a.used)
      <4>1. v \in 1..a.used
        BY <3>3, WorkersFacts, HandlerFields
      <4>2. ws[v].scanned \subseteq Share(a, v)
        BY <4>1, <1>2 DEF WorkersInv, ScannedInv
      <4>3. r.i \notin Share(a, v)
        BY <4>1, <3>3, <1>1, <1>7, SharesDisjoint
      <4> QED
        BY <4>2, <4>3 DEF CountedBy
    <3> QED
      BY <3>1, <3>2, <3>3
  <2> QED
    BY <2>1 DEF Counted
<1>16. CounterInv(a, us, tl)
  <2>1. \/ tl.maps_done = sl.maps_done
        \/ /\ tl.maps_done = sl.maps_done + 1
           /\ \E x \in CountedBy(us[w]) : x \notin Counted(ws)
    BY <1>4, <1>9, <1>14, <1>15
  <2>2. CountedBy(ws[w]) \subseteq CountedBy(us[w])
    BY <1>3, <1>4, <1>14
  <2> QED
    BY <2>1, <2>2, <1>11, <1>13, CounterMoves
<1> QED
  BY <1>1, <1>4, <1>6, <1>10, <1>16, WorkerMoves

-----------------------------------------------------------------------------
(* The whole state *)

LEMMA InvFacts ==
  ASSUME ScanInv
  PROVE  /\ TypeOK
         /\ \A h \in Handlers : HandlerInv(handler[h], worker[h], slot[handler[h].slot])
         /\ \A h \in Handlers : handler[h] \in HandlerRecord
                                /\ worker[h] \in [Workers -> WorkerRecord]
         /\ \A s \in Slots : slot[s] \in SlotRecord
         /\ \A h \in Handlers : Live(handler[h]) =>
              /\ handler[h].slot \in Slots /\ handler[h].job \in Jobs
              /\ slot[handler[h].slot].job = handler[h].job
              /\ slot[handler[h].slot].state = "RUNNING"
         /\ \A h, k \in Handlers :
              Live(handler[h]) /\ Live(handler[k]) /\ handler[h].slot = handler[k].slot => h = k
         /\ \A s \in Slots : slot[s].state = "RUNNING" =>
              \E h \in Handlers : Live(handler[h]) /\ handler[h].slot = s
<1>1. SlotKept /\ TypeOK
      /\ \A h \in Handlers : HandlerInv(handler[h], worker[h], slot[handler[h].slot])
  BY DEF ScanInv, SlotKept
<1>2. \A h \in Handlers : handler[h] \in HandlerRecord
                          /\ worker[h] \in [Workers -> WorkerRecord]
  BY <1>1 DEF TypeOK
<1>3. \A s \in Slots : slot[s] \in SlotRecord
  BY <1>1 DEF TypeOK
<1>4. \A h \in Handlers : Live(handler[h]) => handler[h].slot \in Slots /\ handler[h].job \in Jobs
  BY <1>1 DEF HandlerInv, StageInv, Live
<1>5. \A h \in Handlers : Live(handler[h]) =>
              /\ slot[handler[h].slot].job = handler[h].job
              /\ slot[handler[h].slot].state = "RUNNING"
  BY <1>1 DEF SlotKept, Running, SlotOf, Live
<1>6. \A h, k \in Handlers :
        Live(handler[h]) /\ Live(handler[k]) /\ handler[h].slot = handler[k].slot => h = k
  BY <1>1 DEF SlotKept, Running, Live
<1>7. \A s \in Slots : slot[s].state = "RUNNING" =>
        \E h \in Handlers : Live(handler[h]) /\ handler[h].slot = s
  BY <1>1 DEF SlotKept, Running, Live
<1> QED
  BY <1>1, <1>2, <1>3, <1>4, <1>5, <1>6, <1>7

(* The other handlers do not notice a step of h that leaves their slots    *)
(* alone.                                                                  *)
LEMMA Elsewhere ==
  ASSUME ScanInv, NEW h \in Handlers,
         \A k \in Handlers : k # h => handler'[k] = handler[k] /\ worker'[k] = worker[k],
         \A k \in Handlers : k # h /\ Live(handler[k])
                               => slot'[handler[k].slot] = slot[handler[k].slot],
         HandlerInv(handler'[h], worker'[h], slot'[handler'[h].slot])
  PROVE  \A k \in Handlers : HandlerInv(handler'[k], worker'[k], slot'[handler'[k].slot])
<1> SUFFICES ASSUME NEW k \in Handlers, k # h
             PROVE  HandlerInv(handler'[k], worker'[k], slot'[handler'[k].slot])
  OBVIOUS
<1>1. PICK a, ws, sl, tl : /\ a = handler[k] /\ ws = worker[k]
                           /\ sl = slot[handler[k].slot] /\ tl = slot'[handler[k].slot]
  OBVIOUS
<1>2. HandlerInv(a, ws, sl)
  BY <1>1, InvFacts
<1>3. Live(a) => tl = sl
  BY <1>1
<1>4. HandlerInv(a, ws, tl)
  BY <1>2, <1>3, SlotFrame
<1>5. handler'[k] = a /\ worker'[k] = ws /\ slot'[handler'[k].slot] = tl
  BY <1>1
<1> QED
  BY <1>4, <1>5

(* A step of a scan that goes on. *)
LEMMA GoesOn ==
  ASSUME ScanInv, TypeOK', NEW h \in Handlers, NEW s \in Slots, s = handler[h].slot,
         Live(handler[h]), Live(handler'[h]),
         handler'[h].slot = s, handler'[h].job = handler[h].job,
         \A k \in Handlers : k # h => handler'[k] = handler[k] /\ worker'[k] = worker[k],
         \A u \in Slots : u # s => slot'[u] = slot[u],
         slot'[s].job = slot[s].job, slot'[s].state = slot[s].state,
         HandlerInv(handler'[h], worker'[h], slot'[s])
  PROVE  ScanInv'
<1>1. \A k \in Handlers : k # h /\ Live(handler[k]) => handler[k].slot # s
  BY InvFacts
<1>2. \A k \in Handlers : HandlerInv(handler'[k], worker'[k], slot'[handler'[k].slot])
  <2>1. \A k \in Handlers : k # h /\ Live(handler[k])
                              => slot'[handler[k].slot] = slot[handler[k].slot]
    BY <1>1, InvFacts
  <2> QED
    BY <2>1, Elsewhere
<1>3. \A k \in Handlers : /\ Live(handler'[k]) <=> Live(handler[k])
                          /\ handler'[k].slot = handler[k].slot
                          /\ handler'[k].job = handler[k].job
  OBVIOUS
<1>4. \A u \in Slots : slot'[u].job = slot[u].job /\ slot'[u].state = slot[u].state
  OBVIOUS
<1>5. \A k \in Handlers : Live(handler'[k]) =>
              /\ slot'[handler'[k].slot].job = handler'[k].job
              /\ slot'[handler'[k].slot].state = "RUNNING"
  BY <1>3, <1>4, InvFacts
<1>6. \A g, k \in Handlers :
        Live(handler'[g]) /\ Live(handler'[k]) /\ handler'[g].slot = handler'[k].slot => g = k
  BY <1>3, InvFacts
<1>7. \A u \in Slots : slot'[u].state = "RUNNING" =>
        \E k \in Handlers : Live(handler'[k]) /\ handler'[k].slot = u
  BY <1>3, <1>4, InvFacts
<1>8. SlotKept'
  BY <1>5, <1>6, <1>7 DEF SlotKept, Running, SlotOf, Live
<1> QED
  BY <1>2, <1>8 DEF ScanInv

(* A step that writes one worker and one slot. *)
WorkerWritten(h, w, q, s, tl) ==
  /\ worker'[h] \in [Workers -> WorkerRecord] /\ worker'[h][w] = q
  /\ \A v \in Workers : v # w => worker'[h][v] = worker[h][v]
  /\ \A k \in Handlers : k # h => handler'[k] = handler[k] /\ worker'[k] = worker[k]
  /\ slot'[s] = tl /\ \A u \in Slots : u # s => slot'[u] = slot[u]

LEMMA WorkerWrites ==
  ASSUME TypeOK, NEW h \in Handlers, NEW w \in Workers, NEW q \in WorkerRecord,
         NEW s \in Slots, NEW tl \in SlotRecord,
         worker' = [worker EXCEPT ![h] = [worker[h] EXCEPT ![w] = q]],
         slot' = [slot EXCEPT ![s] = tl], handler' = handler, alive' = alive
  PROVE  TypeOK' /\ WorkerWritten(h, w, q, s, tl)
<1>1. /\ worker \in [Handlers -> [Workers -> WorkerRecord]] /\ slot \in [Slots -> SlotRecord]
      /\ handler \in [Handlers -> HandlerRecord] /\ alive \in BOOLEAN
  BY DEF TypeOK
<1>2. PICK us : us = [worker[h] EXCEPT ![w] = q]
  OBVIOUS
<1>3. us \in [Workers -> WorkerRecord] /\ us[w] = q
      /\ \A v \in Workers : v # w => us[v] = worker[h][v]
  BY <1>1, <1>2
<1>4. worker' = [worker EXCEPT ![h] = us]
  BY <1>2
<1>5. worker' \in [Handlers -> [Workers -> WorkerRecord]] /\ worker'[h] = us
      /\ \A k \in Handlers : k # h => worker'[k] = worker[k]
  BY <1>1, <1>3, <1>4
<1>6. slot' \in [Slots -> SlotRecord] /\ slot'[s] = tl
      /\ \A u \in Slots : u # s => slot'[u] = slot[u]
  BY <1>1
<1>7. TypeOK'
  BY <1>1, <1>5, <1>6 DEF TypeOK
<1> QED
  BY <1>3, <1>5, <1>6, <1>7 DEF WorkerWritten

(* The setting of a step of a worker that is under way. *)
LEMMA WorkerSetting ==
  ASSUME ScanInv, NEW h \in Handlers, NEW w \in Workers,
         worker[h][w].pc \notin {"none", "done"}
  PROVE  /\ TypeOK /\ handler[h] \in HandlerRecord /\ worker[h] \in [Workers -> WorkerRecord]
         /\ worker[h][w] \in WorkerRecord
         /\ handler[h].slot \in Slots /\ Live(handler[h])
         /\ slot[handler[h].slot] \in SlotRecord
         /\ HandlerInv(handler[h], worker[h], slot[handler[h].slot])
<1>1. /\ TypeOK /\ handler[h] \in HandlerRecord /\ worker[h] \in [Workers -> WorkerRecord]
      /\ HandlerInv(handler[h], worker[h], slot[handler[h].slot])
  BY InvFacts
<1>2. Live(handler[h]) /\ handler[h].slot \in Slots
  BY <1>1, UnderWay
<1> QED
  BY <1>1, <1>2, InvFacts

LEMMA WorkerStartKeeps ==
  ASSUME ScanInv, NEW h \in Handlers, NEW w \in Workers, WorkerStart(h, w)
  PROVE  ScanInv'
<1>1. PICK s, sl, r : s = handler[h].slot /\ sl = slot[s] /\ r = worker[h][w]
  OBVIOUS
<1>2. r.pc = "start" /\ handler' = handler /\ alive' = alive
  BY <1>1 DEF WorkerStart
<1>3. /\ TypeOK /\ handler[h] \in HandlerRecord /\ worker[h] \in [Workers -> WorkerRecord]
      /\ r \in WorkerRecord /\ s \in Slots /\ Live(handler[h]) /\ sl \in SlotRecord
      /\ HandlerInv(handler[h], worker[h], sl)
  BY <1>1, <1>2, WorkerSetting
<1>4. PICK tl : tl = [sl EXCEPT !.active = @ + 1]
  OBVIOUS
<1>5. slot' = [slot EXCEPT ![s] = tl]
  BY <1>1, <1>4 DEF WorkerStart, Count
<1>6. PICK q : /\ q = [r EXCEPT !.pc = "scan"] \/ q = [r EXCEPT !.pc = "end", !.status = "ERROR"]
               /\ worker' = [worker EXCEPT ![h] = [worker[h] EXCEPT ![w] = q]]
  <2>1. \/ worker' = [worker EXCEPT ![h] = [worker[h] EXCEPT ![w] = [r EXCEPT !.pc = "scan"]]]
        \/ worker' = [worker EXCEPT ![h] =
             [worker[h] EXCEPT ![w] = [r EXCEPT !.pc = "end", !.status = "ERROR"]]]
    BY <1>1 DEF WorkerStart, WorkerAt
  <2> QED
    BY <2>1, Zenon
<1>7. /\ tl \in SlotRecord /\ tl.active = sl.active + 1 /\ tl.cancel = sl.cancel
      /\ tl.maps_done = sl.maps_done /\ tl.workers_total = sl.workers_total
      /\ tl.maps_total = sl.maps_total /\ tl.job = sl.job /\ tl.state = sl.state
  BY <1>3, <1>4 DEF SlotRecord
<1>8. /\ q \in WorkerRecord /\ q.threaded = r.threaded /\ q.i = r.i /\ q.end = r.end
      /\ q.scanned = r.scanned /\ (q.pc = "scan" \/ (q.pc = "end" /\ q.status = "ERROR"))
  BY <1>3, <1>6 DEF WorkerRecord
<1>9. TypeOK' /\ WorkerWritten(h, w, q, s, tl)
  BY <1>2, <1>3, <1>5, <1>6, <1>7, <1>8, WorkerWrites, Zenon
<1>10. HandlerInv(handler[h], worker'[h], tl)
  <2>1. PICK a, ws, us : a = handler[h] /\ ws = worker[h] /\ us = worker'[h]
    OBVIOUS
  <2>2. /\ us \in [Workers -> WorkerRecord] /\ us[w] = q
        /\ \A v \in Workers : v # w => us[v] = ws[v]
    BY <1>9, <2>1 DEF WorkerWritten
  <2>3. /\ a \in HandlerRecord /\ ws \in [Workers -> WorkerRecord] /\ HandlerInv(a, ws, sl)
        /\ ws[w] = r
    BY <1>1, <1>3, <2>1
  <2>4. HandlerInv(a, us, tl)
    BY <2>2, <2>3, <1>2, <1>3, <1>7, <1>8, StartKeeps
  <2> QED
    BY <2>1, <2>4
<1> QED
  BY <1>1, <1>2, <1>3, <1>7, <1>9, <1>10, GoesOn DEF WorkerWritten

LEMMA WorkerEndKeeps ==
  ASSUME ScanInv, NEW h \in Handlers, NEW w \in Workers, WorkerEnd(h, w)
  PROVE  ScanInv'
<1>1. PICK s, sl, r : s = handler[h].slot /\ sl = slot[s] /\ r = worker[h][w]
  OBVIOUS
<1>2. r.pc = "end" /\ handler' = handler /\ alive' = alive
  BY <1>1 DEF WorkerEnd
<1>3. /\ TypeOK /\ handler[h] \in HandlerRecord /\ worker[h] \in [Workers -> WorkerRecord]
      /\ r \in WorkerRecord /\ s \in Slots /\ Live(handler[h]) /\ sl \in SlotRecord
      /\ HandlerInv(handler[h], worker[h], sl)
  BY <1>1, <1>2, WorkerSetting
<1>4. sl.active \in Nat /\ sl.active # 0
  <2>1. sl.active = Cardinality(BusyOf(worker[h]))
    BY <1>3 DEF HandlerInv, CounterInv
  <2>2. w \in BusyOf(worker[h])
    BY <1>1, <1>2 DEF BusyOf
  <2>3. Cardinality(BusyOf(worker[h])) # 0
    BY <2>2, BusyFinite, FS_EmptySet
  <2> QED
    BY <2>1, <2>3, BusyFinite
<1>5. PICK tl : tl = [sl EXCEPT !.active = @ + -1]
  OBVIOUS
<1>6. slot' = [slot EXCEPT ![s] = tl]
  BY <1>1, <1>5 DEF WorkerEnd, Count
<1>7. PICK q : q = [r EXCEPT !.pc = "done"]
  OBVIOUS
<1>8. worker' = [worker EXCEPT ![h] = [worker[h] EXCEPT ![w] = q]]
  BY <1>1, <1>7 DEF WorkerEnd, WorkerAt
<1>9. /\ tl \in SlotRecord /\ tl.active = sl.active - 1 /\ tl.cancel = sl.cancel
      /\ tl.maps_done = sl.maps_done /\ tl.workers_total = sl.workers_total
      /\ tl.maps_total = sl.maps_total /\ tl.job = sl.job /\ tl.state = sl.state
  <2>1. sl.active + -1 \in Nat /\ sl.active + -1 = sl.active - 1
    BY <1>4
  <2> QED
    BY <2>1, <1>3, <1>5 DEF SlotRecord
<1>10. /\ q \in WorkerRecord /\ q.threaded = r.threaded /\ q.i = r.i /\ q.end = r.end
       /\ q.scanned = r.scanned /\ q.status = r.status /\ q.pc = "done"
  BY <1>3, <1>7 DEF WorkerRecord
<1>11. TypeOK' /\ WorkerWritten(h, w, q, s, tl)
  BY <1>2, <1>3, <1>6, <1>8, <1>9, <1>10, WorkerWrites, Zenon
<1>12. HandlerInv(handler[h], worker'[h], tl)
  <2>1. PICK a, ws, us : a = handler[h] /\ ws = worker[h] /\ us = worker'[h]
    OBVIOUS
  <2>2. /\ us \in [Workers -> WorkerRecord] /\ us[w] = q
        /\ \A v \in Workers : v # w => us[v] = ws[v]
    BY <1>11, <2>1 DEF WorkerWritten
  <2>3. /\ a \in HandlerRecord /\ ws \in [Workers -> WorkerRecord] /\ HandlerInv(a, ws, sl)
        /\ ws[w] = r
    BY <1>1, <1>3, <2>1
  <2>4. HandlerInv(a, us, tl)
    BY <2>2, <2>3, <1>2, <1>3, <1>9, <1>10, EndKeeps
  <2> QED
    BY <2>1, <2>4
<1> QED
  BY <1>1, <1>2, <1>3, <1>9, <1>11, <1>12, GoesOn DEF WorkerWritten

LEMMA SlotUntouched ==
  ASSUME TypeOK, NEW s \in Slots, slot' = slot
  PROVE  slot' = [slot EXCEPT ![s] = slot[s]]
<1>1. slot \in [Slots -> SlotRecord]
  BY DEF TypeOK
<1> QED
  BY <1>1

LEMMA WorkerScanKeeps ==
  ASSUME ScanInv, NEW h \in Handlers, NEW w \in Workers, WorkerScan(h, w)
  PROVE  ScanInv'
<1>1. PICK s, sl, r : s = handler[h].slot /\ sl = slot[s] /\ r = worker[h][w]
  OBVIOUS
<1>2. r.pc = "scan" /\ handler' = handler /\ alive' = alive /\ slot' = slot
  BY <1>1 DEF WorkerScan
<1>3. /\ TypeOK /\ handler[h] \in HandlerRecord /\ worker[h] \in [Workers -> WorkerRecord]
      /\ r \in WorkerRecord /\ s \in Slots /\ Live(handler[h]) /\ sl \in SlotRecord
      /\ HandlerInv(handler[h], worker[h], sl)
  BY <1>1, <1>2, WorkerSetting
<1>4. PICK todo : todo = TodoOf(handler[h], r)
  OBVIOUS
<1>5. todo = Todo(h, w)
  BY <1>1, <1>4 DEF Todo, TodoOf
<1>6. todo \in SUBSET Nat
  BY <1>3, <1>4, WorkerFields DEF TodoOf
<1>7. slot' = [slot EXCEPT ![s] = sl]
  BY <1>1, <1>2, <1>3, SlotUntouched
<1>8. PICK q : /\ \/ q = [r EXCEPT !.pc = "end"] /\ (todo = {} \/ sl.cancel)
                  \/ q = [r EXCEPT !.pc = "end", !.status = "ERROR"]
                  \/ /\ todo # {}
                     /\ q = [r EXCEPT !.pc = "count", !.i = Lowest(todo),
                                      !.scanned = r.scanned \cup {Lowest(todo)}]
               /\ worker' = [worker EXCEPT ![h] = [worker[h] EXCEPT ![w] = q]]
  <2>1. \/ /\ todo = {} \/ sl.cancel
           /\ worker' = [worker EXCEPT ![h] = [worker[h] EXCEPT ![w] = [r EXCEPT !.pc = "end"]]]
        \/ worker' = [worker EXCEPT ![h] =
             [worker[h] EXCEPT ![w] = [r EXCEPT !.pc = "end", !.status = "ERROR"]]]
        \/ /\ todo # {}
           /\ worker' = [worker EXCEPT ![h] = [worker[h] EXCEPT ![w] =
                [r EXCEPT !.pc = "count", !.i = Lowest(todo),
                          !.scanned = r.scanned \cup {Lowest(todo)}]]]
    BY <1>1, <1>5 DEF WorkerScan, WorkerAt, SlotOf
  <2> QED
    BY <2>1, Zenon
<1>9. /\ q \in WorkerRecord /\ q.threaded = r.threaded /\ q.end = r.end
      /\ \/ /\ q.pc = "end" /\ q.i = r.i /\ q.scanned = r.scanned
            /\ todo = {} \/ sl.cancel \/ q.status = "ERROR"
         \/ /\ q.pc = "count" /\ todo # {}
            /\ q.i = Lowest(todo) /\ q.scanned = r.scanned \cup {Lowest(todo)}
  <2>1. CASE q = [r EXCEPT !.pc = "end"] /\ (todo = {} \/ sl.cancel)
    BY <2>1, <1>3 DEF WorkerRecord
  <2>2. CASE q = [r EXCEPT !.pc = "end", !.status = "ERROR"]
    BY <2>2, <1>3 DEF WorkerRecord
  <2>3. CASE /\ todo # {}
             /\ q = [r EXCEPT !.pc = "count", !.i = Lowest(todo),
                              !.scanned = r.scanned \cup {Lowest(todo)}]
    <3>1. PICK x : x = Lowest(todo)
      OBVIOUS
    <3>2. x \in Nat
      BY <3>1, <2>3, <1>6, LowestIn
    <3>3. q = [r EXCEPT !.pc = "count", !.i = x, !.scanned = r.scanned \cup {x}]
      BY <3>1, <2>3
    <3>4. q \in WorkerRecord
      BY <3>2, <3>3, <1>3 DEF WorkerRecord
    <3>5. /\ q.threaded = r.threaded /\ q.end = r.end /\ q.pc = "count" /\ q.i = x
          /\ q.scanned = r.scanned \cup {x}
      BY <3>3, <1>3 DEF WorkerRecord
    <3> QED
      BY <3>1, <3>4, <3>5, <2>3
  <2> QED
    BY <2>1, <2>2, <2>3, <1>8
<1>10. TypeOK' /\ WorkerWritten(h, w, q, s, sl)
  BY <1>2, <1>3, <1>7, <1>8, <1>9, WorkerWrites, Zenon
<1>11. HandlerInv(handler[h], worker'[h], sl)
  <2>1. PICK a, ws, us : a = handler[h] /\ ws = worker[h] /\ us = worker'[h]
    OBVIOUS
  <2>2. /\ us \in [Workers -> WorkerRecord] /\ us[w] = q
        /\ \A v \in Workers : v # w => us[v] = ws[v]
    BY <1>10, <2>1 DEF WorkerWritten
  <2>3. /\ a \in HandlerRecord /\ ws \in [Workers -> WorkerRecord] /\ HandlerInv(a, ws, sl)
        /\ ws[w] = r
    BY <1>1, <1>3, <2>1
  <2>4. HandlerInv(a, us, sl)
    <3>1. TodoOf(a, ws[w]) = todo
      BY <1>4, <2>1, <2>3
    <3>2. \/ /\ us[w].pc = "end" /\ us[w].i = ws[w].i /\ us[w].scanned = ws[w].scanned
             /\ TodoOf(a, ws[w]) = {} \/ sl.cancel \/ us[w].status = "ERROR"
          \/ /\ us[w].pc = "count" /\ TodoOf(a, ws[w]) # {}
             /\ us[w].i = Lowest(TodoOf(a, ws[w]))
             /\ us[w].scanned = ws[w].scanned \cup {Lowest(TodoOf(a, ws[w]))}
      BY ONLY <3>1, <2>2, <2>3, <1>9
    <3>3. /\ ws[w].pc = "scan" /\ us[w].threaded = ws[w].threaded /\ us[w].end = ws[w].end
          /\ sl \in SlotRecord
      BY <2>2, <2>3, <1>2, <1>3, <1>9
    <3> QED
      BY <2>2, <2>3, <3>2, <3>3, ScanKeeps, Zenon
  <2> QED
    BY <2>1, <2>4
<1> QED
  BY <1>1, <1>2, <1>3, <1>10, <1>11, GoesOn DEF WorkerWritten

LEMMA WorkerCountKeeps ==
  ASSUME ScanInv, NEW h \in Handlers, NEW w \in Workers, WorkerCount(h, w)
  PROVE  ScanInv'
<1>1. PICK s, sl, r : s = handler[h].slot /\ sl = slot[s] /\ r = worker[h][w]
  OBVIOUS
<1>2. r.pc = "count" /\ handler' = handler /\ alive' = alive
  BY <1>1 DEF WorkerCount
<1>3. /\ TypeOK /\ handler[h] \in HandlerRecord /\ worker[h] \in [Workers -> WorkerRecord]
      /\ r \in WorkerRecord /\ s \in Slots /\ Live(handler[h]) /\ sl \in SlotRecord
      /\ HandlerInv(handler[h], worker[h], sl)
  BY <1>1, <1>2, WorkerSetting
<1>4. PICK q, tl :
        /\ \/ sl.cancel /\ q = [r EXCEPT !.pc = "end"] /\ tl = sl
           \/ /\ q = [r EXCEPT !.pc = "scan", !.i = r.i + 1]
              /\ tl = [sl EXCEPT !.maps_done = @ + 1]
        /\ slot' = [slot EXCEPT ![s] = tl]
        /\ worker' = [worker EXCEPT ![h] = [worker[h] EXCEPT ![w] = q]]
  <2>1. CASE sl.cancel
    <3>1. /\ worker' = [worker EXCEPT ![h] = [worker[h] EXCEPT ![w] = [r EXCEPT !.pc = "end"]]]
          /\ slot' = slot
      BY <2>1, <1>1 DEF WorkerCount, WorkerAt, SlotOf
    <3>2. slot' = [slot EXCEPT ![s] = sl]
      BY <3>1, <1>1, <1>3, SlotUntouched
    <3> QED
      BY <3>1, <3>2, <2>1, Zenon
  <2>2. CASE ~sl.cancel
    <3>1. /\ worker' = [worker EXCEPT ![h] =
               [worker[h] EXCEPT ![w] = [r EXCEPT !.pc = "scan", !.i = r.i + 1]]]
          /\ slot' = [slot EXCEPT ![s] = [sl EXCEPT !.maps_done = @ + 1]]
      BY <2>2, <1>1 DEF WorkerCount, Count, SlotOf
    <3> QED
      BY <3>1, Zenon
  <2> QED
    BY <2>1, <2>2
<1>5. /\ tl \in SlotRecord /\ tl.active = sl.active /\ tl.cancel = sl.cancel
      /\ tl.workers_total = sl.workers_total
      /\ tl.maps_total = sl.maps_total /\ tl.job = sl.job /\ tl.state = sl.state
  BY <1>3, <1>4 DEF SlotRecord
<1>6. /\ q \in WorkerRecord /\ q.threaded = r.threaded /\ q.end = r.end
      /\ q.scanned = r.scanned
      /\ \/ sl.cancel /\ q.pc = "end" /\ q.i = r.i /\ tl.maps_done = sl.maps_done
         \/ q.pc = "scan" /\ q.i = r.i + 1 /\ tl.maps_done = sl.maps_done + 1
  <2>1. CASE sl.cancel /\ q = [r EXCEPT !.pc = "end"] /\ tl = sl
    BY <2>1, <1>3 DEF WorkerRecord
  <2>2. CASE q = [r EXCEPT !.pc = "scan", !.i = r.i + 1] /\ tl = [sl EXCEPT !.maps_done = @ + 1]
    <3>1. tl.maps_done = sl.maps_done + 1
      BY <2>2, <1>3 DEF SlotRecord
    <3>2. r.i + 1 \in Nat
      BY <1>3, WorkerFields
    <3>3. /\ q \in WorkerRecord /\ q.threaded = r.threaded /\ q.end = r.end
          /\ q.scanned = r.scanned /\ q.pc = "scan" /\ q.i = r.i + 1
      BY <3>2, <2>2, <1>3 DEF WorkerRecord
    <3> QED
      BY <3>1, <3>3
  <2> QED
    BY <2>1, <2>2, <1>4
<1>7. TypeOK' /\ WorkerWritten(h, w, q, s, tl)
  BY <1>2, <1>3, <1>4, <1>5, <1>6, WorkerWrites, Zenon
<1>8. HandlerInv(handler[h], worker'[h], tl)
  <2>1. PICK a, ws, us : a = handler[h] /\ ws = worker[h] /\ us = worker'[h]
    OBVIOUS
  <2>2. /\ us \in [Workers -> WorkerRecord] /\ us[w] = q
        /\ \A v \in Workers : v # w => us[v] = ws[v]
    BY <1>7, <2>1 DEF WorkerWritten
  <2>3. /\ a \in HandlerRecord /\ ws \in [Workers -> WorkerRecord] /\ HandlerInv(a, ws, sl)
        /\ ws[w] = r
    BY <1>1, <1>3, <2>1
  <2>4. HandlerInv(a, us, tl)
    BY <2>2, <2>3, <1>2, <1>3, <1>5, <1>6, CountKeeps
  <2> QED
    BY <2>1, <2>4
<1> QED
  BY <1>1, <1>2, <1>3, <1>5, <1>7, <1>8, GoesOn DEF WorkerWritten

-----------------------------------------------------------------------------
(* scan_maps_parallel *)

(* A step of the handler that leaves the slots alone. *)
LEMMA HandlerGoesOn ==
  ASSUME ScanInv, NEW h \in Handlers, NEW b \in HandlerRecord,
         NEW us \in [Workers -> WorkerRecord],
         handler' = [handler EXCEPT ![h] = b],
         worker' = [worker EXCEPT ![h] = us] \/ (worker' = worker /\ us = worker[h]),
         slot' = slot, alive' \in BOOLEAN, Live(handler[h]), Live(b),
         b.slot = handler[h].slot, b.job = handler[h].job,
         HandlerInv(b, us, slot[handler[h].slot])
  PROVE  ScanInv'
<1>1. /\ worker \in [Handlers -> [Workers -> WorkerRecord]] /\ slot \in [Slots -> SlotRecord]
      /\ handler \in [Handlers -> HandlerRecord]
  BY InvFacts DEF TypeOK
<1>2. handler' \in [Handlers -> HandlerRecord] /\ handler'[h] = b
      /\ \A k \in Handlers : k # h => handler'[k] = handler[k]
  BY <1>1
<1>3. worker' \in [Handlers -> [Workers -> WorkerRecord]] /\ worker'[h] = us
      /\ \A k \in Handlers : k # h => worker'[k] = worker[k]
  BY <1>1
<1>4. TypeOK'
  BY <1>1, <1>2, <1>3 DEF TypeOK
<1>5. PICK s : s = handler[h].slot
  OBVIOUS
<1>6. s \in Slots
  BY <1>5, InvFacts
<1>7. \A k \in Handlers : k # h => handler'[k] = handler[k] /\ worker'[k] = worker[k]
  BY <1>2, <1>3
<1>8. HandlerInv(handler'[h], worker'[h], slot'[s])
  BY <1>2, <1>3, <1>5
<1>9. Live(handler'[h]) /\ handler'[h].slot = s /\ handler'[h].job = handler[h].job
  BY <1>2, <1>5
<1> QED
  BY <1>4, <1>5, <1>6, <1>7, <1>8, <1>9, GoesOn

(* The setting of a step of a handler whose workers are made. *)
LEMMA LaunchedSetting ==
  ASSUME ScanInv, NEW h \in Handlers, handler[h].pc \in Launched
  PROVE  /\ handler[h] \in HandlerRecord /\ worker[h] \in [Workers -> WorkerRecord]
         /\ Live(handler[h]) /\ handler[h].used > 0 /\ StageInv(handler[h])
         /\ alive \in BOOLEAN
         /\ HandlerInv(handler[h], worker[h], slot[handler[h].slot])
         /\ \A w \in 1..handler[h].used : w \in Workers /\ PhaseInv(handler[h], w, worker[h][w])
<1>1. /\ handler[h] \in HandlerRecord /\ worker[h] \in [Workers -> WorkerRecord]
      /\ HandlerInv(handler[h], worker[h], slot[handler[h].slot]) /\ alive \in BOOLEAN
  BY InvFacts DEF TypeOK
<1>2. StageInv(handler[h])
  BY <1>1 DEF HandlerInv
<1>3. Live(handler[h]) /\ handler[h].used > 0
  BY <1>2 DEF StageInv, Live, Launched
<1>4. \A w \in 1..handler[h].used : PhaseInv(handler[h], w, worker[h][w])
  BY <1>1 DEF HandlerInv, WorkersInv
<1> QED
  BY <1>1, <1>2, <1>3, <1>4, HandlerFields

(* The worker w is started. *)
Started(ws, us, w, threaded) ==
  /\ us \in [Workers -> WorkerRecord]
  /\ us[w].pc = "start" /\ us[w].threaded = threaded
  /\ us[w].i = ws[w].i /\ us[w].end = ws[w].end
  /\ us[w].scanned = ws[w].scanned /\ us[w].status = ws[w].status
  /\ \A v \in Workers : v # w => us[v] = ws[v]

LEMMA StartedBy ==
  ASSUME NEW ws \in [Workers -> WorkerRecord], NEW w \in Workers, NEW threaded \in BOOLEAN,
         NEW us, us = [ws EXCEPT ![w] = [ws[w] EXCEPT !.pc = "start", !.threaded = threaded]]
  PROVE  Started(ws, us, w, threaded)
<1>1. PICK r : r = ws[w]
  OBVIOUS
<1>2. PICK q : q = [r EXCEPT !.pc = "start", !.threaded = threaded]
  OBVIOUS
<1>3. r \in WorkerRecord
  BY <1>1
<1>4. /\ q \in WorkerRecord /\ q.pc = "start" /\ q.threaded = threaded /\ q.i = r.i
      /\ q.end = r.end /\ q.scanned = r.scanned /\ q.status = r.status
  BY <1>2, <1>3 DEF WorkerRecord
<1>5. us = [ws EXCEPT ![w] = q]
  BY <1>1, <1>2
<1> QED
  BY <1>1, <1>4, <1>5 DEF Started

(* A step that starts the worker w. *)
LEMMA StartMoves ==
  ASSUME NEW a \in HandlerRecord, NEW b \in HandlerRecord, NEW sl,
         NEW ws \in [Workers -> WorkerRecord], NEW us,
         HandlerInv(a, ws, sl), Live(a), Live(b), NEW w \in 1..a.used,
         NEW threaded, ws[w].pc = "none", Started(ws, us, w, threaded),
         b.job = a.job, b.maps = a.maps, b.used = a.used, b.pc \notin {"check", "finish"},
         StageInv(b), PhaseInv(b, w, us[w]),
         \A v \in 1..a.used : v # w => PhaseInv(b, v, ws[v])
  PROVE  us \in [Workers -> WorkerRecord] /\ HandlerInv(b, us, sl)
<1>1. 1..a.used \subseteq Workers /\ a.used \in Nat
  BY HandlerFields
<1>2. /\ us \in [Workers -> WorkerRecord]
      /\ us[w].pc = "start" /\ us[w].threaded = threaded
      /\ us[w].i = ws[w].i /\ us[w].end = ws[w].end
      /\ us[w].scanned = ws[w].scanned /\ us[w].status = ws[w].status
      /\ \A v \in Workers : v # w => us[v] = ws[v]
  BY DEF Started
<1>3. \A v \in Workers : v > a.used => us[v] = ws[v]
  BY <1>1, <1>2
<1>4. \A v \in 1..b.used : PhaseInv(b, v, us[v])
  BY <1>1, <1>2
<1>5. \A v \in Workers :
        /\ us[v].i = ws[v].i /\ us[v].end = ws[v].end
        /\ us[v].scanned = ws[v].scanned /\ us[v].status = ws[v].status
        /\ us[v].pc = ws[v].pc \/ (ws[v].pc = "none" /\ us[v].pc = "start")
  BY <1>1, <1>2
<1>6. AnswerInv(b, us)
  BY DEF AnswerInv, Live
<1> QED
  BY <1>2, <1>3, <1>4, <1>5, <1>6, HandlerMoves

LEMMA SpawnKeeps ==
  ASSUME ScanInv, NEW h \in Handlers, Spawn(h)
  PROVE  ScanInv'
<1>1. PICK a, ws, w : a = handler[h] /\ ws = worker[h] /\ w = a.next
  OBVIOUS
<1>2. a.pc = "spawn" /\ w <= a.used /\ slot' = slot /\ alive' = alive
  BY <1>1 DEF Spawn
<1>3. /\ a \in HandlerRecord /\ ws \in [Workers -> WorkerRecord]
      /\ Live(a) /\ StageInv(a) /\ alive \in BOOLEAN
      /\ HandlerInv(a, ws, slot[a.slot])
      /\ \A v \in 1..a.used : v \in Workers /\ PhaseInv(a, v, ws[v])
  BY <1>1, <1>2, LaunchedSetting DEF Launched
<1>4. w \in Nat /\ a.used \in Nat /\ a.used <= Threads /\ Threads \in Nat
  BY <1>1, <1>3, HandlerFields, WorkersFacts
<1>5. w >= 2 /\ w \in 1..a.used /\ w \in Workers
  BY <1>1, <1>2, <1>3, <1>4 DEF StageInv
<1>6. ws[w].pc = "none"
  <2>1. Asleep(a, w)
    BY <1>1, <1>2, <1>4 DEF Asleep
  <2> QED
    BY <2>1, <1>3, <1>5 DEF PhaseInv
<1>7. PICK b, us, threaded :
        /\ threaded \in BOOLEAN
        /\ \/ threaded = TRUE /\ b = [a EXCEPT !.next = w + 1]
           \/ threaded = FALSE /\ b = [a EXCEPT !.pc = "inline"]
        /\ us = [ws EXCEPT ![w] = [ws[w] EXCEPT !.pc = "start", !.threaded = threaded]]
        /\ handler' = [handler EXCEPT ![h] = b] /\ worker' = [worker EXCEPT ![h] = us]
  <2>1. CASE /\ worker' = [worker EXCEPT ![h] =
                  [ws EXCEPT ![w] = [ws[w] EXCEPT !.pc = "start", !.threaded = TRUE]]]
             /\ handler' = [handler EXCEPT ![h] = [a EXCEPT !.next = w + 1]]
    BY <2>1, Zenon
  <2>2. CASE /\ worker' = [worker EXCEPT ![h] =
                  [ws EXCEPT ![w] = [ws[w] EXCEPT !.pc = "start", !.threaded = FALSE]]]
             /\ handler' = [handler EXCEPT ![h] = [a EXCEPT !.pc = "inline"]]
    BY <2>2, Zenon
  <2> QED
    BY <2>1, <2>2, <1>1 DEF Spawn, StartWorker, HandlerAt
<1>8. /\ b \in HandlerRecord /\ b.job = a.job /\ b.maps = a.maps /\ b.used = a.used
      /\ b.slot = a.slot
      /\ \/ threaded = TRUE /\ b.pc = "spawn" /\ b.next = w + 1
         \/ threaded = FALSE /\ b.pc = "inline" /\ b.next = w
  <2>1. w + 1 \in 0..Threads + 1
    BY <1>2, <1>4
  <2>2. CASE threaded = TRUE /\ b = [a EXCEPT !.next = w + 1]
    BY <2>1, <2>2, <1>1, <1>2, <1>3 DEF HandlerRecord
  <2>3. CASE threaded = FALSE /\ b = [a EXCEPT !.pc = "inline"]
    BY <2>3, <1>1, <1>2, <1>3 DEF HandlerRecord
  <2> QED
    BY <2>2, <2>3, <1>7
<1>9. Started(ws, us, w, threaded)
  BY <1>3, <1>5, <1>7, StartedBy
<1>10. Live(b) /\ b.pc \notin {"check", "finish"}
  BY <1>8 DEF Live
<1>11. StageInv(b)
  BY <1>2, <1>3, <1>4, <1>5, <1>8 DEF StageInv, Launched
<1>12. PhaseInv(b, w, us[w])
  <2>1. us[w].pc = "start" /\ us[w].threaded = threaded
    BY <1>9 DEF Started
  <2>2. ~Asleep(b, w) /\ (threaded \/ OnCaller(b, w))
    BY <1>4, <1>5, <1>8 DEF Asleep, OnCaller
  <2> QED
    BY <2>1, <2>2, <1>5, <1>8 DEF PhaseInv
<1>13. ASSUME NEW v \in 1..a.used, v # w PROVE PhaseInv(b, v, ws[v])
  <2>1. PhaseInv(a, v, ws[v]) /\ v \in Nat
    BY <1>3
  <2>2. Asleep(b, v) <=> Asleep(a, v)
    BY <2>1, <1>1, <1>2, <1>4, <1>8, <1>13 DEF Asleep
  <2>3. ~OnCaller(a, v)
    BY <1>2 DEF OnCaller
  <2> QED
    BY <2>1, <2>2, <2>3, <1>8 DEF PhaseInv
<1>14. us \in [Workers -> WorkerRecord] /\ HandlerInv(b, us, slot[a.slot])
  BY <1>3, <1>5, <1>6, <1>8, <1>9, <1>10, <1>11, <1>12, <1>13, StartMoves
<1> QED
  BY <1>1, <1>2, <1>3, <1>7, <1>8, <1>10, <1>14, HandlerGoesOn

LEMMA SpawnLastKeeps ==
  ASSUME ScanInv, NEW h \in Handlers, SpawnLast(h)
  PROVE  ScanInv'
<1>1. PICK a, ws : a = handler[h] /\ ws = worker[h]
  OBVIOUS
<1>2. a.pc = "spawn" /\ a.next > a.used /\ slot' = slot /\ alive' = alive
  BY <1>1 DEF SpawnLast
<1>3. /\ a \in HandlerRecord /\ ws \in [Workers -> WorkerRecord]
      /\ Live(a) /\ StageInv(a) /\ alive \in BOOLEAN /\ a.used > 0
      /\ HandlerInv(a, ws, slot[a.slot])
      /\ \A v \in 1..a.used : v \in Workers /\ PhaseInv(a, v, ws[v])
  BY <1>1, <1>2, LaunchedSetting DEF Launched
<1>4. a.next \in Nat /\ a.used \in Nat /\ 1 \in 1..a.used
  BY <1>3, HandlerFields
<1>5. ws[1].pc = "none"
  BY <1>2, <1>3, <1>4 DEF PhaseInv, Asleep
<1>6. PICK b : b = [a EXCEPT !.pc = "last"]
  OBVIOUS
<1>7. PICK us : us = [ws EXCEPT ![1] = [ws[1] EXCEPT !.pc = "start", !.threaded = FALSE]]
  OBVIOUS
<1>8. handler' = [handler EXCEPT ![h] = b] /\ worker' = [worker EXCEPT ![h] = us]
  BY <1>1, <1>6, <1>7 DEF SpawnLast, StartWorker, HandlerAt
<1>9. /\ b \in HandlerRecord /\ b.job = a.job /\ b.maps = a.maps /\ b.used = a.used
      /\ b.slot = a.slot /\ b.pc = "last"
  BY <1>3, <1>6 DEF HandlerRecord
<1>10. Started(ws, us, 1, FALSE)
  BY <1>3, <1>4, <1>7, StartedBy
<1>11. Live(b) /\ StageInv(b)
  BY <1>2, <1>3, <1>9 DEF StageInv, Launched, Live
<1>12. PhaseInv(b, 1, us[1])
  BY <1>9, <1>10 DEF PhaseInv, Started, Asleep, OnCaller
<1>13. ASSUME NEW v \in 1..a.used, v # 1 PROVE PhaseInv(b, v, ws[v])
  <2>1. PhaseInv(a, v, ws[v]) /\ v \in Nat
    BY <1>3
  <2>2. ~Asleep(b, v) /\ ~Asleep(a, v) /\ ~OnCaller(a, v)
    BY <2>1, <1>2, <1>4, <1>9, <1>13 DEF Asleep, OnCaller
  <2> QED
    BY <2>1, <2>2, <1>9, <1>13 DEF PhaseInv
<1>14. us \in [Workers -> WorkerRecord] /\ HandlerInv(b, us, slot[a.slot])
  BY <1>3, <1>4, <1>5, <1>9, <1>10, <1>11, <1>12, <1>13, StartMoves
<1> QED
  BY <1>1, <1>2, <1>3, <1>8, <1>9, <1>11, <1>14, HandlerGoesOn

(* A step of the handler alone. *)
LEMMA HandlerAlone ==
  ASSUME ScanInv, NEW h \in Handlers, handler[h].pc \in Launched, NEW b \in HandlerRecord,
         handler' = [handler EXCEPT ![h] = b], worker' = worker, slot' = slot,
         alive' \in BOOLEAN, Live(b),
         b.job = handler[h].job, b.maps = handler[h].maps, b.used = handler[h].used,
         b.slot = handler[h].slot, StageInv(b),
         \A w \in 1..b.used : PhaseInv(b, w, worker[h][w]), AnswerInv(b, worker[h])
  PROVE  ScanInv'
<1>1. /\ handler[h] \in HandlerRecord /\ worker[h] \in [Workers -> WorkerRecord]
      /\ Live(handler[h]) /\ HandlerInv(handler[h], worker[h], slot[handler[h].slot])
  BY LaunchedSetting
<1>2. PICK a, ws, sl : a = handler[h] /\ ws = worker[h] /\ sl = slot[handler[h].slot]
  OBVIOUS
<1>3. HandlerInv(b, ws, sl)
  BY <1>1, <1>2, HandlerMoves
<1> QED
  BY <1>1, <1>2, <1>3, HandlerGoesOn

LEMMA InlineDoneKeeps ==
  ASSUME ScanInv, NEW h \in Handlers, InlineDone(h)
  PROVE  ScanInv'
<1>1. PICK a, ws, w : a = handler[h] /\ ws = worker[h] /\ w = a.next
  OBVIOUS
<1>2. /\ a.pc = "inline" /\ ws[w].pc = "done" /\ slot' = slot /\ worker' = worker
      /\ alive' = alive
  BY <1>1 DEF InlineDone
<1>3. /\ a \in HandlerRecord /\ a.pc \in Launched /\ StageInv(a) /\ alive \in BOOLEAN
      /\ \A v \in 1..a.used : PhaseInv(a, v, ws[v])
  BY <1>1, <1>2, LaunchedSetting DEF Launched
<1>4. /\ w \in Nat /\ a.used \in Nat /\ a.used <= Threads /\ Threads \in Nat
      /\ w >= 2 /\ w <= a.used
  BY <1>1, <1>2, <1>3, HandlerFields, WorkersFacts DEF StageInv
<1>5. PICK b : b = [a EXCEPT !.pc = "spawn", !.next = w + 1]
  OBVIOUS
<1>6. handler' = [handler EXCEPT ![h] = b]
  BY <1>1, <1>5 DEF InlineDone
<1>7. /\ b \in HandlerRecord /\ b.job = a.job /\ b.maps = a.maps /\ b.used = a.used
      /\ b.slot = a.slot /\ b.pc = "spawn" /\ b.next = w + 1
  <2>1. w + 1 \in 0..Threads + 1
    BY <1>4
  <2> QED
    BY <2>1, <1>3, <1>5 DEF HandlerRecord
<1>8. Live(b) /\ StageInv(b) /\ AnswerInv(b, ws)
  <2>1. b.next \in 2..b.used + 1
    BY <1>4, <1>7
  <2> QED
    BY <2>1, <1>2, <1>3, <1>7 DEF StageInv, Launched, Live, AnswerInv
<1>9. ASSUME NEW v \in 1..b.used PROVE PhaseInv(b, v, ws[v])
  <2>1. PhaseInv(a, v, ws[v]) /\ v \in Nat
    BY <1>3, <1>7
  <2>2. Asleep(b, v) <=> Asleep(a, v)
    BY <2>1, <1>1, <1>2, <1>4, <1>7 DEF Asleep
  <2>3. OnCaller(a, v) => ws[v].pc = "done"
    BY <1>1, <1>2 DEF OnCaller
  <2> QED
    BY <2>1, <2>2, <2>3, <1>7 DEF PhaseInv
<1> QED
  BY <1>1, <1>2, <1>3, <1>6, <1>7, <1>8, <1>9, HandlerAlone

LEMMA LastDoneKeeps ==
  ASSUME ScanInv, NEW h \in Handlers, LastDone(h)
  PROVE  ScanInv'
<1>1. PICK a, ws : a = handler[h] /\ ws = worker[h]
  OBVIOUS
<1>2. /\ a.pc = "last" /\ ws[1].pc = "done" /\ slot' = slot /\ worker' = worker
      /\ alive' = alive
  BY <1>1 DEF LastDone
<1>3. /\ a \in HandlerRecord /\ a.pc \in Launched /\ StageInv(a) /\ alive \in BOOLEAN
      /\ a.used > 0 /\ \A v \in 1..a.used : PhaseInv(a, v, ws[v])
  BY <1>1, <1>2, LaunchedSetting DEF Launched
<1>4. a.used \in Nat /\ a.used <= Threads /\ Threads \in Nat
  BY <1>3, HandlerFields, WorkersFacts
<1>5. PICK b : b = [a EXCEPT !.pc = "join", !.next = 2]
  OBVIOUS
<1>6. handler' = [handler EXCEPT ![h] = b]
  BY <1>1, <1>5 DEF LastDone
<1>7. /\ b \in HandlerRecord /\ b.job = a.job /\ b.maps = a.maps /\ b.used = a.used
      /\ b.slot = a.slot /\ b.pc = "join" /\ b.next = 2
  <2>1. 2 \in 0..Threads + 1
    BY <1>3, <1>4
  <2> QED
    BY <2>1, <1>3, <1>5 DEF HandlerRecord
<1>8. Live(b) /\ StageInv(b) /\ AnswerInv(b, ws)
  <2>1. b.next \in 2..b.used + 1
    BY <1>3, <1>4, <1>7
  <2> QED
    BY <2>1, <1>2, <1>3, <1>7 DEF StageInv, Launched, Live, AnswerInv
<1>9. ASSUME NEW v \in 1..b.used PROVE PhaseInv(b, v, ws[v])
  <2>1. PhaseInv(a, v, ws[v]) /\ v \in Nat
    BY <1>3, <1>7
  <2>2. ~Asleep(b, v) /\ ~Asleep(a, v)
    BY <1>2, <1>7 DEF Asleep
  <2>3. OnCaller(a, v) => ws[v].pc = "done"
    BY <1>2 DEF OnCaller
  <2>4. v < b.next => ws[v].pc = "done"
    <3>1. v < 2 => v = 1
      BY <1>4, <1>7
    <3> QED
      BY <3>1, <1>2, <1>7
  <2> QED
    BY <2>1, <2>2, <2>3, <2>4, <1>7 DEF PhaseInv
<1> QED
  BY <1>1, <1>2, <1>3, <1>6, <1>7, <1>8, <1>9, HandlerAlone

LEMMA JoinWorkerKeeps ==
  ASSUME ScanInv, NEW h \in Handlers, JoinWorker(h)
  PROVE  ScanInv'
<1>1. PICK a, ws, w : a = handler[h] /\ ws = worker[h] /\ w = a.next
  OBVIOUS
<1>2. /\ a.pc = "join" /\ w <= a.used /\ slot' = slot /\ worker' = worker
      /\ ws[w].threaded => ws[w].pc = "done"
  BY <1>1 DEF JoinWorker
<1>3. /\ a \in HandlerRecord /\ a.pc \in Launched /\ StageInv(a) /\ alive \in BOOLEAN
      /\ \A v \in 1..a.used : PhaseInv(a, v, ws[v])
  BY <1>1, <1>2, LaunchedSetting DEF Launched
<1>4. /\ w \in Nat /\ a.used \in Nat /\ a.used <= Threads /\ Threads \in Nat
      /\ w >= 2 /\ w <= a.used /\ w \in 1..a.used
  BY <1>1, <1>2, <1>3, HandlerFields, WorkersFacts DEF StageInv
<1>5. alive' \in BOOLEAN
  BY <1>3 DEF JoinWorker
<1>6. PICK b : b = [a EXCEPT !.next = w + 1]
  OBVIOUS
<1>7. handler' = [handler EXCEPT ![h] = b]
  BY <1>1, <1>6 DEF JoinWorker
<1>8. /\ b \in HandlerRecord /\ b.job = a.job /\ b.maps = a.maps /\ b.used = a.used
      /\ b.slot = a.slot /\ b.pc = "join" /\ b.next = w + 1
  <2>1. w + 1 \in 0..Threads + 1
    BY <1>4
  <2> QED
    BY <2>1, <1>2, <1>3, <1>6 DEF HandlerRecord
<1>9. Live(b) /\ StageInv(b) /\ AnswerInv(b, ws)
  <2>1. b.next \in 2..b.used + 1
    BY <1>4, <1>8
  <2> QED
    BY <2>1, <1>2, <1>3, <1>8 DEF StageInv, Launched, Live, AnswerInv
<1>10. ws[w].pc = "done"
  <2>1. PhaseInv(a, w, ws[w])
    BY <1>3, <1>4
  <2>2. ~Asleep(a, w) /\ ~OnCaller(a, w)
    BY <1>2 DEF Asleep, OnCaller
  <2> QED
    BY <2>1, <2>2, <1>2 DEF PhaseInv
<1>11. ASSUME NEW v \in 1..b.used PROVE PhaseInv(b, v, ws[v])
  <2>1. PhaseInv(a, v, ws[v]) /\ v \in Nat
    BY <1>3, <1>8
  <2>2. ~Asleep(b, v) /\ ~Asleep(a, v) /\ ~OnCaller(a, v)
    BY <1>2, <1>8 DEF Asleep, OnCaller
  <2>3. v < b.next => v < a.next \/ v = w
    BY <2>1, <1>1, <1>4, <1>8
  <2> QED
    BY <2>1, <2>2, <2>3, <1>2, <1>8, <1>10 DEF PhaseInv
<1> QED
  BY <1>1, <1>2, <1>3, <1>5, <1>7, <1>8, <1>9, <1>11, HandlerAlone

LEMMA MergeKeeps ==
  ASSUME ScanInv, NEW h \in Handlers, Merge(h)
  PROVE  ScanInv'
<1>1. PICK a, ws : a = handler[h] /\ ws = worker[h]
  OBVIOUS
<1>2. /\ a.pc = "join" /\ a.next > a.used /\ slot' = slot /\ worker' = worker
      /\ alive' = alive
  BY <1>1 DEF Merge
<1>3. /\ a \in HandlerRecord /\ ws \in [Workers -> WorkerRecord]
      /\ a.pc \in Launched /\ StageInv(a) /\ alive \in BOOLEAN
      /\ \A v \in 1..a.used : v \in Workers /\ PhaseInv(a, v, ws[v])
  BY <1>1, <1>2, LaunchedSetting DEF Launched
<1>4. a.next \in Nat /\ a.used \in Nat
  BY <1>3, HandlerFields
<1>5. PICK st : st = IF \E w \in 1..a.used : ws[w].status = "ERROR" THEN "ERROR" ELSE "OK"
  OBVIOUS
<1>6. PICK b : b = [a EXCEPT !.pc = "check", !.status = st]
  OBVIOUS
<1>7. handler' = [handler EXCEPT ![h] = b]
  BY <1>1, <1>5, <1>6 DEF Merge
<1>8. /\ b \in HandlerRecord /\ b.job = a.job /\ b.maps = a.maps /\ b.used = a.used
      /\ b.slot = a.slot /\ b.pc = "check" /\ b.status = st
  <2>1. st \in {"OK", "ERROR"}
    BY <1>5
  <2> QED
    BY <2>1, <1>3, <1>6 DEF HandlerRecord
<1>9. Live(b) /\ StageInv(b)
  BY <1>2, <1>3, <1>8 DEF StageInv, Launched, Live
<1>10. ASSUME NEW v \in 1..b.used PROVE PhaseInv(b, v, ws[v])
  <2>1. PhaseInv(a, v, ws[v]) /\ v < a.next
    BY <1>2, <1>3, <1>4, <1>8
  <2>2. ~Asleep(b, v)
    BY <1>8 DEF Asleep
  <2> QED
    BY <2>1, <2>2, <1>2, <1>8 DEF PhaseInv
<1>11. AnswerInv(b, ws)
  <2>1. ASSUME b.status = "OK", NEW v \in 1..b.used PROVE ws[v].status = "OK"
    <3>1. ws[v].status # "ERROR"
      BY <2>1, <1>5, <1>8
    <3> QED
      BY <3>1, <1>3, <1>8, WorkerFields
  <2> QED
    BY <2>1, <1>8 DEF AnswerInv
<1> QED
  BY <1>1, <1>2, <1>3, <1>7, <1>8, <1>9, <1>10, <1>11, HandlerAlone

LEMMA CheckCancelledKeeps ==
  ASSUME ScanInv, NEW h \in Handlers, CheckCancelled(h)
  PROVE  ScanInv'
<1>1. PICK a, ws, sl : a = handler[h] /\ ws = worker[h] /\ sl = slot[a.slot]
  OBVIOUS
<1>2. a.pc = "check" /\ slot' = slot /\ worker' = worker /\ alive' = alive
  BY <1>1 DEF CheckCancelled
<1>3. /\ a \in HandlerRecord /\ a.pc \in Launched /\ StageInv(a) /\ alive \in BOOLEAN
      /\ Live(a) /\ HandlerInv(a, ws, sl) /\ a.used > 0
      /\ \A v \in 1..a.used : PhaseInv(a, v, ws[v])
  BY <1>1, <1>2, LaunchedSetting DEF Launched
<1>4. sl.cancel \in BOOLEAN
  BY <1>1, <1>3, InvFacts, SlotFields
<1>5. PICK b : b = [a EXCEPT !.pc = "finish", !.cancelled = sl.cancel]
  OBVIOUS
<1>6. handler' = [handler EXCEPT ![h] = b]
  BY <1>1, <1>5 DEF CheckCancelled
<1>7. /\ b \in HandlerRecord /\ b.job = a.job /\ b.maps = a.maps /\ b.used = a.used
      /\ b.slot = a.slot /\ b.pc = "finish" /\ b.status = a.status /\ b.cancelled = sl.cancel
  BY <1>3, <1>4, <1>5 DEF HandlerRecord
<1>8. Live(b) /\ StageInv(b)
  BY <1>2, <1>3, <1>7 DEF StageInv, Launched, Live
<1>9. ASSUME NEW v \in 1..b.used PROVE PhaseInv(b, v, ws[v])
  <2>1. PhaseInv(a, v, ws[v])
    BY <1>3, <1>7
  <2>2. ~Asleep(b, v)
    BY <1>7 DEF Asleep
  <2> QED
    BY <2>1, <2>2, <1>2, <1>7 DEF PhaseInv
<1>10. AnswerInv(b, ws)
  <2>1. ASSUME b.status = "OK", ~b.cancelled, NEW v \in 1..b.used
        PROVE  ws[v].scanned = Share(b, v)
    <3>1. ws[v].status = "OK" /\ ws[v].pc = "done"
      BY <2>1, <1>2, <1>3, <1>7 DEF HandlerInv, AnswerInv, PhaseInv
    <3>2. EndInv(a, v, ws[v], sl.cancel)
      BY <1>3, <1>7 DEF HandlerInv, WorkersInv
    <3>3. ws[v].scanned = Share(a, v)
      BY <3>1, <3>2, <2>1, <1>3, <1>7 DEF EndInv
    <3> QED
      BY <3>3, <1>7 DEF Share, Reached
  <2> QED
    BY <2>1, <1>7 DEF AnswerInv
<1> QED
  BY <1>1, <1>2, <1>3, <1>6, <1>7, <1>8, <1>9, <1>10, HandlerAlone

-----------------------------------------------------------------------------
(* handle_scan_process_exact_tracked *)

(* A handler without workers. *)
LEMMA NoWorkers ==
  ASSUME NEW a \in HandlerRecord, NEW ws, NEW sl, a.used = 0, WorkersInv(a, ws, sl)
  PROVE  /\ \A w \in Workers : ws[w] = NoWorker
         /\ BusyOf(ws) = {} /\ Counted(ws) = {} /\ Cardinality({}) = 0
<1>1. \A w \in Workers : ws[w] = NoWorker
  BY WorkersFacts DEF WorkersInv
<1>2. BusyOf(ws) = {}
  BY <1>1, NoWorkerFacts DEF BusyOf
<1>3. Counted(ws) = {}
  BY <1>1, NoWorkerFacts DEF Counted, CountedBy
<1> QED
  BY <1>1, <1>2, <1>3, FS_EmptySet

LEMMA PrepareFails ==
  ASSUME ScanInv, NEW h \in Handlers, handler[h].pc = "prepare",
         handler' = [handler EXCEPT ![h] = [handler[h] EXCEPT !.pc = "finish",
                                                              !.status = "ERROR"]],
         alive' \in BOOLEAN, slot' = slot, worker' = worker
  PROVE  ScanInv'
<1>1. PICK a, ws, sl : a = handler[h] /\ ws = worker[h] /\ sl = slot[a.slot]
  OBVIOUS
<1>2. a \in HandlerRecord /\ ws \in [Workers -> WorkerRecord] /\ HandlerInv(a, ws, sl)
  BY <1>1, InvFacts
<1>3. PICK b : b = [a EXCEPT !.pc = "finish", !.status = "ERROR"]
  OBVIOUS
<1>4. /\ b \in HandlerRecord /\ b.job = a.job /\ b.maps = a.maps /\ b.used = a.used
      /\ b.slot = a.slot /\ b.pc = "finish" /\ b.status = "ERROR"
  BY <1>2, <1>3 DEF HandlerRecord
<1>5. a.used = 0 /\ Live(a) /\ Live(b) /\ a.pc = "prepare"
  BY <1>1, <1>2, <1>4 DEF HandlerInv, StageInv, Live
<1>6. HandlerInv(b, ws, sl)
  <2>1. StageInv(b)
    BY <1>2, <1>4, <1>5 DEF HandlerInv, StageInv, Launched
  <2>2. WorkersInv(b, ws, sl)
    <3>1. \A w \in 1..b.used : FALSE
      BY <1>4, <1>5
    <3> QED
      BY <3>1, <1>2, <1>4 DEF HandlerInv, WorkersInv
  <2>3. AnswerInv(b, ws)
    BY <1>4 DEF AnswerInv
  <2>4. CounterInv(b, ws, sl)
    BY <1>2, <1>4, <1>5 DEF HandlerInv, CounterInv
  <2> QED
    BY <2>1, <2>2, <2>3, <2>4 DEF HandlerInv
<1>7. handler' = [handler EXCEPT ![h] = b]
  BY <1>1, <1>3
<1> QED
  BY <1>1, <1>2, <1>4, <1>5, <1>6, <1>7, HandlerGoesOn

(* The workers that Prepare makes for the job j. *)
Fresh(j) ==
  [w \in Workers |-> IF w > Len(Parts[j]) THEN NoWorker
                     ELSE [NoWorker EXCEPT !.i = Parts[j][w].first, !.end = Parts[j][w].end]]

LEMMA PartsTyped ==
  ASSUME NEW j \in Jobs
  PROVE  /\ Len(Parts[j]) \in 1..Threads /\ Len(Parts[j]) \in Nat
         /\ \A w \in 1..Len(Parts[j]) : Parts[j][w].first \in Nat /\ Parts[j][w].end \in Nat
<1>1. MapLists[j] \in Seq(Nat) /\ Len(Parts[j]) \in 1..Threads /\ Threads \in Nat
  BY PartsFacts, WorkersFacts
<1>2. \A w \in 1..Len(Parts[j]) : /\ Parts[j][w].first \in 1..Len(MapLists[j]) + 1
                                  /\ Parts[j][w].end \in 1..Len(MapLists[j]) + 1
  BY PartsFacts
<1> QED
  BY <1>1, <1>2

LEMMA FreshTyped ==
  ASSUME NEW j \in Jobs
  PROVE  /\ Fresh(j) \in [Workers -> WorkerRecord]
         /\ \A w \in Workers : w > Len(Parts[j]) => Fresh(j)[w] = NoWorker
         /\ \A w \in 1..Len(Parts[j]) :
              /\ Fresh(j)[w].pc = "none" /\ Fresh(j)[w].scanned = {}
              /\ Fresh(j)[w].i = Parts[j][w].first /\ Fresh(j)[w].end = Parts[j][w].end
              /\ Fresh(j)[w].threaded = FALSE
         /\ \A w \in Workers : Fresh(j)[w].pc = "none" /\ Fresh(j)[w].scanned = {}
<1>1. PICK p : p = Parts[j]
  OBVIOUS
<1>2. /\ Len(p) \in 1..Threads /\ Len(p) \in Nat /\ Workers = 1..Threads /\ Threads \in Nat
      /\ \A w \in 1..Len(p) : p[w].first \in Nat /\ p[w].end \in Nat
  BY <1>1, PartsTyped, WorkersFacts
<1>3. PICK us : us = Fresh(j)
  OBVIOUS
<1>4. us = [w \in Workers |-> IF w > Len(p) THEN NoWorker
                              ELSE [NoWorker EXCEPT !.i = p[w].first, !.end = p[w].end]]
  BY <1>1, <1>3 DEF Fresh
<1>5. \A w \in Workers : w > Len(p) => us[w] = NoWorker
  BY <1>4
<1>6. ASSUME NEW w \in 1..Len(p)
      PROVE  /\ us[w] \in WorkerRecord /\ us[w].pc = "none" /\ us[w].scanned = {}
             /\ us[w].i = p[w].first /\ us[w].end = p[w].end /\ us[w].threaded = FALSE
  <2>1. PICK q : q = [NoWorker EXCEPT !.i = p[w].first, !.end = p[w].end]
    OBVIOUS
  <2>2. w \in Workers /\ ~(w > Len(p))
    BY <1>2
  <2>3. us[w] = q
    BY <2>1, <2>2, <1>4
  <2>4. p[w].first \in Nat /\ p[w].end \in Nat
    BY <1>2
  <2>5. /\ q \in WorkerRecord /\ q.pc = "none" /\ q.scanned = {}
        /\ q.i = p[w].first /\ q.end = p[w].end /\ q.threaded = FALSE
    BY <2>1, <2>4 DEF WorkerRecord, NoWorker
  <2> QED
    BY <2>3, <2>5
<1>7. \A w \in Workers : w > Len(p) \/ w \in 1..Len(p)
  BY <1>2
<1>8. \A w \in Workers : us[w] \in WorkerRecord /\ us[w].pc = "none" /\ us[w].scanned = {}
  BY <1>5, <1>6, <1>7, NoWorkerFacts
<1>9. us = [w \in Workers |-> us[w]]
  BY <1>4
<1>10. us \in [Workers -> WorkerRecord]
  BY <1>8, <1>9
<1> QED
  BY <1>1, <1>3, <1>5, <1>6, <1>8, <1>10

LEMMA FreshInv ==
  ASSUME NEW b \in HandlerRecord, b.pc = "spawn", b.next = 2, b.job \in Jobs,
         b.slot \in Slots, b.maps = MapLists[b.job], b.used = Len(Parts[b.job]),
         NEW tl \in SlotRecord, tl.active = 0, tl.maps_done = 0,
         tl.workers_total = b.used, tl.maps_total = Cardinality(Effective(b.maps))
  PROVE  HandlerInv(b, Fresh(b.job), tl)
<1>1. PICK j \in Jobs : j = b.job
  OBVIOUS
<1>13. PICK us : us = Fresh(j)
  OBVIOUS
<1>2. PICK n : n = Len(Parts[j])
  OBVIOUS
<1>3. /\ n \in 1..Threads /\ n \in Nat
      /\ \A w \in 1..n : Parts[j][w].first \in Nat /\ Parts[j][w].end \in Nat
  BY <1>2, PartsTyped
<1>4. b.used = n /\ b.maps = MapLists[j]
  BY <1>1, <1>2
<1>5. /\ us \in [Workers -> WorkerRecord]
      /\ \A w \in Workers : w > n => us[w] = NoWorker
      /\ \A w \in Workers : us[w].pc = "none" /\ us[w].scanned = {}
      /\ \A w \in 1..n :
           /\ us[w].pc = "none" /\ us[w].scanned = {}
           /\ us[w].i = Parts[j][w].first /\ us[w].end = Parts[j][w].end
           /\ us[w].threaded = FALSE
  BY <1>2, <1>13, FreshTyped
<1>6. StageInv(b)
  <2>1. b.used > 0 /\ b.next \in 2..b.used + 1
    BY <1>3, <1>4
  <2> QED
    BY <2>1 DEF StageInv, Launched
<1>7. ASSUME NEW w \in 1..n
      PROVE  PhaseInv(b, w, us[w]) /\ ScannedInv(b, w, us[w]) /\ EndInv(b, w, us[w], tl.cancel)
  <2>1. PICK q, first : q = us[w] /\ first = Parts[j][w].first
    OBVIOUS
  <2>2. /\ q.pc = "none" /\ q.scanned = {} /\ q.threaded = FALSE
        /\ q.i = first /\ q.end = Parts[j][w].end /\ first \in Nat
    BY <2>1, <1>3, <1>5
  <2>3. Asleep(b, w)
    <3>1. w = 1 \/ w >= 2
      BY <1>3
    <3> QED
      BY <3>1 DEF Asleep
  <2>4. PhaseInv(b, w, q)
    BY <2>2, <2>3 DEF PhaseInv
  <2>5. Reached(b, w, first) = {}
    <3>1. MapLists[j] \in Seq(Nat) /\ Len(MapLists[j]) \in Nat
      BY PartsFacts
    <3>2. Effective(MapLists[j]) \subseteq Nat
      BY <3>1, EffectiveFinite
    <3>3. Effective(b.maps) = Effective(MapLists[j])
      BY <1>4
    <3>4. \A x \in Nat : ~(first <= x /\ x < first)
      BY <2>2
    <3>5. Parts[b.job][w].first = first
      BY <2>1, <1>1
    <3> QED
      BY <3>2, <3>3, <3>4, <3>5 DEF Reached
  <2>6. Parts[b.job][w].first = first /\ Parts[b.job][w].end = q.end /\ q.i >= first
    BY <2>1, <2>2, <1>1
  <2>7. ScannedInv(b, w, q)
    BY <2>2, <2>5, <2>6 DEF ScannedInv
  <2>8. EndInv(b, w, q, tl.cancel)
    BY <2>2 DEF EndInv
  <2> QED
    BY <2>1, <2>4, <2>7, <2>8
<1>8. WorkersInv(b, us, tl)
  BY <1>4, <1>5, <1>7 DEF WorkersInv
<1>9. AnswerInv(b, us)
  BY DEF AnswerInv
<1>10. BusyOf(us) = {}
  BY <1>5 DEF BusyOf
<1>11. Counted(us) = {}
  BY <1>5 DEF Counted, CountedBy
<1>12. CounterInv(b, us, tl)
  <2>1. Cardinality(BusyOf(us)) = 0 /\ Cardinality(Counted(us)) = 0
    BY <1>10, <1>11, FS_EmptySet
  <2> QED
    BY <2>1 DEF CounterInv
<1> QED
  BY <1>1, <1>13, <1>6, <1>8, <1>9, <1>12 DEF HandlerInv

LEMMA PrepareKeeps ==
  ASSUME ScanInv, NEW h \in Handlers, Prepare(h)
  PROVE  ScanInv'
<1>1. PICK a, ws, s, sl : /\ a = handler[h] /\ ws = worker[h] /\ s = a.slot
                          /\ sl = slot[s]
  OBVIOUS
<1>2. a.pc = "prepare"
  BY <1>1 DEF Prepare
<1>3. /\ a \in HandlerRecord /\ ws \in [Workers -> WorkerRecord] /\ HandlerInv(a, ws, sl)
      /\ Live(a) /\ a.job \in Jobs /\ s \in Slots /\ sl \in SlotRecord
  <2>1. a \in HandlerRecord /\ ws \in [Workers -> WorkerRecord] /\ HandlerInv(a, ws, sl)
    BY <1>1, InvFacts
  <2>2. Live(a)
    BY <1>2 DEF Live
  <2> QED
    BY <2>1, <2>2, <1>1, InvFacts
<1>4. CASE /\ handler' = [handler EXCEPT ![h] = [handler[h] EXCEPT !.pc = "finish",
                                                                   !.status = "ERROR"]]
           /\ alive' \in BOOLEAN /\ slot' = slot /\ worker' = worker
  BY <1>1, <1>2, <1>4, PrepareFails
<1>5. CASE LET maps == MapLists[a.job]
               parts == Parts[a.job]
           IN /\ handler' = [handler EXCEPT ![h] = [a EXCEPT !.pc = "spawn", !.maps = maps,
                                                     !.used = Len(parts), !.next = 2]]
              /\ worker' = [worker EXCEPT ![h] =
                   [w \in Workers |-> IF w > Len(parts) THEN NoWorker
                                      ELSE [NoWorker EXCEPT !.i = parts[w].first,
                                                            !.end = parts[w].end]]]
              /\ slot' = [slot EXCEPT ![s] =
                   [sl EXCEPT !.maps_total = Cardinality(Effective(maps)),
                              !.workers_total = Len(parts)]]
              /\ alive' = alive
  <2>1. PICK maps, used : maps = MapLists[a.job] /\ used = Len(Parts[a.job])
    OBVIOUS
  <2>2. PICK total : total = Cardinality(Effective(maps))
    OBVIOUS
  <2>3. PICK b : b = [a EXCEPT !.pc = "spawn", !.maps = maps, !.used = used, !.next = 2]
    OBVIOUS
  <2>4. PICK us : us = Fresh(a.job)
    OBVIOUS
  <2>5. PICK tl : tl = [sl EXCEPT !.maps_total = total, !.workers_total = used]
    OBVIOUS
  <2>6. /\ handler' = [handler EXCEPT ![h] = b] /\ worker' = [worker EXCEPT ![h] = us]
        /\ slot' = [slot EXCEPT ![s] = tl] /\ alive' = alive
    BY <1>5, <2>1, <2>2, <2>3, <2>4, <2>5 DEF Fresh
  <2>7. maps \in Seq(Nat) /\ used \in 0..Threads /\ used \in Nat /\ 2 \in 0..Threads + 1
        /\ total \in Nat
    <3>1. maps \in Seq(Nat) /\ used \in 1..Threads /\ Threads \in Nat
      BY <2>1, <1>3, PartsFacts, WorkersFacts
    <3>2. total \in Nat
      BY <3>1, <2>2, EffectiveFinite
    <3> QED
      BY <3>1, <3>2
  <2>8. /\ b \in HandlerRecord /\ b.pc = "spawn" /\ b.next = 2 /\ b.job = a.job
        /\ b.slot = s /\ b.maps = maps /\ b.used = used
    <3>1. maps \in {MapLists[j] : j \in Jobs} \cup {<<>>}
      BY <2>1, <1>3
    <3> QED
      BY <3>1, <2>3, <2>7, <1>1, <1>3 DEF HandlerRecord
  <2>9. /\ tl \in SlotRecord /\ tl.active = sl.active /\ tl.maps_done = sl.maps_done
        /\ tl.workers_total = used /\ tl.maps_total = total /\ tl.job = sl.job
        /\ tl.state = sl.state
    BY <2>5, <2>7, <1>3 DEF SlotRecord
  <2>10. tl.active = 0 /\ tl.maps_done = 0
    <3>1. a.used = 0 /\ WorkersInv(a, ws, sl) /\ CounterInv(a, ws, sl)
      BY <1>2, <1>3 DEF HandlerInv, StageInv
    <3>2. BusyOf(ws) = {} /\ Counted(ws) = {} /\ Cardinality({}) = 0
      BY <3>1, <1>3, NoWorkers
    <3>3. sl.active = 0 /\ sl.maps_done <= 0 /\ sl.maps_done \in Nat
      BY <3>1, <3>2, <1>3, SlotFields DEF CounterInv
    <3> QED
      BY <3>3, <2>9
  <2>11. us \in [Workers -> WorkerRecord] /\ HandlerInv(b, us, tl)
    <3>1. us \in [Workers -> WorkerRecord]
      BY <2>4, <1>3, FreshTyped
    <3>2. HandlerInv(b, us, tl)
      BY <2>1, <2>2, <2>4, <2>8, <2>9, <2>10, <1>3, FreshInv
    <3> QED
      BY <3>1, <3>2
  <2>12. /\ worker \in [Handlers -> [Workers -> WorkerRecord]]
         /\ slot \in [Slots -> SlotRecord] /\ handler \in [Handlers -> HandlerRecord]
         /\ alive \in BOOLEAN
    BY InvFacts DEF TypeOK
  <2>13. handler' \in [Handlers -> HandlerRecord] /\ handler'[h] = b
         /\ \A k \in Handlers : k # h => handler'[k] = handler[k]
    BY <2>6, <2>8, <2>12
  <2>14. worker' \in [Handlers -> [Workers -> WorkerRecord]] /\ worker'[h] = us
         /\ \A k \in Handlers : k # h => worker'[k] = worker[k]
    BY <2>6, <2>11, <2>12
  <2>15. slot' \in [Slots -> SlotRecord] /\ slot'[s] = tl
         /\ \A u \in Slots : u # s => slot'[u] = slot[u]
    BY <2>6, <2>9, <2>12, <1>3
  <2>16. TypeOK'
    BY <2>6, <2>12, <2>13, <2>14, <2>15 DEF TypeOK
  <2>17. Live(handler'[h])
    BY <2>8, <2>13 DEF Live
  <2>18. \A k \in Handlers : k # h => handler'[k] = handler[k] /\ worker'[k] = worker[k]
    BY <2>13, <2>14
  <2>19. HandlerInv(handler'[h], worker'[h], slot'[s])
    BY <2>11, <2>13, <2>14, <2>15
  <2>20. /\ handler'[h].slot = s /\ handler'[h].job = handler[h].job
         /\ slot'[s].job = slot[s].job /\ slot'[s].state = slot[s].state
    BY <2>8, <2>9, <2>13, <2>15, <1>1
  <2> QED
    BY <2>15, <2>16, <2>17, <2>18, <2>19, <2>20, <1>1, <1>3, GoesOn
<1> QED
  BY <1>1, <1>4, <1>5 DEF Prepare

(* A slot that scan_job_begin may take is no running scan's. *)
LEMMA ReusableIsFree ==
  ASSUME ScanInv, NEW s \in Slots, Reusable(s), NEW k \in Handlers, Live(handler[k])
  PROVE  handler[k].slot # s
<1>1. /\ slot[handler[k].slot].job \in Jobs /\ slot[handler[k].slot].state = "RUNNING"
  BY InvFacts
<1>2. NoJob \notin Jobs
  BY ScanAssumption DEF NoJob
<1> QED
  BY <1>1, <1>2 DEF Reusable, Finished

LEMMA JobBeginKeeps ==
  ASSUME ScanInv, NEW h \in Handlers, NEW j \in Jobs, JobBegin(h, j)
  PROVE  ScanInv'
<1>1. PICK s \in Slots :
        /\ Reusable(s)
        /\ slot' = [slot EXCEPT ![s] = [FreeSlot EXCEPT !.job = j, !.state = "RUNNING"]]
        /\ handler' = [handler EXCEPT ![h] = [IdleHandler EXCEPT !.pc = "prepare",
                                                                 !.job = j, !.slot = s]]
  BY DEF JobBegin
<1>2. handler[h].pc = "idle" /\ worker' = worker /\ alive' = alive
  BY DEF JobBegin
<1>3. PICK b : b = [IdleHandler EXCEPT !.pc = "prepare", !.job = j, !.slot = s]
  OBVIOUS
<1>4. PICK tl : tl = [FreeSlot EXCEPT !.job = j, !.state = "RUNNING"]
  OBVIOUS
<1>5. handler' = [handler EXCEPT ![h] = b] /\ slot' = [slot EXCEPT ![s] = tl]
  BY <1>1, <1>3, <1>4
<1>6. b \in HandlerRecord /\ b.pc = "prepare" /\ b.job = j /\ b.slot = s /\ b.used = 0
  <2>1. 0 \in 0..Threads /\ 0 \in 0..Threads + 1
    BY WorkersFacts
  <2>2. IdleHandler \in HandlerRecord /\ IdleHandler.used = 0
    BY <2>1 DEF HandlerRecord, IdleHandler
  <2> QED
    BY <2>2, <1>3 DEF HandlerRecord
<1>7. /\ tl \in SlotRecord /\ tl.job = j /\ tl.state = "RUNNING" /\ tl.active = 0
      /\ tl.maps_done = 0
  BY <1>4 DEF SlotRecord, FreeSlot
<1>8. /\ worker \in [Handlers -> [Workers -> WorkerRecord]]
      /\ slot \in [Slots -> SlotRecord] /\ handler \in [Handlers -> HandlerRecord]
      /\ alive \in BOOLEAN
  BY InvFacts DEF TypeOK
<1>9. handler' \in [Handlers -> HandlerRecord] /\ handler'[h] = b
      /\ \A k \in Handlers : k # h => handler'[k] = handler[k]
  BY <1>5, <1>6, <1>8
<1>10. slot' \in [Slots -> SlotRecord] /\ slot'[s] = tl
       /\ \A u \in Slots : u # s => slot'[u] = slot[u]
  BY <1>5, <1>7, <1>8
<1>11. TypeOK'
  BY <1>2, <1>8, <1>9, <1>10 DEF TypeOK
<1>12. HandlerInv(b, worker[h], tl)
  <2>1. PICK a, ws, sl : a = handler[h] /\ ws = worker[h] /\ sl = slot[handler[h].slot]
    OBVIOUS
  <2>2. a \in HandlerRecord /\ HandlerInv(a, ws, sl) /\ a.pc = "idle"
    BY <2>1, <1>2, InvFacts
  <2>3. a.used = 0 /\ WorkersInv(a, ws, sl)
    BY <2>2 DEF HandlerInv, StageInv
  <2>4. /\ \A w \in Workers : ws[w] = NoWorker
        /\ BusyOf(ws) = {} /\ Counted(ws) = {} /\ Cardinality({}) = 0
    BY <2>2, <2>3, NoWorkers
  <2>5. StageInv(b)
    BY <1>6 DEF StageInv, Launched
  <2>6. WorkersInv(b, ws, tl)
    <3>1. \A w \in 1..b.used : FALSE
      BY <1>6
    <3> QED
      BY <3>1, <2>4 DEF WorkersInv
  <2>7. AnswerInv(b, ws)
    BY <1>6 DEF AnswerInv
  <2>8. CounterInv(b, ws, tl)
    BY <2>4, <1>6, <1>7 DEF CounterInv
  <2> QED
    BY <2>1, <2>5, <2>6, <2>7, <2>8 DEF HandlerInv
<1>13. \A k \in Handlers : Live(handler[k]) => handler[k].slot # s /\ handler[k].slot \in Slots
  BY <1>1, ReusableIsFree, InvFacts
<1>14. \A k \in Handlers : HandlerInv(handler'[k], worker'[k], slot'[handler'[k].slot])
  <2>1. \A k \in Handlers : k # h => handler'[k] = handler[k] /\ worker'[k] = worker[k]
    BY <1>2, <1>9
  <2>2. \A k \in Handlers : k # h /\ Live(handler[k])
                              => slot'[handler[k].slot] = slot[handler[k].slot]
    BY <1>10, <1>13
  <2>3. HandlerInv(handler'[h], worker'[h], slot'[handler'[h].slot])
    BY <1>2, <1>6, <1>9, <1>10, <1>12
  <2> QED
    BY <2>1, <2>2, <2>3, Elsewhere
<1>15. \A k \in Handlers : Live(handler'[k]) =>
         /\ slot'[handler'[k].slot].job = handler'[k].job
         /\ slot'[handler'[k].slot].state = "RUNNING"
  <2>1. \A k \in Handlers : k # h /\ Live(handler[k]) =>
          /\ slot'[handler[k].slot].job = handler[k].job
          /\ slot'[handler[k].slot].state = "RUNNING"
    BY <1>10, <1>13, InvFacts
  <2> QED
    BY <2>1, <1>6, <1>7, <1>9, <1>10
<1>16. \A g, k \in Handlers :
         Live(handler'[g]) /\ Live(handler'[k]) /\ handler'[g].slot = handler'[k].slot => g = k
  BY <1>6, <1>9, <1>13, InvFacts
<1>17. Live(handler'[h]) /\ ~Live(handler[h])
  BY <1>2, <1>6, <1>9 DEF Live
<1>18. ASSUME NEW u \in Slots, slot'[u].state = "RUNNING"
       PROVE  \E k \in Handlers : Live(handler'[k]) /\ handler'[k].slot = u
  <2>1. CASE u = s
    BY <2>1, <1>6, <1>9, <1>17
  <2>2. CASE u # s
    <3>1. PICK k \in Handlers : Live(handler[k]) /\ handler[k].slot = u
      BY <2>2, <1>10, <1>18, InvFacts
    <3>2. k # h
      BY <3>1, <1>17
    <3> QED
      BY <3>1, <3>2, <1>9
  <2> QED
    BY <2>1, <2>2
<1>19. SlotKept'
  BY <1>11, <1>15, <1>16, <1>18 DEF SlotKept, Running, SlotOf, Live
<1> QED
  BY <1>14, <1>19 DEF ScanInv

LEMMA JobFinishKeeps ==
  ASSUME ScanInv, NEW h \in Handlers, JobFinish(h)
  PROVE  ScanInv'
<1>1. PICK a, ws, s, sl : /\ a = handler[h] /\ ws = worker[h] /\ s = a.slot
                          /\ sl = slot[s]
  OBVIOUS
<1>2. a.pc = "finish" /\ worker' = worker /\ alive' = alive
  BY <1>1 DEF JobFinish
<1>3. /\ a \in HandlerRecord /\ HandlerInv(a, ws, sl) /\ Live(a) /\ s \in Slots
      /\ sl \in SlotRecord
  <2>1. Live(a)
    BY <1>2 DEF Live
  <2> QED
    BY <2>1, <1>1, InvFacts
<1>4. PICK st : st = IF sl.cancel THEN "CANCELLED"
                     ELSE IF a.status = "OK" THEN "COMPLETED" ELSE "FAILED"
  OBVIOUS
<1>5. PICK b, tl : b = [a EXCEPT !.pc = "send"] /\ tl = [sl EXCEPT !.state = st]
  OBVIOUS
<1>6. handler' = [handler EXCEPT ![h] = b] /\ slot' = [slot EXCEPT ![s] = tl]
  BY <1>1, <1>4, <1>5 DEF JobFinish, HandlerAt
<1>7. st \in Finished
  BY <1>4 DEF Finished
<1>8. /\ b \in HandlerRecord /\ b.pc = "send" /\ b.job = a.job /\ b.slot = s
      /\ b.used = a.used /\ b.maps = a.maps /\ b.status = a.status
      /\ b.cancelled = a.cancelled
  BY <1>1, <1>3, <1>5 DEF HandlerRecord
<1>9. tl \in SlotRecord /\ tl.state = st
  BY <1>3, <1>5, <1>7 DEF SlotRecord
<1>10. /\ worker \in [Handlers -> [Workers -> WorkerRecord]]
       /\ slot \in [Slots -> SlotRecord] /\ handler \in [Handlers -> HandlerRecord]
       /\ alive \in BOOLEAN
  BY InvFacts DEF TypeOK
<1>11. handler' \in [Handlers -> HandlerRecord] /\ handler'[h] = b
       /\ \A k \in Handlers : k # h => handler'[k] = handler[k]
  BY <1>6, <1>8, <1>10
<1>12. slot' \in [Slots -> SlotRecord] /\ slot'[s] = tl
       /\ \A u \in Slots : u # s => slot'[u] = slot[u]
  BY <1>3, <1>6, <1>9, <1>10
<1>13. TypeOK'
  BY <1>2, <1>10, <1>11, <1>12 DEF TypeOK
<1>14. ~Live(b)
  BY <1>8 DEF Live
<1>15. HandlerInv(b, ws, tl)
  <2>1. StageInv(a) /\ WorkersInv(a, ws, sl) /\ AnswerInv(a, ws)
    BY <1>3 DEF HandlerInv
  <2>2. StageInv(b)
    BY <2>1, <1>1, <1>2, <1>8 DEF StageInv, Launched
  <2>3. \A w, n : Reached(b, w, n) = Reached(a, w, n)
    BY <1>8 DEF Reached
  <2>4. \A w : Share(b, w) = Share(a, w)
    BY <2>3, <1>8 DEF Share
  <2>5. ASSUME NEW w \in 1..b.used
        PROVE  PhaseInv(b, w, ws[w]) /\ ScannedInv(b, w, ws[w]) /\ EndInv(b, w, ws[w], tl.cancel)
    <3>1. PhaseInv(a, w, ws[w]) /\ ScannedInv(a, w, ws[w])
      BY <2>1, <1>8 DEF WorkersInv
    <3>2. ~Asleep(b, w)
      BY <1>8 DEF Asleep
    <3>3. PhaseInv(b, w, ws[w])
      BY <3>1, <3>2, <1>2, <1>8 DEF PhaseInv
    <3>4. ScannedInv(b, w, ws[w])
      BY <3>1, <2>3, <2>4, <1>8 DEF ScannedInv
    <3>5. EndInv(b, w, ws[w], tl.cancel)
      BY <1>14 DEF EndInv
    <3> QED
      BY <3>3, <3>4, <3>5
  <2>6. WorkersInv(b, ws, tl)
    BY <2>1, <2>5, <1>8 DEF WorkersInv
  <2>7. AnswerInv(b, ws)
    BY <2>1, <2>4, <1>2, <1>8 DEF AnswerInv
  <2>8. CounterInv(b, ws, tl)
    BY <1>14 DEF CounterInv
  <2> QED
    BY <2>2, <2>6, <2>7, <2>8 DEF HandlerInv
<1>16. \A k \in Handlers : k # h /\ Live(handler[k])
                             => handler[k].slot # s /\ handler[k].slot \in Slots
  BY <1>1, <1>3, InvFacts
<1>17. \A k \in Handlers : HandlerInv(handler'[k], worker'[k], slot'[handler'[k].slot])
  <2>1. \A k \in Handlers : k # h => handler'[k] = handler[k] /\ worker'[k] = worker[k]
    BY <1>2, <1>11
  <2>2. \A k \in Handlers : k # h /\ Live(handler[k])
                              => slot'[handler[k].slot] = slot[handler[k].slot]
    BY <1>12, <1>16
  <2>3. HandlerInv(handler'[h], worker'[h], slot'[handler'[h].slot])
    BY <1>1, <1>2, <1>8, <1>11, <1>12, <1>15
  <2> QED
    BY <2>1, <2>2, <2>3, Elsewhere
<1>18. \A k \in Handlers : Live(handler'[k]) => k # h /\ Live(handler[k])
                                                /\ handler'[k] = handler[k]
  BY <1>11, <1>14
<1>19. \A k \in Handlers : Live(handler'[k]) =>
         /\ slot'[handler'[k].slot].job = handler'[k].job
         /\ slot'[handler'[k].slot].state = "RUNNING"
  BY <1>12, <1>16, <1>18, InvFacts
<1>20. \A g, k \in Handlers :
         Live(handler'[g]) /\ Live(handler'[k]) /\ handler'[g].slot = handler'[k].slot => g = k
  BY <1>18, InvFacts
<1>21. ASSUME NEW u \in Slots, slot'[u].state = "RUNNING"
       PROVE  \E k \in Handlers : Live(handler'[k]) /\ handler'[k].slot = u
  <2>1. u # s
    BY <1>7, <1>9, <1>12, <1>21 DEF Finished
  <2>2. PICK k \in Handlers : Live(handler[k]) /\ handler[k].slot = u
    BY <2>1, <1>12, <1>21, InvFacts
  <2>3. k # h
    BY <2>1, <2>2, <1>1
  <2> QED
    BY <2>2, <2>3, <1>11
<1>22. SlotKept'
  BY <1>13, <1>19, <1>20, <1>21 DEF SlotKept, Running, SlotOf, Live
<1> QED
  BY <1>17, <1>22 DEF ScanInv

LEMMA SendResultKeeps ==
  ASSUME ScanInv, NEW h \in Handlers, SendResult(h)
  PROVE  ScanInv'
<1>1. PICK us : us = [w \in Workers |-> NoWorker]
  OBVIOUS
<1>2. /\ handler[h].pc = "send" /\ slot' = slot /\ alive' = alive
      /\ handler' = [handler EXCEPT ![h] = IdleHandler]
      /\ worker' = [worker EXCEPT ![h] = us]
  BY <1>1 DEF SendResult
<1>3. PICK b : b = IdleHandler
  OBVIOUS
<1>4. b \in HandlerRecord /\ b.pc = "idle" /\ b.used = 0
  <2>1. 0 \in 0..Threads /\ 0 \in 0..Threads + 1
    BY WorkersFacts
  <2> QED
    BY <2>1, <1>3 DEF HandlerRecord, IdleHandler
<1>5. us \in [Workers -> WorkerRecord] /\ \A w \in Workers : us[w] = NoWorker
  BY <1>1, NoWorkerFacts
<1>6. /\ worker \in [Handlers -> [Workers -> WorkerRecord]]
      /\ slot \in [Slots -> SlotRecord] /\ handler \in [Handlers -> HandlerRecord]
      /\ alive \in BOOLEAN
  BY InvFacts DEF TypeOK
<1>7. handler' \in [Handlers -> HandlerRecord] /\ handler'[h] = b
      /\ \A k \in Handlers : k # h => handler'[k] = handler[k]
  BY <1>2, <1>3, <1>4, <1>6
<1>8. worker' \in [Handlers -> [Workers -> WorkerRecord]] /\ worker'[h] = us
      /\ \A k \in Handlers : k # h => worker'[k] = worker[k]
  BY <1>2, <1>5, <1>6
<1>9. TypeOK'
  BY <1>2, <1>6, <1>7, <1>8 DEF TypeOK
<1>10. ~Live(b) /\ ~Live(handler[h])
  BY <1>2, <1>4 DEF Live
<1>11. ASSUME NEW tl PROVE HandlerInv(b, us, tl)
  <2>1. \A w \in 1..b.used : FALSE
    BY <1>4
  <2>2. WorkersInv(b, us, tl)
    BY <2>1, <1>5 DEF WorkersInv
  <2>3. StageInv(b) /\ AnswerInv(b, us)
    BY <1>4 DEF StageInv, AnswerInv, Launched
  <2>4. CounterInv(b, us, tl)
    BY <1>10 DEF CounterInv
  <2> QED
    BY <2>2, <2>3, <2>4 DEF HandlerInv
<1>12. \A k \in Handlers : HandlerInv(handler'[k], worker'[k], slot'[handler'[k].slot])
  <2>1. \A k \in Handlers : k # h => handler'[k] = handler[k] /\ worker'[k] = worker[k]
    BY <1>7, <1>8
  <2>2. HandlerInv(handler'[h], worker'[h], slot'[handler'[h].slot])
    BY <1>7, <1>8, <1>11
  <2> QED
    BY <2>1, <2>2, <1>2, Elsewhere
<1>13. \A k \in Handlers : /\ Live(handler'[k]) <=> Live(handler[k])
                           /\ Live(handler[k]) => handler'[k] = handler[k]
  BY <1>7, <1>10
<1>14. \A k \in Handlers : Live(handler'[k]) =>
         /\ slot'[handler'[k].slot].job = handler'[k].job
         /\ slot'[handler'[k].slot].state = "RUNNING"
  BY <1>2, <1>13, InvFacts
<1>15. \A g, k \in Handlers :
         Live(handler'[g]) /\ Live(handler'[k]) /\ handler'[g].slot = handler'[k].slot => g = k
  BY <1>13, InvFacts
<1>16. \A u \in Slots : slot'[u].state = "RUNNING" =>
         \E k \in Handlers : Live(handler'[k]) /\ handler'[k].slot = u
  BY <1>2, <1>13, InvFacts
<1>17. SlotKept'
  BY <1>9, <1>14, <1>15, <1>16 DEF SlotKept, Running, SlotOf, Live
<1> QED
  BY <1>12, <1>17 DEF ScanInv

LEMMA JobCancelKeeps ==
  ASSUME ScanInv, NEW j \in Jobs, JobCancel(j)
  PROVE  ScanInv'
<1>1. PICK s \in Slots : slot' = [slot EXCEPT ![s].cancel = TRUE]
  BY DEF JobCancel
<1>2. handler' = handler /\ worker' = worker /\ alive' = alive
  BY DEF JobCancel
<1>3. PICK tl : tl = [slot[s] EXCEPT !.cancel = TRUE]
  OBVIOUS
<1>4. slot' = [slot EXCEPT ![s] = tl]
  BY <1>1, <1>3
<1>5. slot[s] \in SlotRecord
  BY InvFacts
<1>6. /\ tl \in SlotRecord /\ tl.cancel = TRUE /\ tl.job = slot[s].job
      /\ tl.state = slot[s].state
      /\ tl.active = slot[s].active /\ tl.maps_done = slot[s].maps_done
      /\ tl.workers_total = slot[s].workers_total /\ tl.maps_total = slot[s].maps_total
  BY <1>3, <1>5 DEF SlotRecord
<1>7. /\ worker \in [Handlers -> [Workers -> WorkerRecord]]
      /\ slot \in [Slots -> SlotRecord] /\ handler \in [Handlers -> HandlerRecord]
      /\ alive \in BOOLEAN
  BY InvFacts DEF TypeOK
<1>8. slot' \in [Slots -> SlotRecord] /\ slot'[s] = tl
      /\ \A u \in Slots : u # s => slot'[u] = slot[u]
  BY <1>4, <1>6, <1>7
<1>9. TypeOK'
  BY <1>2, <1>7, <1>8 DEF TypeOK
<1>10. ASSUME NEW k \in Handlers
       PROVE  HandlerInv(handler[k], worker[k], slot'[handler[k].slot])
  <2>1. PICK a, ws, sl, ul : /\ a = handler[k] /\ ws = worker[k]
                             /\ sl = slot[handler[k].slot] /\ ul = slot'[handler[k].slot]
    OBVIOUS
  <2>2. HandlerInv(a, ws, sl)
    BY <2>1, InvFacts
  <2>3. Live(a) => /\ sl.cancel => ul.cancel
                   /\ ul.active = sl.active /\ ul.maps_done = sl.maps_done
                   /\ ul.workers_total = sl.workers_total
                   /\ ul.maps_total = sl.maps_total
    <3>1. CASE handler[k].slot = s
      BY <3>1, <2>1, <1>6, <1>8
    <3>2. CASE handler[k].slot # s
      BY <3>2, <2>1, <1>8, InvFacts
    <3> QED
      BY <3>1, <3>2
  <2>4. HandlerInv(a, ws, ul)
    BY <2>2, <2>3, SlotFrame
  <2> QED
    BY <2>1, <2>4
<1>11. \A u \in Slots : slot'[u].job = slot[u].job /\ slot'[u].state = slot[u].state
  BY <1>6, <1>8
<1>12. \A k \in Handlers : Live(handler[k]) =>
         /\ slot'[handler[k].slot].job = handler[k].job
         /\ slot'[handler[k].slot].state = "RUNNING"
  BY <1>11, InvFacts
<1>13. \A u \in Slots : slot'[u].state = "RUNNING" =>
         \E k \in Handlers : Live(handler[k]) /\ handler[k].slot = u
  BY <1>11, InvFacts
<1>14. \A g, k \in Handlers :
         Live(handler[g]) /\ Live(handler[k]) /\ handler[g].slot = handler[k].slot => g = k
  BY InvFacts
<1>15. SlotKept'
  BY <1>2, <1>9, <1>12, <1>13, <1>14 DEF SlotKept, Running, SlotOf, Live
<1> QED
  BY <1>2, <1>10, <1>15 DEF ScanInv

LEMMA ScanInit ==
  ASSUME Init
  PROVE  ScanInv
<1>1. /\ slot = [s \in Slots |-> FreeSlot] /\ handler = [h \in Handlers |-> IdleHandler]
      /\ worker = [h \in Handlers |-> [w \in Workers |-> NoWorker]] /\ alive = TRUE
  BY DEF Init
<1>2. FreeSlot \in SlotRecord /\ FreeSlot.state = "PENDING"
  BY DEF FreeSlot, SlotRecord, NoJob
<1>3. IdleHandler \in HandlerRecord /\ IdleHandler.pc = "idle" /\ IdleHandler.used = 0
  <2>1. 0 \in 0..Threads /\ 0 \in 0..Threads + 1
    BY WorkersFacts
  <2> QED
    BY <2>1 DEF HandlerRecord, IdleHandler
<1>4. TypeOK
  BY <1>1, <1>2, <1>3, NoWorkerFacts DEF TypeOK
<1>5. \A h \in Handlers : handler[h] = IdleHandler /\ ~Live(handler[h])
  BY <1>1, <1>3 DEF Live
<1>6. \A s \in Slots : slot[s].state # "RUNNING"
  BY <1>1, <1>2
<1>7. SlotKept
  BY <1>4, <1>5, <1>6 DEF SlotKept, Running, Live
<1>8. ASSUME NEW h \in Handlers, NEW tl PROVE HandlerInv(handler[h], worker[h], tl)
  <2>1. PICK b, us : b = handler[h] /\ us = worker[h]
    OBVIOUS
  <2>2. b.pc = "idle" /\ b.used = 0 /\ ~Live(b) /\ \A w \in Workers : us[w] = NoWorker
    BY <2>1, <1>1, <1>3, <1>5
  <2>3. \A w \in 1..b.used : FALSE
    BY <2>2
  <2>4. WorkersInv(b, us, tl)
    BY <2>2, <2>3 DEF WorkersInv
  <2>5. StageInv(b) /\ AnswerInv(b, us) /\ CounterInv(b, us, tl)
    BY <2>2 DEF StageInv, AnswerInv, CounterInv, Launched
  <2> QED
    BY <2>1, <2>4, <2>5 DEF HandlerInv
<1> QED
  BY <1>7, <1>8 DEF ScanInv

LEMMA ScanNext ==
  ASSUME ScanInv, [Next]_vars
  PROVE  ScanInv'
<1>1. CASE UNCHANGED vars
  BY <1>1 DEF vars, ScanInv, SlotKept, TypeOK, Running, SlotOf
<1>2. CASE Next
  <2>1. ASSUME NEW h \in Handlers, HandlerStep(h) PROVE ScanInv'
    BY <2>1, PrepareKeeps, SpawnKeeps, InlineDoneKeeps, SpawnLastKeeps, LastDoneKeeps,
       JoinWorkerKeeps, MergeKeeps, CheckCancelledKeeps, JobFinishKeeps, SendResultKeeps
       DEF HandlerStep
  <2>2. ASSUME NEW h \in Handlers, NEW w \in Workers, WorkerStep(h, w) PROVE ScanInv'
    BY <2>2, WorkerStartKeeps, WorkerScanKeeps, WorkerCountKeeps, WorkerEndKeeps
       DEF WorkerStep
  <2>3. ASSUME NEW h \in Handlers, NEW j \in Jobs, JobBegin(h, j) PROVE ScanInv'
    BY <2>3, JobBeginKeeps
  <2>4. ASSUME NEW j \in Jobs, JobCancel(j) PROVE ScanInv'
    BY <2>4, JobCancelKeeps
  <2> QED
    BY <1>2, <2>1, <2>2, <2>3, <2>4 DEF Next
<1> QED
  BY <1>1, <1>2

-----------------------------------------------------------------------------
(* The theorems *)

(* The bookkeeping of a tracked scan: what its handler, its workers and    *)
(* its slot agree on at every step of scan_maps_parallel, however many     *)
(* scans, clients that cancel and threads interleave.                      *)
THEOREM ScanBookkeeping == Spec => []ScanInv
<1>1. Init => ScanInv
  BY ScanInit
<1>2. ScanInv /\ [Next]_vars => ScanInv'
  BY ScanNext
<1> QED
  BY <1>1, <1>2, PTL DEF Spec

(* The slot of a running scan stays its own: scan_job_begin never hands it *)
(* to another job, and every slot marked as running has a scan behind it.  *)
THEOREM SlotsAreKept == Spec => []SlotKept
<1>1. ScanInv => SlotKept
  BY DEF ScanInv
<1> QED
  BY <1>1, ScanBookkeeping, PTL

(* The counters that SCAN_JOB_STATUS reports of a running scan are true. *)
THEOREM ProgressIsTrue == Spec => []ProgressTrue
<1>1. ASSUME ScanInv PROVE ProgressTrue
  <2> SUFFICES ASSUME NEW h \in Handlers, Running(h)
               PROVE  /\ SlotOf(h).active = Cardinality({w \in Workers : Busy(h, w)})
                      /\ SlotOf(h).active <= SlotOf(h).workers_total
                      /\ SlotOf(h).maps_done
                           <= Cardinality(UNION {worker[h][w].scanned : w \in Workers})
                      /\ SlotOf(h).maps_done <= SlotOf(h).maps_total
    BY DEF ProgressTrue
  <2>1. PICK a, ws, sl : a = handler[h] /\ ws = worker[h] /\ sl = slot[handler[h].slot]
    OBVIOUS
  <2>2. /\ a \in HandlerRecord /\ ws \in [Workers -> WorkerRecord] /\ HandlerInv(a, ws, sl)
        /\ Live(a) /\ sl \in SlotRecord /\ a.pc # "idle"
    <3>1. Live(a) /\ a.pc # "idle"
      BY <2>1 DEF Running, Live
    <3> QED
      BY <3>1, <2>1, <1>1, InvFacts
  <2>3. /\ sl.maps_done \in Nat /\ sl.maps_total \in Nat /\ sl.active \in Nat
        /\ sl.workers_total \in Nat /\ a.used \in Nat /\ a.used <= Threads
    BY <2>2, SlotFields, HandlerFields
  <2>4. /\ sl.active = Cardinality(BusyOf(ws)) /\ sl.maps_done <= Cardinality(Counted(ws))
        /\ a.used > 0 => /\ sl.workers_total = a.used
                         /\ sl.maps_total = Cardinality(Effective(a.maps))
    BY <2>2 DEF HandlerInv, CounterInv
  <2>5. PICK all : all = UNION {ws[w].scanned : w \in Workers}
    OBVIOUS
  <2>6. Counted(ws) \subseteq all
    BY <2>5 DEF Counted, CountedBy
  <2>7. WorkersInv(a, ws, sl)
    BY <2>2 DEF HandlerInv
  <2>8. sl.active <= sl.workers_total /\ sl.maps_done <= Cardinality(all)
        /\ sl.maps_done <= sl.maps_total
    <3>1. CASE a.used = 0
      <4>1. /\ \A w \in Workers : ws[w] = NoWorker
            /\ BusyOf(ws) = {} /\ Counted(ws) = {} /\ Cardinality({}) = 0
        BY <3>1, <2>2, <2>7, NoWorkers
      <4>2. all = {}
        BY <4>1, <2>5, NoWorkerFacts
      <4> QED
        BY <4>1, <4>2, <2>3, <2>4
    <3>2. CASE a.used > 0
      <4>1. /\ Counted(ws) \subseteq Effective(a.maps) /\ all \subseteq Effective(a.maps)
            /\ IsFiniteSet(Effective(a.maps))
        BY <3>2, <2>2, <2>5, SharesFinite
      <4>2. IsFiniteSet(all)
        BY <4>1, FS_Subset
      <4>3. sl.maps_done <= Cardinality(all)
        BY <4>2, <2>3, <2>4, <2>6, CountKept
      <4>4. sl.maps_done <= Cardinality(Effective(a.maps))
        BY <4>1, <2>3, <2>4, CountKept
      <4>5. BusyOf(ws) \subseteq 1..a.used
        <5>1. \A w \in Workers : w > a.used \/ w \in 1..a.used
          BY <2>3, WorkersFacts
        <5>2. \A w \in Workers : w > a.used => ws[w].pc = "none"
          BY <2>7, NoWorkerFacts DEF WorkersInv
        <5>3. ASSUME NEW w \in BusyOf(ws)
              PROVE  w \in 1..a.used
          <6>1. w \in Workers /\ ws[w].pc # "none"
            BY DEF BusyOf
          <6>2. w \in 1..a.used \/ ws[w].pc = "none"
            BY ONLY <6>1, <5>1, <5>2, Zenon
          <6> QED
            BY ONLY <6>1, <6>2
        <5> QED
          BY <5>3
      <4>6. IsFiniteSet(1..a.used) /\ Cardinality(1..a.used) = a.used
        <5>1. 1 \in Int /\ a.used \in Int /\ 1 + a.used - 1 = a.used /\ ~(1 > a.used)
          BY <2>3, <3>2
        <5>2. /\ IsFiniteSet(1..a.used)
              /\ Cardinality(1..a.used) = IF 1 > a.used THEN 0 ELSE a.used - 1 + 1
          BY <5>1, FS_Interval, Zenon
        <5> QED
          BY <5>1, <5>2
      <4>7. Cardinality(BusyOf(ws)) <= a.used
        BY <4>5, <4>6, FS_Subset
      <4> QED
        BY <4>3, <4>4, <4>7, <3>2, <2>4
    <3> QED
      BY <3>1, <3>2, <2>3
  <2>9. {w \in Workers : Busy(h, w)} = BusyOf(ws)
    BY <2>1 DEF Busy, BusyOf
  <2>10. SlotOf(h) = sl /\ UNION {worker[h][w].scanned : w \in Workers} = all
    BY <2>1, <2>5 DEF SlotOf
  <2> QED
    BY <2>4, <2>8, <2>9, <2>10
<1> QED
  BY <1>1, ScanBookkeeping, PTL

(* A scan that answers OK and not cancelled has scanned every map that     *)
(* passes the filters, each by exactly one worker, and no worker is left   *)
(* when the results are merged: for any maps and any number of threads,    *)
(* also when pthread_create fails for some of them.                        *)
THEOREM ScansAreComplete == Spec => []CompleteScanCoversMaps
<1>1. ASSUME ScanInv PROVE CompleteScanCoversMaps
  <2> SUFFICES ASSUME NEW h \in Handlers
               PROVE  /\ handler[h].pc = "send" /\ handler[h].status = "OK"
                           /\ ~handler[h].cancelled =>
                           \A i \in {i \in 1..Len(handler[h].maps) : handler[h].maps[i] > 0} :
                             Cardinality({w \in Workers : i \in worker[h][w].scanned}) = 1
                      /\ alive /\ handler[h].pc \in {"check", "finish", "send"} =>
                           \A w \in Workers : worker[h][w].pc \in {"none", "done"}
    BY DEF CompleteScanCoversMaps
  <2>1. PICK a, ws, sl : a = handler[h] /\ ws = worker[h] /\ sl = slot[handler[h].slot]
    OBVIOUS
  <2>2. /\ a \in HandlerRecord /\ ws \in [Workers -> WorkerRecord]
        /\ StageInv(a) /\ WorkersInv(a, ws, sl) /\ AnswerInv(a, ws)
    BY <2>1, <1>1, InvFacts DEF HandlerInv
  <2>3. a.used \in Nat /\ 1..a.used \subseteq Workers
        /\ \A w \in Workers : w > a.used \/ w \in 1..a.used
    BY <2>2, HandlerFields, WorkersFacts
  <2>4. ASSUME a.pc \in {"check", "finish", "send"}, NEW w \in Workers
        PROVE  ws[w].pc \in {"none", "done"}
    BY <2>2, <2>3, <2>4, NoWorkerFacts DEF WorkersInv, PhaseInv
  <2>5. ASSUME a.pc = "send", a.status = "OK", ~a.cancelled, NEW i \in Effective(a.maps)
        PROVE  Cardinality({w \in Workers : i \in ws[w].scanned}) = 1
    <3>1. a.used > 0 /\ a.job \in Jobs /\ a.maps = MapLists[a.job]
          /\ a.used = Len(Parts[a.job])
      BY <2>2, <2>5 DEF StageInv
    <3>2. \A w \in 1..a.used : ws[w].scanned = Share(a, w)
      BY <2>2, <2>5 DEF AnswerInv
    <3>3. PICK j, n : j = a.job /\ n = a.used
      OBVIOUS
    <3>4. \A x \in Effective(MapLists[j]) :
            \E k \in 1..Len(Parts[j]) : \A m \in 1..Len(Parts[j]) :
              x \in Parts[j][m].first..Parts[j][m].end - 1 <=> m = k
      BY <3>1, <3>3, PartsFacts
    <3>5. PICK k \in 1..n : \A m \in 1..n : i \in Parts[j][m].first..Parts[j][m].end - 1 <=> m = k
      <4>1. i \in Effective(MapLists[j]) /\ n = Len(Parts[j])
        BY <3>1, <3>3, <2>5
      <4> QED
        BY <4>1, <3>4
    <3>6. i \in Nat
      <4>1. MapLists[j] \in Seq(Nat) /\ Len(MapLists[j]) \in Nat
        BY <3>1, <3>3, PartsFacts
      <4>2. Effective(MapLists[j]) \subseteq 1..Len(MapLists[j])
        BY <4>1, EffectiveFinite
      <4> QED
        BY <4>1, <4>2, <3>1, <3>3, <2>5
    <3>7. ASSUME NEW m \in 1..n PROVE i \in ws[m].scanned <=> m = k
      <4>1. Parts[j][m].first \in Nat /\ Parts[j][m].end \in Nat
        BY <3>1, <3>3, PartsTyped
      <4>2. i \in Share(a, m) <=> Parts[j][m].first <= i /\ i < Parts[j][m].end
        BY <3>3, <2>5 DEF Share, Reached
      <4>3. i \in Parts[j][m].first..Parts[j][m].end - 1
              <=> Parts[j][m].first <= i /\ i < Parts[j][m].end
        BY <4>1, <3>6
      <4> QED
        BY <4>2, <4>3, <3>2, <3>3, <3>5
    <3>8. \A w \in Workers : w > n => ws[w].scanned = {}
      BY <2>2, <3>3, NoWorkerFacts DEF WorkersInv
    <3>9. {w \in Workers : i \in ws[w].scanned} = {k}
      BY <2>3, <3>3, <3>5, <3>7, <3>8
    <3> QED
      BY <3>9, FS_Singleton
  <2>6. {i \in 1..Len(a.maps) : a.maps[i] > 0} = Effective(a.maps)
    BY DEF Effective
  <2> QED
    BY <2>1, <2>4, <2>5, <2>6
<1> QED
  BY <1>1, ScanBookkeeping, PTL
=============================================================================
