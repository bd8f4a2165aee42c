------------------------------ MODULE ScanJobs ------------------------------
(***************************************************************************)
(* Tracked process scans: the job table of handlers/scan.c, the parallel   *)
(* map scan of scanner/scan/parallel.c that a job runs, and the byte-      *)
(* weighted partition of scanner/scan/partition.c that splits it.          *)
(*                                                                         *)
(* Grain.  A critical section of g_scan_jobs_mutex is one action.  The     *)
(* progress counters are atomics that the workers update without it, so    *)
(* each test of cancel_requested and each update of a counter is an action *)
(* of its own.  A worker scans one map in one action; what it finds there  *)
(* is left out, which maps it has scanned is kept.                         *)
(*                                                                         *)
(* Worker 1 is the partition that the handler thread scans itself.  A map  *)
(* list is the sequence of the byte counts left of each map by the filters *)
(* of the request; 0 is a map they reject.                                 *)
(***************************************************************************)
EXTENDS Integers, Sequences, FiniteSets

CONSTANTS Handlers,     \* connection handlers that run tracked scans
          Jobs,         \* job identifiers the clients choose
          Slots,        \* the MEMDBG_SCAN_JOB_SLOTS entries of g_scan_jobs
          Threads,      \* MEMDBG_SCAN_PARALLEL_THREADS
          MapLists      \* the memory maps of the process that a job scans

ASSUME ScanAssumption ==
  /\ Slots \subseteq Nat \ {0} /\ IsFiniteSet(Slots)
  /\ Threads \in Nat \ {0}
  /\ "no job" \notin Jobs
  /\ MapLists \in [Jobs -> Seq(Nat)]

VARIABLES slot,     \* g_scan_jobs
          handler,  \* the scan each handler thread is running
          worker,   \* the workers of that scan
          alive     \* FALSE once undefined behaviour has ended the process

vars == <<slot, handler, worker, alive>>

NoJob == "no job"
NoSlot == 0
Finished == {"COMPLETED", "CANCELLED", "FAILED"}
Workers == 1..Threads

FreeSlot == [job |-> NoJob, state |-> "PENDING", cancel |-> FALSE,
             maps_done |-> 0, maps_total |-> 0, active |-> 0, workers_total |-> 0]
IdleHandler == [pc |-> "idle", job |-> NoJob, slot |-> NoSlot, maps |-> <<>>,
                used |-> 0, next |-> 0, status |-> "OK", cancelled |-> FALSE]
NoWorker == [pc |-> "none", i |-> 0, end |-> 0, scanned |-> {}, status |-> "OK",
             threaded |-> FALSE]

(* An entry of the table, a handler and a worker. *)
SlotRecord ==
  [job : Jobs \cup {NoJob}, state : {"PENDING", "RUNNING"} \cup Finished,
   cancel : BOOLEAN, maps_done : Nat, maps_total : Nat, active : Nat,
   workers_total : Nat]

HandlerRecord ==
  [pc : {"idle", "prepare", "spawn", "inline", "last", "join", "check", "finish",
         "send"},
   job : Jobs \cup {NoJob}, slot : Slots \cup {NoSlot},
   maps : {MapLists[j] : j \in Jobs} \cup {<<>>}, used : 0..Threads,
   next : 0..Threads + 1, status : {"OK", "ERROR"}, cancelled : BOOLEAN]

WorkerRecord ==
  [pc : {"none", "start", "scan", "count", "end", "done"}, i : Nat, end : Nat,
   scanned : SUBSET Nat, status : {"OK", "ERROR"}, threaded : BOOLEAN]

TypeOK ==
  /\ slot \in [Slots -> SlotRecord]
  /\ handler \in [Handlers -> HandlerRecord]
  /\ worker \in [Handlers -> [Workers -> WorkerRecord]]
  /\ alive \in BOOLEAN

Init ==
  /\ slot = [s \in Slots |-> FreeSlot]
  /\ handler = [h \in Handlers |-> IdleHandler]
  /\ worker = [h \in Handlers |-> [w \in Workers |-> NoWorker]]
  /\ alive = TRUE

-----------------------------------------------------------------------------
(* partition_maps_by_bytes *)

(* The maps the filters let through. *)
Effective(maps) == {i \in 1..Len(maps) : maps[i] > 0}

Smaller(a, b) == IF a < b THEN a ELSE b
Larger(a, b) == IF a < b THEN b ELSE a
Lowest(S) == CHOOSE s \in S : \A u \in S : s <= u

Total(maps) ==
  LET sum[k \in 0..Len(maps)] == IF k = 0 THEN 0 ELSE sum[k - 1] + maps[k]
  IN  sum[Len(maps)]

(* Where the slots start: a slot is closed before the map that would take  *)
(* it over its share of the bytes, unless it is empty or the last one.     *)
FirstSlot(maps) == [starts |-> <<Lowest(Effective(maps))>>, bytes |-> 0]

AddMap(p, k, b, share, threads) ==
  IF b > 0 /\ Len(p.starts) < threads /\ p.bytes + b > share /\ p.bytes > 0
  THEN [starts |-> Append(p.starts, k), bytes |-> b]
  ELSE [p EXCEPT !.bytes = @ + b]

Splits(maps, share, threads) ==
  LET split[k \in 0..Len(maps)] ==
        IF k = 0 THEN FirstSlot(maps)
        ELSE AddMap(split[k - 1], k, maps[k], share, threads)
  IN  split

SlotStarts(maps, threads) ==
  Splits(maps, Larger(Total(maps) \div threads, 1), threads)[Len(maps)].starts

Partition(maps) ==
  LET effective == Cardinality(Effective(maps))
      starts == SlotStarts(maps, Smaller(Threads, effective \div 2))
      end(k) == IF k = Len(starts) THEN Len(maps) + 1 ELSE starts[k + 1]
  IN  IF Threads <= 1 \/ effective < 4
      THEN <<[first |-> 1, end |-> Len(maps) + 1]>>
      ELSE [k \in 1..Len(starts) |-> [first |-> starts[k], end |-> end(k)]]

(* What partition_maps_by_bytes promises: between one slot and as many as  *)
(* there are threads, inside the list, every map that is scanned lies in   *)
(* exactly one of them, and where the list is split each slot begins with  *)
(* such a map, so that no thread is started for nothing.                   *)
PartitionExact(maps) ==
  LET p == Partition(maps)
  IN  /\ Len(p) \in 1..Threads
      /\ \A k \in 1..Len(p) : p[k].first \in 1..Len(maps) + 1
                               /\ p[k].end \in 1..Len(maps) + 1
      /\ Len(p) > 1 => \A k \in 1..Len(p) : p[k].first \in Effective(maps)
                                              /\ p[k].first < p[k].end
      /\ \A i \in Effective(maps) :
           \E k \in 1..Len(p) : \A m \in 1..Len(p) :
             i \in p[m].first..p[m].end - 1 <=> m = k

(* The partition of each job's maps. *)
Parts == [j \in Jobs |-> Partition(MapLists[j])]

-----------------------------------------------------------------------------
(* handle_scan_process_exact_tracked: scan_job_begin *)

HandlerAt(h, pc) == handler' = [handler EXCEPT ![h].pc = pc]

(* Slip: a job that has been asked to cancel gives up its slot at once. *)
ReusableSlip(s) == slot[s].job = NoJob \/ slot[s].state \in Finished \/ slot[s].cancel

Reusable(s) == slot[s].job = NoJob \/ slot[s].state \in Finished

(* MEMDBG_ERR_STATE when the table still knows the job or has no room. *)
JobBegin(h, j) ==
  /\ handler[h].pc = "idle"
  /\ \A s \in Slots : slot[s].job # j
  /\ \E s \in Slots :
       /\ Reusable(s) /\ s = Lowest({u \in Slots : Reusable(u)})
       /\ slot' = [slot EXCEPT ![s] = [FreeSlot EXCEPT !.job = j, !.state = "RUNNING"]]
       /\ handler' = [handler EXCEPT ![h] = [IdleHandler EXCEPT !.pc = "prepare",
                                                                !.job = j, !.slot = s]]
  /\ UNCHANGED <<worker, alive>>

(* memdbg_scan_process_exact_tracked up to the workers: bad parameters, a  *)
(* process without maps and a failed allocation end the scan with an error. *)
(* An error before scan_maps_parallel leaves the result uninitialised, and *)
(* the handler frees it: that may or may not end the process.              *)
Prepare(h) ==
  /\ handler[h].pc = "prepare"
  /\ \/ LET maps == MapLists[handler[h].job]
            parts == Parts[handler[h].job]
        IN
          /\ handler' = [handler EXCEPT ![h] = [@ EXCEPT !.pc = "spawn", !.maps = maps,
                                                         !.used = Len(parts), !.next = 2]]
          /\ worker' = [worker EXCEPT ![h] =
               [w \in Workers |-> IF w > Len(parts) THEN NoWorker
                                  ELSE [NoWorker EXCEPT !.i = parts[w].first,
                                                        !.end = parts[w].end]]]
          /\ slot' = [slot EXCEPT ![handler[h].slot] =
               [@ EXCEPT !.maps_total = Cardinality(Effective(maps)),
                         !.workers_total = Len(parts)]]
          /\ UNCHANGED alive
     \/ /\ handler' = [handler EXCEPT ![h] = [@ EXCEPT !.pc = "finish", !.status = "ERROR"]]
        /\ alive' \in BOOLEAN
        /\ UNCHANGED <<slot, worker>>

-----------------------------------------------------------------------------
(* scan_maps_parallel: spawn, run the first partition, join, merge *)

StartWorker(h, w, threaded) ==
  worker' = [worker EXCEPT ![h][w] = [@ EXCEPT !.pc = "start", !.threaded = threaded]]

(* When pthread_create fails the partition is scanned on the caller. *)
Spawn(h) ==
  LET w == handler[h].next IN
  /\ handler[h].pc = "spawn" /\ w <= handler[h].used
  /\ \/ /\ StartWorker(h, w, TRUE)
        /\ handler' = [handler EXCEPT ![h].next = w + 1]
     \/ /\ StartWorker(h, w, FALSE)
        /\ HandlerAt(h, "inline")
  /\ UNCHANGED <<slot, alive>>

InlineDone(h) ==
  LET w == handler[h].next IN
  /\ handler[h].pc = "inline" /\ worker[h][w].pc = "done"
  /\ handler' = [handler EXCEPT ![h] = [@ EXCEPT !.pc = "spawn", !.next = w + 1]]
  /\ UNCHANGED <<slot, worker, alive>>

SpawnLast(h) ==
  /\ handler[h].pc = "spawn" /\ handler[h].next > handler[h].used
  /\ StartWorker(h, 1, FALSE)
  /\ HandlerAt(h, "last")
  /\ UNCHANGED <<slot, alive>>

LastDone(h) ==
  /\ handler[h].pc = "last" /\ worker[h][1].pc = "done"
  /\ handler' = [handler EXCEPT ![h] = [@ EXCEPT !.pc = "join", !.next = 2]]
  /\ UNCHANGED <<slot, worker, alive>>

(* pthread_join.  The code never clears `threaded`: where the creation     *)
(* failed the flag is whatever the allocation held, and a join of the      *)
(* handle that was never filled in may end the process.                    *)
JoinWorker(h) ==
  LET w == handler[h].next IN
  /\ handler[h].pc = "join" /\ w <= handler[h].used
  /\ IF worker[h][w].threaded THEN worker[h][w].pc = "done" /\ UNCHANGED alive
     ELSE alive' \in BOOLEAN
  /\ handler' = [handler EXCEPT ![h].next = w + 1]
  /\ UNCHANGED <<slot, worker>>

(* merge_scan_results; the first error of a worker is the scan's. *)
Merge(h) ==
  /\ handler[h].pc = "join" /\ handler[h].next > handler[h].used
  /\ handler' = [handler EXCEPT ![h] = [@ EXCEPT !.pc = "check",
       !.status = IF \E w \in 1..handler[h].used : worker[h][w].status = "ERROR"
                  THEN "ERROR" ELSE "OK"]]
  /\ UNCHANGED <<slot, worker, alive>>

(* The end of memdbg_scan_process_exact_tracked. *)
CheckCancelled(h) ==
  /\ handler[h].pc = "check"
  /\ handler' = [handler EXCEPT ![h] = [@ EXCEPT !.pc = "finish",
                                                 !.cancelled = slot[handler[h].slot].cancel]]
  /\ UNCHANGED <<slot, worker, alive>>

(* Slip: the outcome of the scan alone decides how the job ended. *)
JobFinishSlip(h) ==
  LET s == handler[h].slot IN
  /\ handler[h].pc = "finish"
  /\ slot' = [slot EXCEPT ![s].state = IF handler[h].status = "OK" THEN "COMPLETED"
                                       ELSE "FAILED"]
  /\ HandlerAt(h, "send")
  /\ UNCHANGED <<worker, alive>>

JobFinish(h) ==
  LET s == handler[h].slot IN
  /\ handler[h].pc = "finish"
  /\ slot' = [slot EXCEPT ![s].state = IF slot[s].cancel THEN "CANCELLED"
                                       ELSE IF handler[h].status = "OK" THEN "COMPLETED"
                                       ELSE "FAILED"]
  /\ HandlerAt(h, "send")
  /\ UNCHANGED <<worker, alive>>

(* send_scan_result, or the error response; the result is freed. *)
SendResult(h) ==
  /\ handler[h].pc = "send"
  /\ handler' = [handler EXCEPT ![h] = IdleHandler]
  /\ worker' = [worker EXCEPT ![h] = [w \in Workers |-> NoWorker]]
  /\ UNCHANGED <<slot, alive>>

-----------------------------------------------------------------------------
(* parallel_worker_thread *)

WorkerAt(h, w, pc) == worker' = [worker EXCEPT ![h][w].pc = pc]
SlotOf(h) == slot[handler[h].slot]
Count(h, field, n) == slot' = [slot EXCEPT ![handler[h].slot][field] = @ + n]

(* A worker without memory for its buffer only reports that. *)
WorkerStart(h, w) ==
  /\ worker[h][w].pc = "start"
  /\ Count(h, "active", 1)
  /\ \/ WorkerAt(h, w, "scan")
     \/ worker' = [worker EXCEPT ![h][w] = [@ EXCEPT !.pc = "end", !.status = "ERROR"]]
  /\ UNCHANGED <<handler, alive>>

Todo(h, w) ==
  {i \in worker[h][w].i..worker[h][w].end - 1 : handler[h].maps[i] > 0}

(* Slip: the error of a scan stops the worker and is not reported. *)
WorkerScanSlip(h, w) ==
  /\ worker[h][w].pc = "scan"
  /\ IF Todo(h, w) = {} \/ SlotOf(h).cancel THEN WorkerAt(h, w, "end")
     ELSE \/ worker' = [worker EXCEPT ![h][w] =
               [@ EXCEPT !.pc = "count", !.i = Lowest(Todo(h, w)),
                         !.scanned = worker[h][w].scanned \cup {Lowest(Todo(h, w))}]]
          \/ WorkerAt(h, w, "end")
  /\ UNCHANGED <<slot, handler, alive>>

(* The head of the loop and scan_range over the next map: both stop when   *)
(* the job is cancelled; a scan fails when the results cannot grow.        *)
WorkerScan(h, w) ==
  /\ worker[h][w].pc = "scan"
  /\ IF Todo(h, w) = {} \/ SlotOf(h).cancel THEN WorkerAt(h, w, "end")
     ELSE \/ worker' = [worker EXCEPT ![h][w] =
               [@ EXCEPT !.pc = "count", !.i = Lowest(Todo(h, w)),
                         !.scanned = worker[h][w].scanned \cup {Lowest(Todo(h, w))}]]
          \/ worker' = [worker EXCEPT ![h][w] = [@ EXCEPT !.pc = "end", !.status = "ERROR"]]
  /\ UNCHANGED <<slot, handler, alive>>

WorkerCount(h, w) ==
  /\ worker[h][w].pc = "count"
  /\ IF SlotOf(h).cancel
     THEN WorkerAt(h, w, "end") /\ UNCHANGED slot
     ELSE /\ Count(h, "maps_done", 1)
          /\ worker' = [worker EXCEPT ![h][w] = [@ EXCEPT !.pc = "scan", !.i = worker[h][w].i + 1]]
  /\ UNCHANGED <<handler, alive>>

(* Slip: a worker that failed forgets to take itself off the count. *)
WorkerEndSlip(h, w) ==
  /\ worker[h][w].pc = "end"
  /\ IF worker[h][w].status = "ERROR" THEN UNCHANGED slot ELSE Count(h, "active", -1)
  /\ WorkerAt(h, w, "done")
  /\ UNCHANGED <<handler, alive>>

WorkerEnd(h, w) ==
  /\ worker[h][w].pc = "end"
  /\ Count(h, "active", -1)
  /\ WorkerAt(h, w, "done")
  /\ UNCHANGED <<handler, alive>>

-----------------------------------------------------------------------------
(* SCAN_JOB_CANCEL from any other connection; SCAN_JOB_STATUS only reads. *)
JobCancel(j) ==
  /\ \E s \in Slots :
       /\ slot[s].job = j /\ slot[s].state = "RUNNING"
       /\ slot' = [slot EXCEPT ![s].cancel = TRUE]
  /\ UNCHANGED <<handler, worker, alive>>

HandlerStep(h) ==
  Prepare(h) \/ Spawn(h) \/ InlineDone(h) \/ SpawnLast(h) \/ LastDone(h) \/ JoinWorker(h)
  \/ Merge(h) \/ CheckCancelled(h) \/ JobFinish(h) \/ SendResult(h)

WorkerStep(h, w) ==
  WorkerStart(h, w) \/ WorkerScan(h, w) \/ WorkerCount(h, w)
  \/ WorkerEnd(h, w)

Next ==
  /\ alive
  /\ \/ \E h \in Handlers : HandlerStep(h)
     \/ \E h \in Handlers, j \in Jobs : JobBegin(h, j)
     \/ \E h \in Handlers, w \in Workers : WorkerStep(h, w)
     \/ \E j \in Jobs : JobCancel(j)

Spec == Init /\ [][Next]_vars

(* Threads that can run do run; clients need not send anything. *)
FairSpec ==
  /\ Spec
  /\ \A h \in Handlers : WF_vars(alive /\ HandlerStep(h))
  /\ \A h \in Handlers, w \in Workers : WF_vars(alive /\ WorkerStep(h, w))

-----------------------------------------------------------------------------
Running(h) == handler[h].pc \notin {"idle", "send"}
Busy(h, w) == worker[h][w].pc \in {"scan", "count", "end"}

(* The slot whose counters a running scan updates stays that scan's: it    *)
(* carries its job and is running, whatever jobs other handlers begin,     *)
(* cancel or finish; scan_job_begin never hands it to another job.         *)
(* The variables also keep their types.                                    *)
SlotKept ==
  /\ TypeOK
  /\ \A h \in Handlers : Running(h) => SlotOf(h).job = handler[h].job
                                       /\ SlotOf(h).state = "RUNNING"
  /\ \A h, k \in Handlers : Running(h) /\ Running(k) /\ handler[h].slot = handler[k].slot
                              => h = k
  /\ \A s \in Slots : slot[s].state = "RUNNING"
                        => \E h \in Handlers : Running(h) /\ handler[h].slot = s

(* What SCAN_JOB_STATUS reports of a running scan is true: workers_active  *)
(* is the number of workers under way, none once the results are merged,   *)
(* and maps_done counts maps that were scanned, at most maps_total.        *)
ProgressTrue ==
  \A h \in Handlers : Running(h) =>
    /\ SlotOf(h).active = Cardinality({w \in Workers : Busy(h, w)})
    /\ SlotOf(h).active <= SlotOf(h).workers_total
    /\ SlotOf(h).maps_done <= Cardinality(UNION {worker[h][w].scanned : w \in Workers})
    /\ SlotOf(h).maps_done <= SlotOf(h).maps_total

(* A scan that answers OK and not cancelled has scanned every map the      *)
(* filters let through, and each by exactly one worker: the partition      *)
(* neither loses a map at a slot boundary nor scans one twice.  And no     *)
(* worker is left when the results are merged and freed, although some     *)
(* were threads, some ran inline and `threaded` may be garbage.            *)
CompleteScanCoversMaps ==
  \A h \in Handlers :
    /\ handler[h].pc = "send" /\ handler[h].status = "OK" /\ ~handler[h].cancelled =>
         \A i \in {i \in 1..Len(handler[h].maps) : handler[h].maps[i] > 0} :
           Cardinality({w \in Workers : i \in worker[h][w].scanned}) = 1
    /\ alive /\ handler[h].pc \in {"check", "finish", "send"} =>
         \A w \in Workers : worker[h][w].pc \in {"none", "done"}

(* A cancelled job ends: every loop of every worker looks at the flag, and *)
(* the handler finishes the job once they have gone.                       *)
CancelEnds ==
  \A s \in Slots : slot[s].cancel /\ slot[s].state = "RUNNING"
                     ~> slot[s].state = "CANCELLED" \/ ~alive
=============================================================================
