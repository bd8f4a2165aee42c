----------------------------- MODULE MCScanJobs -----------------------------
(***************************************************************************)
(* The instance of ScanJobs for TLC.  One job scans a process whose maps   *)
(* are split in two, with a map the filters reject at the boundary; the    *)
(* others scan one that is not worth a second thread.  The assumption      *)
(* checks the partition on every list of up to seven maps of at most two   *)
(* bytes.                                                                  *)
(***************************************************************************)
EXTENDS ScanJobs

CONSTANT big

Lists == [j \in Jobs |-> IF j = big THEN <<2, 1, 0, 1, 1>> ELSE <<1>>]

Small == UNION {[1..n -> 0..2] : n \in 1..7}

ASSUME PartitionCovers == \A maps \in Small : PartitionExact(maps)
=============================================================================
