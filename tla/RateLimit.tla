----------------------------- MODULE RateLimit -----------------------------
(***************************************************************************)
(* accept_rate_check of src/core/daemon/acceptor.c: the limit on how fast  *)
(* one address may open connections, kept in a table of fixed size.  The   *)
(* check runs under g_accept_rate_mutex, so it is one action; what is hard *)
(* is its arithmetic at the edges of a window and of the table.            *)
(***************************************************************************)
EXTENDS Integers, FiniteSets, FiniteSetsExt

CONSTANTS Peers,      \* client addresses, none of them 0
          Limit,      \* MEMDBG_ACCEPT_RATE_LIMIT
          Window,     \* MEMDBG_ACCEPT_RATE_WINDOW_S
          Tracked,    \* MEMDBG_ACCEPT_RATE_TRACKED
          FirstTime,  \* monotonic_seconds() when the daemon starts
          MaxTime,    \* bound on the clock
          MaxRate     \* bound on the attempts per address and second

ASSUME RateLimitAssumption ==
  /\ IsFiniteSet(Peers) /\ "none" \notin Peers
  /\ Limit \in Nat \ {0} /\ Window \in Nat \ {0} /\ Tracked \in Nat \ {0}
  /\ FirstTime \in Nat \ {0}  \* the machine is up for a second by then
  /\ MaxTime \in Nat /\ FirstTime <= MaxTime /\ MaxRate \in Nat

VARIABLES now,             \* monotonic_seconds()
          g_accept_rates,  \* the table
          admitted,        \* history: admissions by address and second,
                           \* as far back as a window reaches
          refused,         \* the address the last check refused, or "none"
          evicted          \* history: addresses whose entry was given away

vars == <<now, g_accept_rates, admitted, refused, evicted>>

Slots == 1 .. Tracked
Empty == [peer |-> "none", count |-> 0, start |-> 0]

Entry == [peer: Peers \cup {"none"}, count: 0 .. Limit, start: 0 .. MaxTime]
Log   == [0 .. MaxTime -> 0 .. MaxRate]

TypeOK ==
  /\ now \in FirstTime .. MaxTime
  /\ g_accept_rates \in [Slots -> Entry]
  /\ admitted \in [Peers -> Log]
  /\ refused \in Peers \cup {"none"} /\ evicted \subseteq Peers

Init ==
  /\ now = FirstTime
  /\ g_accept_rates = [i \in Slots |-> Empty]
  /\ admitted = [p \in Peers |-> [t \in 0 .. MaxTime |-> 0]]
  /\ refused = "none" /\ evicted = {}

(***************************************************************************)
(* The slot of address p: its own entry, else the first empty one; the     *)
(* scan stops at its own entry, so an empty slot before it is not taken.   *)
(* With neither, the entry whose window began first is given away.         *)
(***************************************************************************)
Own(p)    == {i \in Slots : g_accept_rates[i].peer = p}
Free      == {i \in Slots : g_accept_rates[i].peer = "none"
                            /\ g_accept_rates[i].count = 0}
Oldest    == Min({i \in Slots : \A j \in Slots :
                    g_accept_rates[i].start <= g_accept_rates[j].start})

(* Slip: the first empty slot wins over the address's own entry. *)
SlotOfSlip(p) == IF Free # {} THEN Min(Free)
                 ELSE IF Own(p) # {} THEN Min(Own(p)) ELSE Oldest

SlotOf(p) == IF Own(p) # {} THEN Min(Own(p))
             ELSE IF Free # {} THEN Min(Free) ELSE Oldest

(* Slip: a window that outlives its length by a second. *)
ExpiredSlip(entry) == now - entry.start > Window

Expired(entry) == now - entry.start >= Window

(* The entry is taken over, unused, or its window is over: start a new     *)
(* window.  A start of 0 counts as unused.                                 *)
StartsWindow(p, entry) ==
  \/ Own(p) = {} /\ Free = {}
  \/ entry.start = 0
  \/ Expired(entry)

BelowLimit(entry) == entry.count < Limit

Admit(p, slot, entry) ==
  /\ g_accept_rates' = [g_accept_rates EXCEPT ![slot] = entry]
  /\ admitted' = [admitted EXCEPT ![p][now] = @ + 1]
  /\ refused' = "none"

(* accept_rate_check(p, now) *)
Check(p) ==
  LET slot  == SlotOf(p)
      entry == g_accept_rates[slot]
  IN  /\ admitted[p][now] < MaxRate
      /\ \/ /\ StartsWindow(p, entry)
            /\ Admit(p, slot, [peer |-> p, count |-> 1, start |-> now])
            /\ evicted' = evicted \cup ({entry.peer} \ {p, "none"})
         \/ /\ ~StartsWindow(p, entry) /\ BelowLimit(entry)
            /\ Admit(p, slot, [entry EXCEPT !.count = @ + 1])
            /\ UNCHANGED evicted
         \/ /\ ~StartsWindow(p, entry) /\ ~BelowLimit(entry)
            /\ refused' = p
            /\ UNCHANGED <<g_accept_rates, admitted, evicted>>
      /\ UNCHANGED now

Tick == /\ now < MaxTime
        /\ now' = now + 1
        /\ admitted' = [p \in Peers |-> [t \in 0 .. MaxTime |->
                          IF now' - t < Window THEN admitted[p][t] ELSE 0]]
        /\ refused' = "none"
        /\ UNCHANGED <<g_accept_rates, evicted>>

Next == Tick \/ \E p \in Peers : Check(p)

Spec == Init /\ [][Next]_vars

-----------------------------------------------------------------------------
(* Properties *)

(* Before(f)[t] counts the admissions f before second t. *)
Before(f) ==
  LET upto[t \in 0 .. MaxTime + 1] == IF t = 0 THEN 0 ELSE upto[t - 1] + f[t - 1]
  IN  upto

(* The admissions f in the seconds from a up to and without b. *)
Between(f, a, b) == Before(f)[b] - Before(f)[a]

(* The first of the Window seconds that end with t. *)
Reach(t) == IF t < Window THEN 0 ELSE t + 1 - Window

(* Admissions of p in the Window seconds that end now. *)
Recent(p) == Between(admitted[p], Reach(now), now + 1)

(* An address is refused only after it really opened Limit connections in  *)
(* the last Window seconds: no entry is charged for someone else's         *)
(* connections, or for an earlier window's.                                *)
(* The variables also keep their types.                                    *)
RefusedOnlyOnBurst ==
  TypeOK /\ (refused # "none" => Recent(refused) >= Limit)

(* The window is not sliding: any Window seconds overlap at most two       *)
(* windows of an address, and not the second in which the older one was    *)
(* opened together with any second of the newer.  An address that kept its *)
(* entry gets at most 2 * Limit - 1 connections through in that time.      *)
BurstBound == \A p \in Peers \ evicted : Recent(p) <= 2 * Limit - 1
=============================================================================
