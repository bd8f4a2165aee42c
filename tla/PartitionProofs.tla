-------------------------- MODULE PartitionProofs --------------------------
(***************************************************************************)
(* partition_maps_by_bytes is exact for every list of maps, every share of *)
(* bytes and every number of threads: whatever the weights, each map that  *)
(* is scanned falls into exactly one slot.                                 *)
(*                                                                         *)
(* The loop is a recursive function, and what it computes is shown by      *)
(* looking at a least counterexample: there is none at 0, and its          *)
(* predecessor is no counterexample.                                       *)
(***************************************************************************)
EXTENDS ScanJobs, FiniteSetTheorems, NaturalsInduction, SequenceTheorems, TLAPS

LEMMA LowestIn ==
  ASSUME NEW S \in SUBSET Nat, S # {}
  PROVE  Lowest(S) \in S /\ \A u \in S : Lowest(S) <= u
<1>1. PICK x \in S : \A y \in S : ~ (<<y, x>> \in OpToRel(<, Nat))
  BY NatLessThanWellFounded, WFMin, Zenon
<1>2. \A y \in S : ~ (y < x)
  BY <1>1, Zenon DEF OpToRel
<1>3. \A y \in S : x <= y
  BY <1>2
<1> QED
  BY <1>3 DEF Lowest

-----------------------------------------------------------------------------
(* f solves the recursion of Splits for the first n maps. *)
Solves(maps, share, threads, n, f) ==
  f = [k \in 0..n |-> IF k = 0 THEN FirstSlot(maps)
                      ELSE AddMap(f[k - 1], k, maps[k], share, threads)]

(* The recursion of Splits has a solution. *)
LEMMA SplitsExist ==
  ASSUME NEW maps \in Seq(Nat), NEW share, NEW threads
  PROVE  \E f : Solves(maps, share, threads, Len(maps), f)
<1> DEFINE Solved(n) == \E f : Solves(maps, share, threads, n, f)
<1> DEFINE Bad == {n \in Nat : ~Solved(n)}
<1>1. Bad = {}
  <2> SUFFICES ASSUME Bad # {} PROVE FALSE
    OBVIOUS
  <2>1. PICK n \in Bad : \A u \in Bad : n <= u
    <3>1. Bad \in SUBSET Nat
      OBVIOUS
    <3> HIDE DEF Bad
    <3> QED
      BY <3>1, LowestIn
  <2>2. n \in Nat /\ ~Solved(n)
    OBVIOUS
  <2>3. CASE n = 0
    <3>1. PICK f : f = [k \in 0..0 |-> FirstSlot(maps)]
      OBVIOUS
    <3>2. Solves(maps, share, threads, 0, f)
      BY <3>1 DEF Solves
    <3> QED
      BY <3>2, <2>2, <2>3
  <2>4. CASE n # 0
    <3>1. n - 1 \in Nat /\ ~(n <= n - 1)
      BY <2>2, <2>4
    <3>2. Solved(n - 1)
      BY <3>1, <2>1
    <3>3. PICK f : f = [k \in 0..n - 1 |->
                         IF k = 0 THEN FirstSlot(maps)
                         ELSE AddMap(f[k - 1], k, maps[k], share, threads)]
      BY <3>2 DEF Solves
    <3>4. PICK e : e = [k \in 0..n |-> IF k = n
                                       THEN AddMap(f[n - 1], n, maps[n], share, threads)
                                       ELSE f[k]]
      OBVIOUS
    <3>5. ASSUME NEW k \in 0..n
          PROVE  e[k] = IF k = 0 THEN FirstSlot(maps)
                        ELSE AddMap(e[k - 1], k, maps[k], share, threads)
      <4>1. CASE k = 0
        BY <4>1, <3>3, <3>4, <2>2, <2>4
      <4>2. CASE k # 0 /\ k # n
        <5>1. k - 1 \in 0..n - 1 /\ k - 1 # n /\ k - 1 \in 0..n /\ k \in 0..n - 1
          BY <4>2, <2>2
        <5>2. e[k] = f[k] /\ e[k - 1] = f[k - 1]
          BY <5>1, <4>2, <3>4
        <5>3. f[k] = AddMap(f[k - 1], k, maps[k], share, threads)
          BY <5>1, <4>2, <3>3
        <5> QED
          BY <5>2, <5>3, <4>2
      <4>3. CASE k = n
        <5>1. n - 1 \in 0..n /\ n - 1 # n
          BY <2>2, <2>4
        <5>2. e[n - 1] = f[n - 1]
          BY <5>1, <3>4
        <5>3. e[n] = AddMap(f[n - 1], n, maps[n], share, threads)
          BY <4>3, <3>4
        <5> QED
          BY <5>2, <5>3, <4>3, <2>4
      <4> QED
        BY <4>1, <4>2, <4>3
    <3>6. Solves(maps, share, threads, n, e)
      BY <3>4, <3>5 DEF Solves
    <3> QED
      BY <3>6, <2>2
  <2> QED
    BY <2>3, <2>4
<1>2. Len(maps) \in Nat
  OBVIOUS
<1> QED
  BY <1>1, <1>2

LEMMA SplitsValues ==
  ASSUME NEW maps \in Seq(Nat), NEW share, NEW threads
  PROVE  /\ Splits(maps, share, threads)[0] = FirstSlot(maps)
         /\ \A k \in 1..Len(maps) :
              Splits(maps, share, threads)[k] =
                AddMap(Splits(maps, share, threads)[k - 1], k, maps[k], share, threads)
<1>1. PICK f : f = Splits(maps, share, threads)
  OBVIOUS
<1>2. Solves(maps, share, threads, Len(maps), f)
  <2>1. f = CHOOSE e : Solves(maps, share, threads, Len(maps), e)
    BY <1>1 DEF Splits, Solves
  <2> QED
    BY <2>1, SplitsExist, Zenon
<1>3. Len(maps) \in Nat
  OBVIOUS
<1>4. f[0] = FirstSlot(maps)
  BY <1>2, <1>3 DEF Solves
<1>5. ASSUME NEW k \in 1..Len(maps)
      PROVE  f[k] = AddMap(f[k - 1], k, maps[k], share, threads)
  <2>1. k \in 0..Len(maps) /\ k # 0
    BY <1>3
  <2> QED
    BY <2>1, <1>2 DEF Solves
<1> QED
  BY <1>1, <1>4, <1>5

-----------------------------------------------------------------------------
(* The loop.  After k maps the slots opened so far start at maps that are  *)
(* further and further on and are scanned, the first one at the first such *)
(* map; a slot that holds bytes has reached that map.                      *)
Opened(maps, threads, k, p) ==
  /\ p \in [starts : Seq(Nat), bytes : Nat]
  /\ Len(p.starts) \in 1..threads
  /\ p.starts[1] = Lowest(Effective(maps))
  /\ \A a \in 1..Len(p.starts) : p.starts[a] \in 1..Len(maps) /\ (a > 1 => p.starts[a] <= k)
  /\ \A a \in 1..Len(p.starts) : p.starts[a] \in Effective(maps)
  /\ \A a, b \in 1..Len(p.starts) : a < b => p.starts[a] < p.starts[b]
  /\ p.bytes > 0 => p.starts[1] <= k

LEMMA EffectiveFirst ==
  ASSUME NEW maps \in Seq(Nat), Effective(maps) # {}
  PROVE  /\ Lowest(Effective(maps)) \in 1..Len(maps)
         /\ Lowest(Effective(maps)) \in Effective(maps)
         /\ \A i \in Effective(maps) : Lowest(Effective(maps)) <= i
<1>1. Effective(maps) \in SUBSET (1..Len(maps)) /\ Len(maps) \in Nat
  BY DEF Effective
<1>2. Effective(maps) \in SUBSET Nat
  BY <1>1
<1> QED
  BY <1>1, <1>2, LowestIn

LEMMA FirstOpened ==
  ASSUME NEW maps \in Seq(Nat), NEW threads \in Nat \ {0}, Effective(maps) # {}
  PROVE  Opened(maps, threads, 0, FirstSlot(maps))
<1>1. PICK lo : lo = Lowest(Effective(maps))
  OBVIOUS
<1>2. lo \in 1..Len(maps) /\ lo \in Effective(maps) /\ Len(maps) \in Nat
  BY <1>1, EffectiveFirst
<1>3. PICK s : s = <<lo>>
  OBVIOUS
<1>4. s \in Seq(Nat) /\ Len(s) = 1 /\ s[1] = lo
  BY <1>2, <1>3
<1>5. FirstSlot(maps) = [starts |-> s, bytes |-> 0]
  BY <1>1, <1>3 DEF FirstSlot
<1>6. PICK q : q = [starts |-> s, bytes |-> 0]
  OBVIOUS
<1>7. q \in [starts : Seq(Nat), bytes : Nat] /\ q.starts = s /\ q.bytes = 0
  BY <1>4, <1>6
<1>8. \A a \in 1..Len(s) : a = 1
  BY <1>4
<1>9. Len(s) \in 1..threads
  BY <1>4
<1>10. \A a \in 1..Len(s) : s[a] \in 1..Len(maps) /\ (a > 1 => s[a] <= 0)
  BY <1>8, <1>4, <1>2
<1>11. \A a, b \in 1..Len(s) : a < b => s[a] < s[b]
  BY <1>8
<1>12. Opened(maps, threads, 0, q)
  <2>1. q.starts[1] = Lowest(Effective(maps))
    BY <1>1, <1>4, <1>7
  <2>2. ~(q.bytes > 0)
    BY <1>7
  <2>3. \A a \in 1..Len(q.starts) : q.starts[a] \in 1..Len(maps) /\ (a > 1 => q.starts[a] <= 0)
    BY <1>10, <1>7
  <2>4. \A a, b \in 1..Len(q.starts) : a < b => q.starts[a] < q.starts[b]
    BY <1>11, <1>7
  <2>5. Len(q.starts) \in 1..threads
    BY <1>9, <1>7
  <2>6. \A a \in 1..Len(q.starts) : q.starts[a] \in Effective(maps)
    BY <1>8, <1>4, <1>2, <1>7
  <2> QED
    BY <1>7, <2>1, <2>2, <2>3, <2>4, <2>5, <2>6, Zenon DEF Opened
<1> QED
  BY <1>5, <1>6, <1>12

LEMMA AddMapOpened ==
  ASSUME NEW maps \in Seq(Nat), NEW threads \in Nat \ {0}, NEW share,
         Effective(maps) # {}, NEW k \in 1..Len(maps), NEW p,
         Opened(maps, threads, k - 1, p)
  PROVE  Opened(maps, threads, k, AddMap(p, k, maps[k], share, threads))
<1>1. PICK b, lo, s : b = maps[k] /\ lo = Lowest(Effective(maps)) /\ s = p.starts
  OBVIOUS
<1>2. Len(maps) \in Nat /\ k \in Nat /\ b \in Nat
  BY <1>1
<1>3. lo \in 1..Len(maps) /\ (b > 0 => lo <= k)
  <2>1. lo \in 1..Len(maps) /\ \A i \in Effective(maps) : lo <= i
    BY <1>1, EffectiveFirst
  <2>2. b > 0 => k \in Effective(maps)
    BY <1>1 DEF Effective
  <2> QED
    BY <2>1, <2>2
<1>4. /\ p \in [starts : Seq(Nat), bytes : Nat] /\ s \in Seq(Nat)
      /\ Len(s) \in 1..threads /\ s[1] = lo
      /\ p.bytes > 0 => lo <= k - 1
  BY <1>1 DEF Opened
<1>7. Len(s) \in Nat /\ p.bytes \in Nat /\ 1 \in 1..Len(s)
  BY <1>4
<1>8. \A a \in 1..Len(s) : s[a] \in 1..Len(maps) /\ (a > 1 => s[a] <= k - 1)
  BY <1>1 DEF Opened
<1>9. \A a, c \in 1..Len(s) : a < c => s[a] < s[c]
  BY <1>1 DEF Opened
<1>10. \A a \in 1..Len(s) : s[a] \in Effective(maps)
  BY <1>1 DEF Opened
<1>5. CASE b > 0 /\ Len(s) < threads /\ p.bytes + b > share /\ p.bytes > 0
  <2>1. AddMap(p, k, b, share, threads) = [starts |-> Append(s, k), bytes |-> b]
    BY <1>1, <1>5 DEF AddMap
  <2>2. PICK r : r = Append(s, k)
    OBVIOUS
  <2>3. r \in Seq(Nat) /\ Len(r) = Len(s) + 1 /\ r[Len(s) + 1] = k
        /\ \A a \in 1..Len(s) : r[a] = s[a]
    BY <2>2, <1>2, <1>4
  <2>4. lo <= k - 1 /\ Len(s) \in Nat
    BY <1>4, <1>5, <1>7
  <2>5. r[1] = lo
    BY <2>3, <1>4, <1>7
  <2>6. \A a \in 1..Len(r) : a \in 1..Len(s) \/ a = Len(s) + 1
    BY <2>3, <2>4
  <2>7. \A a \in 1..Len(s) : s[a] < k
    <3> TAKE a \in 1..Len(s)
    <3>1. CASE a = 1
      BY <3>1, <2>4, <1>2, <1>3, <1>4
    <3>2. CASE a # 1
      <4>1. a > 1
        BY <3>2, <2>4
      <4>2. s[a] \in 1..Len(maps) /\ s[a] <= k - 1
        BY <4>1, <1>8
      <4> QED
        BY <4>2, <1>2
    <3> QED
      BY <3>1, <3>2
  <2>13. \A a \in 1..Len(r) : r[a] \in 1..Len(maps) /\ (a > 1 => r[a] <= k)
    <3> TAKE a \in 1..Len(r)
    <3>1. CASE a \in 1..Len(s)
      <4>1. r[a] = s[a] /\ s[a] \in 1..Len(maps) /\ s[a] < k
        BY <3>1, <2>3, <2>7, <1>8
      <4> QED
        BY <4>1, <1>2
    <3>2. CASE a = Len(s) + 1
      <4>1. r[a] = k
        BY <3>2, <2>3
      <4> QED
        BY <4>1, <1>2
    <3> QED
      BY <3>1, <3>2, <2>6
  <2>8. \A a, c \in 1..Len(r) : a < c => r[a] < r[c]
    <3> SUFFICES ASSUME NEW a \in 1..Len(r), NEW c \in 1..Len(r), a < c
                 PROVE  r[a] < r[c]
      OBVIOUS
    <3>1. a \in 1..Len(s) /\ (c \in 1..Len(s) \/ c = Len(s) + 1)
      <4>1. a # Len(s) + 1
        BY <2>3, <2>4
      <4> QED
        BY <4>1, <2>6
    <3>2. CASE c = Len(s) + 1
      BY <3>1, <3>2, <2>3, <2>7
    <3>3. CASE c \in 1..Len(s)
      BY <3>1, <3>3, <2>3, <1>9
    <3> QED
      BY <3>1, <3>2, <3>3
  <2>9. Len(r) \in 1..threads
    BY <2>3, <2>4, <1>4, <1>5
  <2>14. \A a \in 1..Len(r) : r[a] \in Effective(maps)
    <3>1. k \in Effective(maps)
      BY <1>1, <1>5 DEF Effective
    <3> QED
      BY <3>1, <2>3, <2>6, <1>10
  <2>10. PICK q : q = [starts |-> r, bytes |-> b]
    OBVIOUS
  <2>11. q \in [starts : Seq(Nat), bytes : Nat] /\ q.starts = r /\ q.bytes = b
    BY <2>3, <2>10, <1>2
  <2>12. Opened(maps, threads, k, q)
    <3>1. q.starts[1] = Lowest(Effective(maps)) /\ Len(q.starts) \in 1..threads
      BY <2>5, <2>9, <2>11, <1>1
    <3>2. q.starts[1] <= k
      BY <2>5, <2>11, <1>3, <1>5
    <3> QED
      BY <2>13, <2>14, <2>8, <2>11, <3>1, <3>2, Zenon DEF Opened
  <2> QED
    BY <2>1, <2>2, <2>10, <2>12, <1>1
<1>6. CASE ~(b > 0 /\ Len(s) < threads /\ p.bytes + b > share /\ p.bytes > 0)
  <2>1. PICK q : q = [p EXCEPT !.bytes = @ + b]
    OBVIOUS
  <2>2. AddMap(p, k, maps[k], share, threads) = q
    BY <2>1, <1>1, <1>6 DEF AddMap
  <2>3. q \in [starts : Seq(Nat), bytes : Nat] /\ q.starts = s /\ q.bytes = p.bytes + b
    <3>1. p.bytes \in Nat /\ p.bytes + b \in Nat
      BY <1>2, <1>7
    <3> QED
      BY <2>1, <3>1, <1>1, <1>4
  <2>4. q.bytes > 0 => lo <= k
    BY <2>3, <1>2, <1>3, <1>4, <1>7
  <2>5. ASSUME NEW a \in 1..Len(s)
        PROVE  s[a] \in 1..Len(maps) /\ (a > 1 => s[a] <= k)
    <3>1. s[a] \in 1..Len(maps) /\ (a > 1 => s[a] <= k - 1)
      BY <1>8
    <3> QED
      BY <3>1, <1>2
  <2>6. Opened(maps, threads, k, q)
    <3>1. q.starts[1] = Lowest(Effective(maps)) /\ Len(q.starts) \in 1..threads
      BY <2>3, <1>1, <1>4
    <3>2. q.bytes > 0 => q.starts[1] <= k
      BY <2>3, <2>4, <1>4
    <3> QED
      BY <2>3, <2>5, <3>1, <3>2, <1>9, <1>10, Zenon DEF Opened
  <2> QED
    BY <2>2, <2>6
<1> QED
  BY <1>5, <1>6

LEMMA SplitsOpened ==
  ASSUME NEW maps \in Seq(Nat), NEW threads \in Nat \ {0}, NEW share,
         Effective(maps) # {}
  PROVE  Opened(maps, threads, Len(maps), Splits(maps, share, threads)[Len(maps)])
<1>1. PICK f : f = Splits(maps, share, threads)
  OBVIOUS
<1>2. f[0] = FirstSlot(maps)
      /\ \A k \in 1..Len(maps) : f[k] = AddMap(f[k - 1], k, maps[k], share, threads)
  BY <1>1, SplitsValues
<1>3. Len(maps) \in Nat
  OBVIOUS
<1> DEFINE Bad == {k \in 0..Len(maps) : ~Opened(maps, threads, k, f[k])}
<1>4. Bad = {}
  <2> SUFFICES ASSUME Bad # {} PROVE FALSE
    OBVIOUS
  <2>1. PICK k \in Bad : \A u \in Bad : k <= u
    <3>1. Bad \in SUBSET Nat
      BY <1>3
    <3> HIDE DEF Bad
    <3> QED
      BY <3>1, LowestIn
  <2>2. k \in 0..Len(maps) /\ ~Opened(maps, threads, k, f[k])
    OBVIOUS
  <2>3. k # 0
    BY <2>2, <1>2, FirstOpened
  <2>4. k - 1 \in 0..Len(maps) /\ ~(k <= k - 1) /\ k \in 1..Len(maps)
    BY <2>2, <2>3, <1>3
  <2>5. Opened(maps, threads, k - 1, f[k - 1])
    BY <2>1, <2>4
  <2>6. Opened(maps, threads, k, f[k])
    <3>1. f[k] = AddMap(f[k - 1], k, maps[k], share, threads)
      BY <2>4, <1>2
    <3> QED
      BY <2>4, <2>5, <3>1, AddMapOpened, Zenon
  <2> QED
    BY <2>2, <2>6
<1> QED
  BY <1>1, <1>3, <1>4

-----------------------------------------------------------------------------
(* The slots that start at s and end where the next one starts, the last   *)
(* one at the end of the list.                                             *)
EndOf(s, last, m) == IF m = Len(s) THEN last + 1 ELSE s[m + 1]

(* A position that is not before the first start is in exactly one slot:   *)
(* the last one that starts at or before it.                               *)
LEMMA OneSlot ==
  ASSUME NEW s \in Seq(Nat), Len(s) # 0,
         \A a, c \in 1..Len(s) : a < c => s[a] < s[c],
         NEW last \in Nat, NEW i \in 1..last, s[1] <= i
  PROVE  \E k \in 1..Len(s) : \A m \in 1..Len(s) :
           i \in s[m]..EndOf(s, last, m) - 1 <=> m = k
<1>1. Len(s) \in Nat /\ (\A a \in 1..Len(s) : s[a] \in Nat) /\ i \in Nat
  OBVIOUS
<1> DEFINE C == {a \in 1..Len(s) : s[a] > i}
<1>2. PICK k \in 1..Len(s) : s[k] <= i /\ (k = Len(s) \/ s[k + 1] > i)
  <2>1. CASE C = {}
    <3>1. Len(s) \in 1..Len(s)
      BY <1>1
    <3>2. Len(s) \notin C
      BY <2>1
    <3>3. s[Len(s)] <= i
      BY <1>1, <3>1, <3>2
    <3> QED
      BY <3>1, <3>3
  <2>2. CASE C # {}
    <3>1. C \in SUBSET Nat
      BY <1>1
    <3>2. PICK c \in C : \A u \in C : c <= u
      <4> HIDE DEF C
      <4> QED
        BY <2>2, <3>1, LowestIn
    <3>3. c \in 1..Len(s) /\ s[c] > i
      OBVIOUS
    <3>4. c # 1
      BY <3>3, <1>1
    <3>5. c - 1 \in 1..Len(s) /\ ~(c <= c - 1) /\ c - 1 + 1 = c
      BY <3>3, <3>4, <1>1
    <3>6. c - 1 \notin C
      BY <3>2, <3>5
    <3>7. s[c - 1] <= i
      BY <3>5, <3>6, <1>1
    <3> QED
      BY <3>3, <3>5, <3>7
  <2> QED
    BY <2>1, <2>2
<1> HIDE DEF C
<1>3. ASSUME NEW m \in 1..Len(s)
      PROVE  i \in s[m]..EndOf(s, last, m) - 1 <=> m = k
  <2>1. EndOf(s, last, m) \in Nat
    <3>1. CASE m = Len(s)
      BY <3>1 DEF EndOf
    <3>2. CASE m # Len(s)
      <4>1. m + 1 \in 1..Len(s)
        BY <3>2, <1>1
      <4> QED
        BY <4>1, <3>2, <1>1 DEF EndOf
    <3> QED
      BY <3>1, <3>2
  <2>2. CASE m = k
    <3>1. CASE k = Len(s)
      <4>1. EndOf(s, last, m) = last + 1
        BY <2>2, <3>1 DEF EndOf
      <4> QED
        BY <4>1, <1>1, <1>2, <2>2
    <3>2. CASE k # Len(s)
      <4>1. EndOf(s, last, m) = s[k + 1] /\ s[k + 1] > i
        BY <2>2, <3>2, <1>2 DEF EndOf
      <4> QED
        BY <4>1, <2>1, <1>1, <1>2, <2>2
    <3> QED
      BY <3>1, <3>2
  <2>3. CASE m < k
    <3>1. m # Len(s) /\ m + 1 \in 1..Len(s) /\ (m + 1 = k \/ m + 1 < k)
      BY <2>3, <1>1
    <3>2. s[m + 1] <= s[k]
      <4>1. CASE m + 1 = k
        BY <4>1, <1>1
      <4>2. CASE m + 1 < k
        <5>1. s[m + 1] < s[k]
          BY <4>2, <3>1
        <5> QED
          BY <5>1, <3>1, <1>1
      <4> QED
        BY <4>1, <4>2, <3>1
    <3>3. EndOf(s, last, m) <= i
      <4>1. EndOf(s, last, m) = s[m + 1]
        BY <3>1 DEF EndOf
      <4> QED
        <5>1. PICK x, y : x = s[m + 1] /\ y = s[k]
          OBVIOUS
        <5>2. x \in Nat /\ y \in Nat
          BY <5>1, <3>1, <1>1
        <5>3. x <= y /\ y <= i
          BY ONLY <5>1, <3>2, <1>2
        <5>4. x <= i
          BY ONLY <5>2, <5>3, <1>1
        <5> QED
          BY ONLY <5>1, <5>4, <4>1
    <3> QED
      BY <3>3, <2>1, <2>3, <1>1
  <2>4. CASE m > k
    <3>1. k # Len(s) /\ k + 1 \in 1..Len(s) /\ (k + 1 = m \/ k + 1 < m)
      BY <2>4, <1>1
    <3>2. s[k + 1] <= s[m]
      <4>1. CASE k + 1 = m
        BY <4>1, <1>1
      <4>2. CASE k + 1 < m
        <5>1. s[k + 1] < s[m]
          BY <4>2, <3>1
        <5> QED
          BY <5>1, <3>1, <1>1
      <4> QED
        BY <4>1, <4>2, <3>1
    <3>3. s[m] > i
      BY <3>1, <3>2, <1>1, <1>2
    <3> QED
      BY <3>3, <2>1, <2>4, <1>1
  <2> QED
    BY <2>2, <2>3, <2>4, <1>1
<1> QED
  BY <1>3

LEMMA EffectiveFinite ==
  ASSUME NEW maps \in Seq(Nat)
  PROVE  /\ IsFiniteSet(Effective(maps))
         /\ Cardinality(Effective(maps)) \in Nat
         /\ Effective(maps) \subseteq 1..Len(maps)
<1>1. Effective(maps) \subseteq 1..Len(maps) /\ Len(maps) \in Nat
  BY DEF Effective
<1>2. IsFiniteSet(1..Len(maps))
  BY <1>1, FS_Interval
<1>3. IsFiniteSet(Effective(maps))
  BY <1>1, <1>2, FS_Subset
<1> QED
  BY <1>1, <1>3, FS_CardinalityType

(* partition_maps_by_bytes: for every list of maps and every number of     *)
(* threads there are between one slot and as many as threads, all of them  *)
(* inside the list, and each map that is scanned is in exactly one.  The   *)
(* share of bytes and the total it comes from do not matter.               *)
THEOREM PartitionIsExact ==
  ASSUME NEW maps \in Seq(Nat)
  PROVE  PartitionExact(maps)
<1>1. Len(maps) \in Nat /\ Threads \in Nat \ {0}
  <2>1. Len(maps) \in Nat
    OBVIOUS
  <2>2. Threads \in Nat \ {0}
    BY ONLY ScanAssumption
  <2> QED
    BY ONLY <2>1, <2>2
<1>2. PICK p : p = Partition(maps)
  OBVIOUS
<1>3. PICK n : n = Cardinality(Effective(maps))
  OBVIOUS
<1>4. n \in Nat /\ Effective(maps) \subseteq 1..Len(maps) /\ IsFiniteSet(Effective(maps))
  BY <1>3, EffectiveFinite
<1> SUFFICES /\ Len(p) \in 1..Threads
             /\ \A k \in 1..Len(p) : p[k].first \in 1..Len(maps) + 1
                                      /\ p[k].end \in 1..Len(maps) + 1
             /\ Len(p) > 1 => \A k \in 1..Len(p) : p[k].first \in Effective(maps)
                                                     /\ p[k].first < p[k].end
             /\ \A i \in Effective(maps) :
                  \E k \in 1..Len(p) : \A m \in 1..Len(p) :
                    i \in p[m].first..p[m].end - 1 <=> m = k
  BY <1>2 DEF PartitionExact
<1>5. CASE Threads <= 1 \/ n < 4
  <2>1. p = <<[first |-> 1, end |-> Len(maps) + 1]>>
    BY <1>2, <1>3, <1>5 DEF Partition
  <2>2. Len(p) = 1 /\ p[1].first = 1 /\ p[1].end = Len(maps) + 1
    BY <2>1
  <2>3. Len(p) \in 1..Threads
    BY <2>2, <1>1
  <2>4. \A k \in 1..Len(p) : k = 1
    BY <2>2
  <2>5. \A k \in 1..Len(p) : p[k].first \in 1..Len(maps) + 1
                              /\ p[k].end \in 1..Len(maps) + 1
    BY <2>2, <2>4, <1>1
  <2>6. ASSUME NEW i \in Effective(maps)
        PROVE  \E k \in 1..Len(p) : \A m \in 1..Len(p) :
                 i \in p[m].first..p[m].end - 1 <=> m = k
    <3>1. i \in p[1].first..p[1].end - 1 /\ 1 \in 1..Len(p)
      BY <2>2, <1>1, <1>4
    <3> QED
      BY <3>1, <2>4
  <2> QED
    BY <2>2, <2>3, <2>5, <2>6
<1>6. CASE ~(Threads <= 1 \/ n < 4)
  <2>1. PICK threads : threads = Smaller(Threads, n \div 2)
    OBVIOUS
  <2>2. threads \in Nat \ {0} /\ threads <= Threads
    <3>1. n \div 2 \in Nat /\ n \div 2 >= 2
      BY <1>4, <1>6
    <3> QED
      BY <3>1, <2>1, <1>1, <1>6 DEF Smaller
  <2>3. PICK share : share = Larger(Total(maps) \div threads, 1)
    OBVIOUS
  <2>4. PICK q : q = Splits(maps, share, threads)[Len(maps)]
    OBVIOUS
  <2>5. PICK s : s = q.starts
    OBVIOUS
  <2>6. s = SlotStarts(maps, threads)
    BY <2>3, <2>4, <2>5 DEF SlotStarts
  <2>7. Effective(maps) # {}
    <3>1. n # 0
      BY <1>4, <1>6
    <3> QED
      BY <3>1, <1>3, FS_EmptySet
  <2>8. Opened(maps, threads, Len(maps), q)
    BY <2>2, <2>4, <2>7, SplitsOpened
  <2>9. /\ s \in Seq(Nat) /\ Len(s) \in 1..threads /\ Len(s) \in Nat
        /\ s[1] = Lowest(Effective(maps))
        /\ \A a \in 1..Len(s) : s[a] \in 1..Len(maps) /\ s[a] \in Effective(maps)
        /\ \A a, c \in 1..Len(s) : a < c => s[a] < s[c]
    <3>1. q \in [starts : Seq(Nat), bytes : Nat]
      BY <2>8 DEF Opened
    <3>2. s \in Seq(Nat)
      BY <3>1, <2>5
    <3>3. /\ Len(s) \in 1..threads /\ s[1] = Lowest(Effective(maps))
          /\ \A a \in 1..Len(s) : s[a] \in 1..Len(maps) /\ s[a] \in Effective(maps)
          /\ \A a, c \in 1..Len(s) : a < c => s[a] < s[c]
      BY <2>8, <2>5, Zenon DEF Opened
    <3> QED
      BY <3>2, <3>3
  <2>10. p = [k \in 1..Len(s) |-> [first |-> s[k], end |-> EndOf(s, Len(maps), k)]]
    BY <2>1, <2>6, <1>2, <1>3, <1>6 DEF Partition, EndOf
  <2>11. Len(p) = Len(s)
    BY <2>9, <2>10
  <2>12. \A k \in 1..Len(s) : p[k].first = s[k] /\ p[k].end = EndOf(s, Len(maps), k)
    BY <2>10
  <2>13. Len(p) \in 1..Threads
    BY <2>2, <2>9, <2>11, <1>1
  <2>14. ASSUME NEW k \in 1..Len(s)
         PROVE  /\ s[k] \in 1..Len(maps) + 1 /\ EndOf(s, Len(maps), k) \in 1..Len(maps) + 1
                /\ s[k] < EndOf(s, Len(maps), k) /\ s[k] \in Effective(maps)
    <3>1. s[k] \in 1..Len(maps) /\ s[k] \in Effective(maps)
      BY <2>9
    <3>2. CASE k = Len(s)
      <4>1. EndOf(s, Len(maps), k) = Len(maps) + 1
        BY <3>2 DEF EndOf
      <4> QED
        BY <4>1, <3>1, <1>1
    <3>3. CASE k # Len(s)
      <4>1. k + 1 \in 1..Len(s) /\ k < k + 1
        BY <3>3, <2>9
      <4>2. s[k + 1] \in 1..Len(maps) /\ EndOf(s, Len(maps), k) = s[k + 1]
        BY <4>1, <3>3, <2>9 DEF EndOf
      <4>3. s[k] < s[k + 1]
        BY <4>1, <2>9
      <4> QED
        BY <4>2, <4>3, <3>1, <1>1
    <3> QED
      BY <3>2, <3>3
  <2>15. ASSUME NEW i \in Effective(maps)
         PROVE  \E k \in 1..Len(p) : \A m \in 1..Len(p) :
                  i \in p[m].first..p[m].end - 1 <=> m = k
    <3>1. i \in 1..Len(maps) /\ s[1] <= i /\ Len(s) # 0
      <4>1. Lowest(Effective(maps)) <= i
        BY <2>7, EffectiveFirst
      <4> QED
        BY <4>1, <2>9, <1>4
    <3>2. \E k \in 1..Len(s) : \A m \in 1..Len(s) :
            i \in s[m]..EndOf(s, Len(maps), m) - 1 <=> m = k
      <4>1. \A a, c \in 1..Len(s) : a < c => s[a] < s[c]
        BY <2>9
      <4> QED
        BY <3>1, <2>9, <4>1, <1>1, OneSlot
    <3>3. PICK k \in 1..Len(s) : \A m \in 1..Len(s) :
            i \in s[m]..EndOf(s, Len(maps), m) - 1 <=> m = k
      BY <3>2
    <3>4. ASSUME NEW m \in 1..Len(p)
          PROVE  i \in p[m].first..p[m].end - 1 <=> m = k
      <4>1. m \in 1..Len(s)
        BY <2>11
      <4>2. p[m].first = s[m] /\ p[m].end = EndOf(s, Len(maps), m)
        BY <4>1, <2>12
      <4>3. i \in s[m]..EndOf(s, Len(maps), m) - 1 <=> m = k
        BY <4>1, <3>3
      <4> QED
        BY <4>2, <4>3
    <3>5. k \in 1..Len(p)
      BY <2>11
    <3> QED
      BY <3>4, <3>5
  <2> QED
    BY <2>11, <2>12, <2>13, <2>14, <2>15
<1> QED
  BY <1>5, <1>6
=============================================================================
