-------------------------- MODULE RateLimitProofs --------------------------
(***************************************************************************)
(* What accept_rate_check guarantees, for any addresses, limit, window and *)
(* size of the table, and however long the clock runs: nobody is refused   *)
(* for connections that are not its own or not of this window, and who     *)
(* keeps its entry gets fewer than two limits through in any window.       *)
(***************************************************************************)
EXTENDS RateLimit, FiniteSetTheorems, NaturalsInduction, TLAPS

LEMMA Bounds ==
  /\ Limit \in Nat /\ 1 <= Limit /\ Window \in Nat /\ 1 <= Window
  /\ Tracked \in Nat /\ 1 <= Tracked /\ FirstTime \in Nat /\ 1 <= FirstTime
  /\ MaxTime \in Nat /\ FirstTime <= MaxTime /\ MaxRate \in Nat
  /\ "none" \notin Peers
BY RateLimitAssumption

LEMMA MinIn ==
  ASSUME NEW S \in SUBSET Nat, S # {}
  PROVE  Min(S) \in S /\ \A u \in S : Min(S) <= u
<1>1. PICK x \in S : \A y \in S : ~ (<<y, x>> \in OpToRel(<, Nat))
  BY NatLessThanWellFounded, WFMin, Zenon
<1>2. \A y \in S : ~ (y < x)
  BY <1>1, Zenon DEF OpToRel
<1>3. \A y \in S : x <= y
  BY <1>2
<1> QED
  BY <1>3 DEF Min

-----------------------------------------------------------------------------
(* Sums of admissions *)

Seconds == [0 .. MaxTime -> Nat]

(* What never falls from one second to the next does not fall over several. *)
LEMMA Climbs ==
  ASSUME NEW d, NEW a \in Nat, NEW b \in Nat, a <= b,
         \A t \in a .. b : d[t] \in Int,
         \A t \in a .. b : t < b => d[t] <= d[t + 1]
  PROVE  d[a] <= d[b]
<1> DEFINE Bad == {n \in a .. b : ~(d[a] <= d[n])}
<1>1. Bad = {}
  <2> SUFFICES ASSUME Bad # {} PROVE FALSE
    OBVIOUS
  <2>1. PICK n : n \in Bad /\ \A u \in Bad : n <= u
    <3>1. Bad \in SUBSET Nat
      OBVIOUS
    <3> HIDE DEF Bad
    <3> QED
      BY <3>1, MinIn
  <2>2. n \in a .. b /\ ~(d[a] <= d[n])
    BY <2>1
  <2>3. n # a
    BY <2>2
  <2>4. n - 1 \in a .. b /\ n - 1 < b /\ n - 1 + 1 = n /\ ~(n <= n - 1)
    BY <2>2, <2>3
  <2>5. d[a] <= d[n - 1]
    BY <2>1, <2>4
  <2>6. d[n - 1] <= d[n]
    BY <2>4
  <2>7. d[a] \in Int /\ d[n - 1] \in Int /\ d[n] \in Int
    BY <2>2, <2>4
  <2> QED
    BY <2>2, <2>5, <2>6, <2>7
<1>2. b \in a .. b
  OBVIOUS
<1> QED
  BY <1>1, <1>2

(* g solves the recursion of Before up to n. *)
Counts(f, n, g) == g = [t \in 0 .. n |-> IF t = 0 THEN 0 ELSE g[t - 1] + f[t - 1]]

(* The recursion of Before has a solution. *)
LEMMA CountsExist ==
  ASSUME NEW f, NEW m \in Nat
  PROVE  \E g : Counts(f, m, g)
<1> DEFINE Solved(n) == \E g : Counts(f, n, g)
<1> DEFINE Bad == {n \in Nat : ~Solved(n)}
<1>1. Bad = {}
  <2> SUFFICES ASSUME Bad # {} PROVE FALSE
    OBVIOUS
  <2>1. PICK n : n \in Bad /\ \A u \in Bad : n <= u
    <3>1. Bad \in SUBSET Nat
      OBVIOUS
    <3> HIDE DEF Bad
    <3> QED
      BY <3>1, MinIn
  <2>2. n \in Nat /\ ~Solved(n)
    BY <2>1
  <2>3. CASE n = 0
    <3>1. PICK g : g = [t \in 0 .. 0 |-> 0]
      OBVIOUS
    <3>2. Counts(f, 0, g)
      BY <3>1 DEF Counts
    <3> QED
      BY <3>2, <2>2, <2>3
  <2>4. CASE n # 0
    <3>1. n - 1 \in Nat /\ ~(n <= n - 1)
      BY <2>2, <2>4
    <3>2. Solved(n - 1)
      BY <3>1, <2>1
    <3>3. PICK g : g = [t \in 0 .. n - 1 |-> IF t = 0 THEN 0 ELSE g[t - 1] + f[t - 1]]
      BY <3>2 DEF Counts
    <3>4. PICK e : e = [t \in 0 .. n |-> IF t = n THEN g[n - 1] + f[n - 1] ELSE g[t]]
      OBVIOUS
    <3>5. ASSUME NEW t \in 0 .. n
          PROVE  e[t] = IF t = 0 THEN 0 ELSE e[t - 1] + f[t - 1]
      <4>1. CASE t = 0
        BY <4>1, <3>3, <3>4, <2>2, <2>4
      <4>2. CASE t # 0 /\ t # n
        <5>1. t - 1 \in 0 .. n - 1 /\ t - 1 # n /\ t - 1 \in 0 .. n /\ t \in 0 .. n - 1
          BY <4>2, <2>2
        <5>2. e[t] = g[t] /\ e[t - 1] = g[t - 1]
          BY <5>1, <4>2, <3>4
        <5>3. g[t] = g[t - 1] + f[t - 1]
          BY <5>1, <4>2, <3>3
        <5> QED
          BY <5>2, <5>3, <4>2
      <4>3. CASE t = n
        <5>1. n - 1 \in 0 .. n /\ n - 1 # n
          BY <2>2, <2>4
        <5>2. e[n - 1] = g[n - 1]
          BY <5>1, <3>4
        <5>3. e[n] = g[n - 1] + f[n - 1]
          BY <4>3, <3>4
        <5> QED
          BY <5>2, <5>3, <4>3, <2>4
      <4> QED
        BY <4>1, <4>2, <4>3
    <3>6. Counts(f, n, e)
      BY <3>4, <3>5 DEF Counts
    <3> QED
      BY <3>6, <2>2
  <2> QED
    BY <2>3, <2>4
<1> QED
  BY <1>1

LEMMA BeforeValues ==
  ASSUME NEW f \in Seconds
  PROVE  /\ Before(f)[0] = 0
         /\ \A t \in 0 .. MaxTime : Before(f)[t + 1] = Before(f)[t] + f[t]
         /\ \A t \in 0 .. MaxTime + 1 : Before(f)[t] \in Nat
<1>1. PICK g : g = Before(f)
  OBVIOUS
<1>2. MaxTime + 1 \in Nat /\ MaxTime \in Nat
  BY Bounds
<1>3. Counts(f, MaxTime + 1, g)
  <2>1. g = CHOOSE e : Counts(f, MaxTime + 1, e)
    BY <1>1 DEF Before, Counts
  <2> QED
    BY <2>1, <1>2, CountsExist, Zenon
<1>4. g[0] = 0
  BY <1>2, <1>3 DEF Counts
<1>5. ASSUME NEW t \in 0 .. MaxTime
      PROVE  g[t + 1] = g[t] + f[t]
  <2>1. PICK u : u = t + 1
    OBVIOUS
  <2>2. u \in 0 .. MaxTime + 1 /\ u # 0 /\ u - 1 = t
    BY <2>1, <1>2
  <2>3. \A v \in 0 .. MaxTime + 1 : g[v] = IF v = 0 THEN 0 ELSE g[v - 1] + f[v - 1]
    BY <1>3 DEF Counts
  <2>4. g[u] = g[u - 1] + f[u - 1]
    BY <2>2, <2>3
  <2> QED
    BY ONLY <2>1, <2>2, <2>4
<1>6. \A t \in 0 .. MaxTime : f[t] \in Nat
  BY DEF Seconds
<1> DEFINE Bad == {n \in 0 .. MaxTime + 1 : g[n] \notin Nat}
<1>7. Bad = {}
  <2> SUFFICES ASSUME Bad # {} PROVE FALSE
    OBVIOUS
  <2>1. PICK n : n \in Bad /\ \A u \in Bad : n <= u
    <3>1. Bad \in SUBSET Nat
      BY <1>2
    <3> HIDE DEF Bad
    <3> QED
      BY <3>1, MinIn
  <2>2. n \in 0 .. MaxTime + 1 /\ g[n] \notin Nat /\ n # 0
    BY <2>1, <1>4
  <2>3. n - 1 \in 0 .. MaxTime /\ n - 1 \in 0 .. MaxTime + 1 /\ n - 1 + 1 = n /\ ~(n <= n - 1)
    BY <2>2, <1>2
  <2>4. g[n - 1] \in Nat
    BY <2>1, <2>3
  <2>5. g[n] = g[n - 1] + f[n - 1] /\ f[n - 1] \in Nat
    BY <2>3, <1>5, <1>6
  <2> QED
    BY <2>2, <2>4, <2>5
<1> QED
  BY <1>1, <1>4, <1>5, <1>7

(* The admissions from a up to b are the sum of what is in between: they   *)
(* grow with the interval, add up over a point in it, and depend on what   *)
(* was admitted in between only.                                           *)
LEMMA BetweenFacts ==
  ASSUME NEW f \in Seconds, NEW a \in 0 .. MaxTime + 1, NEW b \in 0 .. MaxTime + 1, a <= b
  PROVE  Between(f, a, b) \in Nat
<1>1. PICK d : d = Before(f)
  OBVIOUS
<1>2. /\ \A t \in 0 .. MaxTime : d[t + 1] = d[t] + f[t] /\ f[t] \in Nat
      /\ \A t \in 0 .. MaxTime + 1 : d[t] \in Nat
  BY <1>1, BeforeValues DEF Seconds
<1>3. \A t \in a .. b : t \in 0 .. MaxTime + 1 /\ (t < b => t \in 0 .. MaxTime)
  BY Bounds
<1>4. \A t \in a .. b : d[t] \in Int
  BY <1>2, <1>3
<1>5. \A t \in a .. b : t < b => d[t] <= d[t + 1]
  <2> TAKE t \in a .. b
  <2> HAVE t < b
  <2>1. d[t + 1] = d[t] + f[t] /\ f[t] \in Nat /\ d[t] \in Nat
    BY <1>2, <1>3
  <2> QED
    BY <2>1
<1>6. d[a] <= d[b]
  <2>1. a \in Nat /\ b \in Nat
    OBVIOUS
  <2> QED
    BY <2>1, <1>4, <1>5, Climbs
<1>7. d[a] \in Nat /\ d[b] \in Nat
  BY <1>2
<1>8. Between(f, a, b) = d[b] - d[a]
  BY <1>1 DEF Between
<1> QED
  BY <1>6, <1>7, <1>8

LEMMA BetweenSplits ==
  ASSUME NEW f \in Seconds, NEW a \in 0 .. MaxTime + 1, NEW b \in 0 .. MaxTime + 1,
         NEW c \in 0 .. MaxTime + 1
  PROVE  Between(f, a, c) = Between(f, a, b) + Between(f, b, c)
<1>1. PICK x, y, z : x = Before(f)[a] /\ y = Before(f)[b] /\ z = Before(f)[c]
  OBVIOUS
<1>2. x \in Nat /\ y \in Nat /\ z \in Nat
  BY <1>1, BeforeValues
<1>3. z - x = (y - x) + (z - y)
  BY <1>2
<1> QED
  BY <1>1, <1>3 DEF Between

LEMMA BetweenOne ==
  ASSUME NEW f \in Seconds, NEW t \in 0 .. MaxTime
  PROVE  /\ Between(f, t, t + 1) = f[t] /\ f[t] \in Nat
         /\ Between(f, t, t) = 0 /\ Between(f, t + 1, t + 1) = 0
<1>1. PICK x, y : x = Before(f)[t] /\ y = Before(f)[t + 1]
  OBVIOUS
<1>2. t \in 0 .. MaxTime + 1 /\ t + 1 \in 0 .. MaxTime + 1 /\ f[t] \in Nat
  BY Bounds DEF Seconds
<1>3. x \in Nat /\ y = x + f[t]
  BY <1>1, <1>2, BeforeValues
<1>4. y - x = f[t] /\ x - x = 0 /\ y - y = 0
  BY <1>2, <1>3
<1> QED
  BY <1>1, <1>2, <1>4 DEF Between

LEMMA BetweenCompares ==
  ASSUME NEW f \in Seconds, NEW g \in Seconds,
         NEW a \in 0 .. MaxTime + 1, NEW b \in 0 .. MaxTime + 1, a <= b,
         \A t \in 0 .. MaxTime : a <= t /\ t < b => g[t] <= f[t]
  PROVE  Between(g, a, b) <= Between(f, a, b)
<1>1. PICK p, q : p = Before(f) /\ q = Before(g)
  OBVIOUS
<1>2. /\ \A t \in 0 .. MaxTime : p[t + 1] = p[t] + f[t] /\ f[t] \in Nat
      /\ \A t \in 0 .. MaxTime + 1 : p[t] \in Nat
      /\ \A t \in 0 .. MaxTime : q[t + 1] = q[t] + g[t] /\ g[t] \in Nat
      /\ \A t \in 0 .. MaxTime + 1 : q[t] \in Nat
  <2>1. /\ \A t \in 0 .. MaxTime : p[t + 1] = p[t] + f[t] /\ f[t] \in Nat
        /\ \A t \in 0 .. MaxTime + 1 : p[t] \in Nat
    BY <1>1, BeforeValues DEF Seconds
  <2>2. /\ \A t \in 0 .. MaxTime : q[t + 1] = q[t] + g[t] /\ g[t] \in Nat
        /\ \A t \in 0 .. MaxTime + 1 : q[t] \in Nat
    BY <1>1, BeforeValues DEF Seconds
  <2> QED
    BY <2>1, <2>2
<1>3. PICK d : d = [t \in a .. b |-> p[t] - q[t]]
  OBVIOUS
<1>4. \A t \in a .. b : t \in 0 .. MaxTime + 1 /\ (t < b => t \in 0 .. MaxTime /\ t + 1 \in a .. b)
  BY Bounds
<1>5. \A t \in a .. b : d[t] = p[t] - q[t]
  BY <1>3
<1>6. \A t \in a .. b : d[t] \in Int
  BY <1>2, <1>4, <1>5
<1>7. \A t \in a .. b : t < b => d[t] <= d[t + 1]
  <2> TAKE t \in a .. b
  <2> HAVE t < b
  <2>1. /\ p[t + 1] = p[t] + f[t] /\ f[t] \in Nat /\ p[t] \in Nat
        /\ q[t + 1] = q[t] + g[t] /\ g[t] \in Nat /\ q[t] \in Nat
    BY <1>2, <1>4
  <2>2. d[t] = p[t] - q[t] /\ d[t + 1] = p[t + 1] - q[t + 1]
    BY <1>4, <1>5
  <2>3. g[t] <= f[t]
    BY <1>4
  <2> QED
    BY <2>1, <2>2, <2>3
<1>8. d[a] <= d[b]
  <2>1. a \in Nat /\ b \in Nat
    OBVIOUS
  <2> QED
    BY <2>1, <1>6, <1>7, Climbs
<1>9. /\ d[a] = p[a] - q[a] /\ d[b] = p[b] - q[b]
      /\ p[a] \in Nat /\ p[b] \in Nat /\ q[a] \in Nat /\ q[b] \in Nat
  BY <1>2, <1>5
<1>10. q[b] - q[a] <= p[b] - p[a]
  BY <1>8, <1>9
<1> QED
  BY <1>1, <1>10 DEF Between

LEMMA BetweenZero ==
  ASSUME NEW f \in Seconds, NEW a \in 0 .. MaxTime + 1, NEW b \in 0 .. MaxTime + 1, a <= b,
         \A t \in 0 .. MaxTime : a <= t /\ t < b => f[t] = 0
  PROVE  Between(f, a, b) = 0
<1>1. PICK p, d : p = Before(f) /\ d = [t \in a .. b |-> 0 - p[t]]
  OBVIOUS
<1>2. /\ \A t \in 0 .. MaxTime : p[t + 1] = p[t] + f[t]
      /\ \A t \in 0 .. MaxTime + 1 : p[t] \in Nat
  BY <1>1, BeforeValues
<1>3. \A t \in a .. b : t \in 0 .. MaxTime + 1 /\ (t < b => t \in 0 .. MaxTime /\ t + 1 \in a .. b)
  BY Bounds
<1>4. \A t \in a .. b : d[t] = 0 - p[t] /\ p[t] \in Nat
  BY <1>1, <1>2, <1>3
<1>5. \A t \in a .. b : t < b => d[t] <= d[t + 1]
  <2> TAKE t \in a .. b
  <2> HAVE t < b
  <2>1. p[t + 1] = p[t] + f[t] /\ f[t] = 0 /\ p[t] \in Nat
    BY <1>2, <1>3
  <2>2. d[t] = 0 - p[t] /\ d[t + 1] = 0 - p[t + 1]
    BY <1>3, <1>4
  <2> QED
    BY <2>1, <2>2
<1>6. d[a] <= d[b]
  <2>1. a \in Nat /\ b \in Nat /\ \A t \in a .. b : d[t] \in Int
    BY <1>4
  <2> QED
    BY <2>1, <1>5, Climbs
<1>7. d[a] = 0 - p[a] /\ d[b] = 0 - p[b] /\ p[a] \in Nat /\ p[b] \in Nat
  BY <1>4
<1>8. p[b] <= p[a]
  BY <1>6, <1>7
<1>9. Between(f, a, b) = p[b] - p[a] /\ Between(f, a, b) \in Nat
  BY <1>1, BetweenFacts DEF Between
<1> QED
  BY <1>7, <1>8, <1>9

LEMMA BetweenSame ==
  ASSUME NEW f \in Seconds, NEW g \in Seconds,
         NEW a \in 0 .. MaxTime + 1, NEW b \in 0 .. MaxTime + 1, a <= b,
         \A t \in 0 .. MaxTime : a <= t /\ t < b => g[t] = f[t]
  PROVE  Between(g, a, b) = Between(f, a, b)
<1>1. \A t \in 0 .. MaxTime : f[t] \in Nat /\ g[t] \in Nat
  BY DEF Seconds
<1>2. \A t \in 0 .. MaxTime : a <= t /\ t < b => g[t] <= f[t] /\ f[t] <= g[t]
  BY <1>1
<1>3. Between(g, a, b) <= Between(f, a, b)
  BY <1>2, BetweenCompares
<1>4. Between(f, a, b) <= Between(g, a, b)
  BY <1>2, BetweenCompares
<1>5. Between(f, a, b) \in Nat /\ Between(g, a, b) \in Nat
  BY BetweenFacts
<1> QED
  BY <1>3, <1>4, <1>5

LEMMA BetweenWider ==
  ASSUME NEW f \in Seconds, NEW a \in 0 .. MaxTime + 1, NEW b \in 0 .. MaxTime + 1,
         NEW c \in 0 .. MaxTime + 1, NEW d \in 0 .. MaxTime + 1, a <= b, b <= c, c <= d
  PROVE  Between(f, b, c) <= Between(f, a, d)
<1>1. a <= d /\ b <= d
  OBVIOUS
<1>2. /\ Between(f, a, d) = Between(f, a, b) + Between(f, b, d)
      /\ Between(f, b, d) = Between(f, b, c) + Between(f, c, d)
  BY BetweenSplits
<1>3. Between(f, a, b) \in Nat /\ Between(f, b, c) \in Nat /\ Between(f, c, d) \in Nat
  BY BetweenFacts
<1> QED
  BY <1>2, <1>3

(* One more admission in second n. *)
Bumped(f, g, n) == /\ f \in Seconds /\ g \in Seconds /\ g[n] = f[n] + 1
                   /\ \A t \in 0 .. MaxTime : t # n => g[t] = f[t]

LEMMA BetweenBumped ==
  ASSUME NEW f, NEW g, NEW n \in 0 .. MaxTime, Bumped(f, g, n),
         NEW a \in 0 .. MaxTime + 1, a <= n
  PROVE  Between(g, a, n + 1) = Between(f, a, n + 1) + 1
<1>1. f \in Seconds /\ g \in Seconds /\ g[n] = f[n] + 1 /\ n + 1 \in 0 .. MaxTime + 1
      /\ n \in 0 .. MaxTime + 1
  BY Bounds DEF Bumped
<1>2. Between(g, a, n) = Between(f, a, n)
  <2>1. \A t \in 0 .. MaxTime : a <= t /\ t < n => g[t] = f[t]
    BY DEF Bumped
  <2> QED
    BY <1>1, <2>1, BetweenSame
<1>3. /\ Between(f, a, n + 1) = Between(f, a, n) + f[n]
      /\ Between(g, a, n + 1) = Between(g, a, n) + g[n]
  <2>1. /\ Between(f, a, n + 1) = Between(f, a, n) + Between(f, n, n + 1)
        /\ Between(g, a, n + 1) = Between(g, a, n) + Between(g, n, n + 1)
    BY <1>1, BetweenSplits
  <2>2. Between(f, n, n + 1) = f[n] /\ Between(g, n, n + 1) = g[n]
    BY <1>1, BetweenOne
  <2> QED
    BY <2>1, <2>2
<1>4. f[n] \in Nat /\ Between(f, a, n) \in Nat
  BY <1>1, BetweenFacts, BetweenOne
<1> QED
  BY <1>1, <1>2, <1>3, <1>4

LEMMA ReachFacts ==
  ASSUME NEW s \in Nat, NEW n \in Nat, s <= n
  PROVE  /\ Reach(n) \in Nat /\ Reach(n) <= n /\ Reach(s) <= s /\ Reach(s) \in Nat
         /\ Reach(s) <= Reach(n)
         /\ n - s < Window => Reach(n) <= s
         /\ n - s >= Window => s + 1 <= Reach(n)
BY Bounds DEF Reach

-----------------------------------------------------------------------------
(* The inductive invariant *)

(* An entry that counts c connections since second s, against the log f of *)
(* its address: the window in use really saw them.                         *)
EntryInv(c, s, f, n) ==
  /\ c \in 1 .. Limit /\ s \in FirstTime .. n
  /\ n - s < Window => c <= Between(f, s, n + 1)

(* If the address never lost an entry, nothing has escaped the count: the  *)
(* window has seen no more than c, one of them in its first second, the    *)
(* Window seconds up to it fewer than Limit, and nothing came after it.    *)
KeptInv(c, s, f, n) ==
  /\ Between(f, s, n + 1) <= c
  /\ Between(f, s + 1, n + 1) <= c - 1
  /\ Between(f, Reach(s), s) <= Limit - 1
  /\ \A t \in 0 .. MaxTime : t > n \/ t >= s + Window => f[t] = 0

(* When a new window may open at n. *)
Fresh(f, n) ==
  /\ f[n] = 0 /\ Between(f, Reach(n), n) <= Limit - 1
  /\ \A t \in 0 .. MaxTime : t > n => f[t] = 0

LEMMA WindowOpens ==
  ASSUME NEW f, NEW g, NEW n \in FirstTime .. MaxTime, Bumped(f, g, n)
  PROVE  EntryInv(1, n, g, n) /\ (Fresh(f, n) => KeptInv(1, n, g, n))
<1>1. /\ f \in Seconds /\ g \in Seconds /\ n \in 0 .. MaxTime /\ n + 1 \in 0 .. MaxTime + 1
      /\ n \in 0 .. MaxTime + 1 /\ n \in Nat /\ g[n] = f[n] + 1
  BY Bounds DEF Bumped
<1>2. Between(g, n, n + 1) = g[n] /\ f[n] \in Nat /\ Between(g, n + 1, n + 1) = 0
  BY <1>1, BetweenOne
<1>3. EntryInv(1, n, g, n)
  BY <1>1, <1>2, Bounds DEF EntryInv
<1>4. ASSUME Fresh(f, n)
      PROVE  KeptInv(1, n, g, n)
  <2>1. Between(g, n, n + 1) <= 1 /\ Between(g, n + 1, n + 1) <= 1 - 1
    BY <1>1, <1>2, <1>4 DEF Fresh
  <2>2. Between(g, Reach(n), n) <= Limit - 1
    <3>1. Reach(n) \in 0 .. MaxTime + 1 /\ Reach(n) <= n
      BY <1>1, ReachFacts, Bounds
    <3>2. \A t \in 0 .. MaxTime : Reach(n) <= t /\ t < n => g[t] = f[t]
      BY <1>1 DEF Bumped
    <3>3. Between(g, Reach(n), n) = Between(f, Reach(n), n)
      BY <1>1, <3>1, <3>2, BetweenSame
    <3> QED
      BY <3>3, <1>4 DEF Fresh
  <2>3. \A t \in 0 .. MaxTime : t > n \/ t >= n + Window => g[t] = 0
    <3> TAKE t \in 0 .. MaxTime
    <3> HAVE t > n \/ t >= n + Window
    <3>1. t > n /\ t # n
      BY <1>1, Bounds
    <3> QED
      BY <3>1, <1>4 DEF Fresh, Bumped
  <2> QED
    BY <2>1, <2>2, <2>3 DEF KeptInv
<1> QED
  BY <1>3, <1>4

LEMMA WindowCounts ==
  ASSUME NEW f, NEW g, NEW n \in FirstTime .. MaxTime, Bumped(f, g, n), NEW c, NEW s,
         EntryInv(c, s, f, n), c < Limit, n - s < Window
  PROVE  EntryInv(c + 1, s, g, n) /\ (KeptInv(c, s, f, n) => KeptInv(c + 1, s, g, n))
<1>1. /\ f \in Seconds /\ g \in Seconds /\ n \in 0 .. MaxTime /\ n + 1 \in 0 .. MaxTime + 1
      /\ n \in 0 .. MaxTime + 1 /\ n \in Nat /\ c \in Nat /\ s \in Nat /\ s <= n
      /\ s \in 0 .. MaxTime + 1 /\ s + 1 \in 0 .. MaxTime + 1 /\ c \in 1 .. Limit
      /\ s \in FirstTime .. n
  BY Bounds DEF Bumped, EntryInv
<1>2. /\ Between(g, s, n + 1) = Between(f, s, n + 1) + 1
      /\ Between(f, s, n + 1) \in Nat
  BY <1>1, BetweenBumped, BetweenFacts
<1>3. EntryInv(c + 1, s, g, n)
  BY <1>1, <1>2, Bounds DEF EntryInv
<1>4. ASSUME KeptInv(c, s, f, n)
      PROVE  KeptInv(c + 1, s, g, n)
  <2>1. Between(g, s, n + 1) <= c + 1
    BY <1>1, <1>2, <1>4 DEF KeptInv
  <2>2. Between(g, s + 1, n + 1) <= (c + 1) - 1
    <3>1. CASE s = n
      <4>1. Between(g, n + 1, n + 1) = 0
        BY <1>1, BetweenOne
      <4> QED
        BY <4>1, <3>1, <1>1
    <3>2. CASE s # n
      <4>1. s + 1 <= n
        BY <3>2, <1>1
      <4>2. Between(g, s + 1, n + 1) = Between(f, s + 1, n + 1) + 1
        BY <4>1, <1>1, BetweenBumped
      <4>3. Between(f, s + 1, n + 1) \in Nat /\ Between(f, s + 1, n + 1) <= c - 1
        BY <4>1, <1>1, <1>4, BetweenFacts DEF KeptInv
      <4> QED
        BY <4>2, <4>3, <1>1
    <3> QED
      BY <3>1, <3>2
  <2>3. Between(g, Reach(s), s) <= Limit - 1
    <3>1. Reach(s) \in 0 .. MaxTime + 1 /\ Reach(s) <= s
      BY <1>1, ReachFacts, Bounds
    <3>2. \A t \in 0 .. MaxTime : Reach(s) <= t /\ t < s => g[t] = f[t]
      BY <1>1 DEF Bumped
    <3>3. Between(g, Reach(s), s) = Between(f, Reach(s), s)
      BY <1>1, <3>1, <3>2, BetweenSame
    <3> QED
      BY <3>3, <1>4 DEF KeptInv
  <2>4. \A t \in 0 .. MaxTime : t > n \/ t >= s + Window => g[t] = 0
    <3> TAKE t \in 0 .. MaxTime
    <3> HAVE t > n \/ t >= s + Window
    <3>1. t > n /\ t # n
      BY <1>1, Bounds
    <3> QED
      BY <3>1, <1>4 DEF KeptInv, Bumped
  <2> QED
    BY <2>1, <2>2, <2>3, <2>4, Zenon DEF KeptInv
<1> QED
  BY <1>3, <1>4

(* An entry whose window is over lets a new one open. *)
LEMMA OverIsFresh ==
  ASSUME NEW f \in Seconds, NEW n \in FirstTime .. MaxTime, NEW c, NEW s,
         EntryInv(c, s, f, n), KeptInv(c, s, f, n), n - s >= Window
  PROVE  Fresh(f, n)
<1>1. /\ n \in 0 .. MaxTime /\ n + 1 \in 0 .. MaxTime + 1
      /\ n \in 0 .. MaxTime + 1 /\ n \in Nat /\ c \in Nat /\ s \in Nat /\ s <= n
      /\ s \in 0 .. MaxTime + 1 /\ s + 1 \in 0 .. MaxTime + 1 /\ c <= Limit
  BY Bounds DEF EntryInv
<1>2. f[n] = 0 /\ \A t \in 0 .. MaxTime : t > n => f[t] = 0
  <2>1. n >= s + Window
    BY <1>1, Bounds
  <2> QED
    BY <2>1, <1>1 DEF KeptInv
<1>3. Between(f, Reach(n), n) <= Between(f, s + 1, n + 1)
  <2>1. Reach(n) \in 0 .. MaxTime + 1 /\ s + 1 <= Reach(n) /\ Reach(n) <= n /\ n <= n + 1
    BY <1>1, ReachFacts, Bounds
  <2> QED
    BY <1>1, <2>1, BetweenWider
<1>4. Between(f, Reach(n), n) <= Limit - 1
  <2>1. Between(f, s + 1, n + 1) <= c - 1
    BY DEF KeptInv
  <2>2. Between(f, s + 1, n + 1) \in Nat /\ Between(f, Reach(n), n) \in Nat
    <3>1. Reach(n) \in 0 .. MaxTime + 1 /\ Reach(n) <= n
      BY <1>1, ReachFacts, Bounds
    <3> QED
      BY <1>1, <3>1, BetweenFacts
  <2> QED
    BY <2>1, <2>2, <1>1, <1>3, Bounds
<1> QED
  BY <1>2, <1>4 DEF Fresh

(* The log when the clock moves on from n: what no window reaches is gone. *)
Aged(f, g, n) ==
  /\ f \in Seconds /\ g \in Seconds
  /\ \A t \in 0 .. MaxTime : g[t] = IF (n + 1) - t < Window THEN f[t] ELSE 0

LEMMA WindowAges ==
  ASSUME NEW f, NEW g, NEW n \in FirstTime .. MaxTime, n < MaxTime, Aged(f, g, n),
         NEW c, NEW s, EntryInv(c, s, f, n)
  PROVE  EntryInv(c, s, g, n + 1) /\ (KeptInv(c, s, f, n) => KeptInv(c, s, g, n + 1))
<1>1. PICK m : m = n + 1
  OBVIOUS
<1>2. /\ f \in Seconds /\ g \in Seconds /\ n \in Nat /\ m \in 0 .. MaxTime
      /\ m \in 0 .. MaxTime + 1 /\ m + 1 \in 0 .. MaxTime + 1 /\ c \in Nat /\ s \in Nat
      /\ s <= n /\ s <= m /\ s <= m + 1 /\ s + 1 <= m /\ s + 1 <= m + 1 /\ m <= m + 1
      /\ s \in 0 .. MaxTime + 1 /\ s + 1 \in 0 .. MaxTime + 1
      /\ c \in 1 .. Limit /\ s \in FirstTime .. m
  BY <1>1, Bounds DEF Aged, EntryInv
<1>3. \A t \in 0 .. MaxTime : g[t] = IF m - t < Window THEN f[t] ELSE 0
  BY <1>1 DEF Aged
<1>4. \A t \in 0 .. MaxTime : f[t] \in Nat /\ g[t] \in Nat /\ g[t] <= f[t]
  <2>1. \A t \in 0 .. MaxTime : f[t] \in Nat /\ g[t] \in Nat
    BY <1>2 DEF Seconds
  <2> TAKE t \in 0 .. MaxTime
  <2>2. g[t] = f[t] \/ g[t] = 0
    BY ONLY <1>3
  <2> QED
    BY ONLY <2>1, <2>2
<1>5. EntryInv(c, s, g, m)
  <2>1. ASSUME m - s < Window
        PROVE  c <= Between(g, s, m + 1)
    <3>1. \A t \in 0 .. MaxTime : s <= t /\ t < m + 1 => g[t] = f[t]
      <4> TAKE t \in 0 .. MaxTime
      <4> HAVE s <= t /\ t < m + 1
      <4>1. m - t < Window
        BY <2>1, <1>2, Bounds
      <4> QED
        BY <4>1, <1>3
    <3>2. Between(g, s, m + 1) = Between(f, s, m + 1)
      BY <3>1, <1>2, BetweenSame
    <3>3. Between(f, s, m) <= Between(f, s, m + 1)
      BY <1>2, BetweenWider
    <3>4. c <= Between(f, s, m)
      <4>1. n - s < Window
        BY <2>1, <1>1, <1>2, Bounds
      <4> QED
        BY <4>1, <1>1 DEF EntryInv
    <3>5. Between(f, s, m) \in Nat /\ Between(f, s, m + 1) \in Nat
      BY <1>2, BetweenFacts
    <3> QED
      BY <3>2, <3>3, <3>4, <3>5, <1>2
  <2> QED
    BY <2>1, <1>2 DEF EntryInv
<1>6. ASSUME KeptInv(c, s, f, n)
      PROVE  KeptInv(c, s, g, m)
  <2>1. /\ Between(f, s, m) <= c /\ Between(f, s + 1, m) <= c - 1
        /\ Between(f, Reach(s), s) <= Limit - 1
        /\ \A t \in 0 .. MaxTime : t > n \/ t >= s + Window => f[t] = 0
    BY <1>1, <1>6 DEF KeptInv
  <2>2. f[m] = 0
    <3>1. m > n
      BY <1>1, <1>2
    <3> QED
      BY <3>1, <2>1, <1>2
  <2>3. ASSUME NEW a \in 0 .. MaxTime + 1, a <= m
        PROVE  /\ Between(g, a, m + 1) <= Between(f, a, m)
               /\ Between(g, a, m + 1) \in Nat /\ Between(f, a, m) \in Nat
    <3>1. a <= m + 1
      BY <2>3, <1>2
    <3>2. Between(g, a, m + 1) <= Between(f, a, m + 1)
      BY <3>1, <1>2, <1>4, BetweenCompares
    <3>3. Between(f, a, m + 1) = Between(f, a, m) + Between(f, m, m + 1)
      BY <1>2, BetweenSplits
    <3>4. Between(f, m, m + 1) = 0
      BY <2>2, <1>2, BetweenOne
    <3>5. Between(g, a, m + 1) \in Nat /\ Between(f, a, m) \in Nat
      BY <2>3, <3>1, <1>2, BetweenFacts
    <3> QED
      BY <3>2, <3>3, <3>4, <3>5
  <2>4. Between(g, s, m + 1) <= c
    <3>1. /\ Between(g, s, m + 1) <= Between(f, s, m)
          /\ Between(g, s, m + 1) \in Nat /\ Between(f, s, m) \in Nat
      BY <2>3, <1>2
    <3> QED
      BY <3>1, <2>1, <1>2
  <2>5. Between(g, s + 1, m + 1) <= c - 1
    <3>1. /\ Between(g, s + 1, m + 1) <= Between(f, s + 1, m)
          /\ Between(g, s + 1, m + 1) \in Nat /\ Between(f, s + 1, m) \in Nat
      BY <2>3, <1>2
    <3> QED
      BY <3>1, <2>1, <1>2
  <2>6. Between(g, Reach(s), s) <= Limit - 1
    <3>1. Reach(s) \in 0 .. MaxTime + 1 /\ Reach(s) <= s
      BY <1>2, ReachFacts, Bounds
    <3>2. Between(g, Reach(s), s) <= Between(f, Reach(s), s)
      BY <3>1, <1>2, <1>4, BetweenCompares
    <3>3. Between(g, Reach(s), s) \in Nat /\ Between(f, Reach(s), s) \in Nat
      BY <3>1, <1>2, BetweenFacts
    <3> QED
      BY <3>2, <3>3, <2>1, Bounds
  <2>7. \A t \in 0 .. MaxTime : t > m \/ t >= s + Window => g[t] = 0
    <3> TAKE t \in 0 .. MaxTime
    <3> HAVE t > m \/ t >= s + Window
    <3>1. t > n \/ t >= s + Window
      BY <1>1, <1>2
    <3>2. f[t] = 0
      BY <3>1, <2>1
    <3> QED
      BY <3>2, <1>3
  <2> QED
    BY <2>4, <2>5, <2>6, <2>7, Zenon DEF KeptInv
<1> QED
  BY <1>1, <1>5, <1>6

(* What the properties need of an entry. *)
LEMMA EntryRecent ==
  ASSUME NEW f \in Seconds, NEW n \in FirstTime .. MaxTime, NEW c, NEW s,
         EntryInv(c, s, f, n)
  PROVE  /\ n - s < Window => c <= Between(f, Reach(n), n + 1)
         /\ KeptInv(c, s, f, n) => Between(f, Reach(n), n + 1) <= 2 * Limit - 1
<1>1. /\ n \in Nat /\ n + 1 \in 0 .. MaxTime + 1 /\ c \in Nat /\ s \in Nat /\ s <= n
      /\ s \in 0 .. MaxTime + 1 /\ s + 1 \in 0 .. MaxTime + 1 /\ c <= Limit
      /\ s <= n + 1 /\ s + 1 <= n + 1 /\ n + 1 <= n + 1
  BY Bounds DEF EntryInv
<1>2. PICK r, u : r = Reach(n) /\ u = Reach(s)
  OBVIOUS
<1>3. /\ r \in 0 .. MaxTime + 1 /\ u \in 0 .. MaxTime + 1 /\ r <= n + 1 /\ u <= r /\ u <= s
      /\ u <= n + 1
      /\ n - s < Window => r <= s
      /\ n - s >= Window => s + 1 <= r
  BY <1>1, <1>2, ReachFacts, Bounds
<1>4. Between(f, r, n + 1) \in Nat /\ Between(f, s, n + 1) \in Nat
      /\ Between(f, s + 1, n + 1) \in Nat /\ Between(f, u, s) \in Nat
      /\ Between(f, u, n + 1) \in Nat
  BY <1>1, <1>3, BetweenFacts
<1>5. ASSUME n - s < Window
      PROVE  c <= Between(f, r, n + 1)
  <2>1. Between(f, s, n + 1) <= Between(f, r, n + 1)
    BY <1>1, <1>3, <1>5, BetweenWider
  <2>2. c <= Between(f, s, n + 1)
    BY <1>5 DEF EntryInv
  <2> QED
    BY <2>1, <2>2, <1>1, <1>4
<1>6. ASSUME KeptInv(c, s, f, n)
      PROVE  Between(f, r, n + 1) <= 2 * Limit - 1
  <2>1. /\ Between(f, s, n + 1) <= c /\ Between(f, s + 1, n + 1) <= c - 1
        /\ Between(f, u, s) <= Limit - 1
    BY <1>2, <1>6 DEF KeptInv
  <2>2. CASE n - s < Window
    <3>1. Between(f, r, n + 1) <= Between(f, u, n + 1)
      BY <1>1, <1>3, BetweenWider
    <3>2. Between(f, u, n + 1) = Between(f, u, s) + Between(f, s, n + 1)
      BY <1>1, <1>3, BetweenSplits
    <3> QED
      BY <3>1, <3>2, <2>1, <1>1, <1>4, Bounds
  <2>3. CASE ~(n - s < Window)
    <3>1. s + 1 <= r
      BY <2>3, <1>1, <1>3, Bounds
    <3>2. Between(f, r, n + 1) <= Between(f, s + 1, n + 1)
      BY <3>1, <1>1, <1>3, BetweenWider
    <3> QED
      BY <3>2, <2>1, <1>1, <1>4, Bounds
  <2> QED
    BY <2>2, <2>3
<1> QED
  BY <1>2, <1>5, <1>6

-----------------------------------------------------------------------------
(* The table, the logs and the clock together *)

(* An unused entry is as it was at the start, and no address has two. *)
TableInv ==
  /\ \A i \in Slots : g_accept_rates[i].peer = "none" => g_accept_rates[i] = Empty
  /\ \A i, j \in Slots : g_accept_rates[i].peer = g_accept_rates[j].peer
                           /\ g_accept_rates[i].peer # "none" => i = j

Charged(i) ==
  g_accept_rates[i].peer # "none" =>
    EntryInv(g_accept_rates[i].count, g_accept_rates[i].start,
             admitted[g_accept_rates[i].peer], now)

KeptWhole(i) ==
  g_accept_rates[i].peer # "none" /\ g_accept_rates[i].peer \notin evicted =>
    KeptInv(g_accept_rates[i].count, g_accept_rates[i].start,
            admitted[g_accept_rates[i].peer], now)

(* An address without an entry that never lost one has not been admitted. *)
Unseen(p) ==
  p \notin evicted /\ (\A i \in Slots : g_accept_rates[i].peer # p)
    => \A t \in 0 .. MaxTime : admitted[p][t] = 0

RateInv ==
  /\ TypeOK /\ TableInv
  /\ \A i \in Slots : Charged(i) /\ KeptWhole(i)
  /\ \A p \in Peers : Unseen(p)
  /\ refused # "none" => Recent(refused) >= Limit

LEMMA RateTypes ==
  ASSUME TypeOK
  PROVE  /\ now \in FirstTime .. MaxTime /\ now \in 0 .. MaxTime /\ now \in Nat
         /\ \A i \in Slots : g_accept_rates[i] \in Entry
         /\ \A p \in Peers : admitted[p] \in Log /\ admitted[p] \in Seconds
         /\ Log \subseteq Seconds
<1>1. now \in FirstTime .. MaxTime /\ now \in 0 .. MaxTime /\ now \in Nat
  BY Bounds DEF TypeOK
<1>2. \A f \in Log : f \in Seconds
  <2> TAKE f \in Log
  <2>1. f = [t \in 0 .. MaxTime |-> f[t]] /\ \A t \in 0 .. MaxTime : f[t] \in 0 .. MaxRate
    BY DEF Log
  <2>2. \A t \in 0 .. MaxTime : f[t] \in Nat
    BY <2>1
  <2> QED
    BY <2>1, <2>2 DEF Seconds
<1> QED
  BY <1>1, <1>2 DEF TypeOK

LEMMA EntryFields ==
  ASSUME NEW e \in Entry
  PROVE  /\ e.peer \in Peers \cup {"none"} /\ e.count \in 0 .. Limit /\ e.start \in 0 .. MaxTime
         /\ e.count \in Nat /\ e.start \in Nat
BY Bounds DEF Entry

LEMMA RateInit == Init => RateInv
<1> SUFFICES ASSUME Init PROVE RateInv
  OBVIOUS
<1>1. Empty \in Entry /\ Empty.peer = "none"
  BY Bounds DEF Empty, Entry
<1>2. \A i \in Slots : g_accept_rates[i] = Empty
  BY DEF Init
<1>3. [t \in 0 .. MaxTime |-> 0] \in Log
  BY Bounds DEF Log
<1>4. TypeOK
  <2>1. now \in FirstTime .. MaxTime
    BY Bounds DEF Init
  <2>2. g_accept_rates \in [Slots -> Entry]
    BY <1>1 DEF Init
  <2>3. admitted \in [Peers -> Log]
    BY <1>3 DEF Init
  <2> QED
    BY <2>1, <2>2, <2>3 DEF Init, TypeOK
<1>5. TableInv
  BY <1>1, <1>2 DEF TableInv
<1>6. \A i \in Slots : Charged(i) /\ KeptWhole(i)
  BY <1>1, <1>2 DEF Charged, KeptWhole
<1>7. \A p \in Peers : Unseen(p)
  <2> TAKE p \in Peers
  <2>1. admitted[p] = [t \in 0 .. MaxTime |-> 0]
    BY DEF Init
  <2> QED
    BY <2>1 DEF Unseen
<1> QED
  BY <1>4, <1>5, <1>6, <1>7 DEF RateInv, Init

(* An admission writes one entry and one log. *)
LEMMA AdmitWrites ==
  ASSUME TypeOK, NEW p \in Peers, NEW i \in Slots, NEW e \in Entry, Admit(p, i, e),
         admitted[p][now] < MaxRate
  PROVE  /\ g_accept_rates' \in [Slots -> Entry] /\ g_accept_rates'[i] = e
         /\ \A j \in Slots : j # i => g_accept_rates'[j] = g_accept_rates[j]
         /\ admitted' \in [Peers -> Log] /\ Bumped(admitted[p], admitted'[p], now)
         /\ \A q \in Peers : q # p => admitted'[q] = admitted[q]
         /\ refused' = "none"
<1>1. /\ g_accept_rates \in [Slots -> Entry] /\ admitted \in [Peers -> Log]
      /\ now \in 0 .. MaxTime /\ admitted[p] \in Log /\ Log \subseteq Seconds
  BY RateTypes DEF TypeOK
<1>2. g_accept_rates' = [g_accept_rates EXCEPT ![i] = e] /\ refused' = "none"
  BY DEF Admit
<1>3. PICK f, g : f = admitted[p] /\ g = [f EXCEPT ![now] = f[now] + 1]
  OBVIOUS
<1>4. admitted' = [admitted EXCEPT ![p] = g]
  BY <1>1, <1>3 DEF Admit
<1>5. /\ f \in [0 .. MaxTime -> 0 .. MaxRate] /\ f[now] \in 0 .. MaxRate
      /\ f[now] < MaxRate
  BY <1>1, <1>3 DEF Log
<1>6. f[now] + 1 \in 0 .. MaxRate
  BY <1>5, Bounds
<1>7. g \in Log /\ g[now] = f[now] + 1 /\ \A t \in 0 .. MaxTime : t # now => g[t] = f[t]
  BY <1>1, <1>3, <1>5, <1>6 DEF Log
<1>8. admitted' \in [Peers -> Log] /\ admitted'[p] = g
      /\ \A q \in Peers : q # p => admitted'[q] = admitted[q]
  BY <1>1, <1>4, <1>7
<1>9. Bumped(admitted[p], admitted'[p], now)
  BY <1>1, <1>3, <1>7, <1>8 DEF Bumped
<1>10. /\ g_accept_rates' \in [Slots -> Entry] /\ g_accept_rates'[i] = e
       /\ \A j \in Slots : j # i => g_accept_rates'[j] = g_accept_rates[j]
  BY <1>1, <1>2
<1> QED
  BY <1>2, <1>8, <1>9, <1>10

LEMMA AdmitKeeps ==
  ASSUME RateInv, NEW p \in Peers, NEW i \in Slots, NEW e \in Entry, e.peer = p,
         Admit(p, i, e), now' = now, admitted[p][now] < MaxRate,
         \A j \in Slots : j # i => g_accept_rates[j].peer # p,
         evicted' \subseteq Peers, evicted \subseteq evicted',
         g_accept_rates[i].peer \in evicted' \cup {p, "none"},
         EntryInv(e.count, e.start, admitted'[p], now),
         p \notin evicted' => KeptInv(e.count, e.start, admitted'[p], now)
  PROVE  RateInv'
<1>1. /\ g_accept_rates' \in [Slots -> Entry] /\ g_accept_rates'[i] = e
      /\ \A j \in Slots : j # i => g_accept_rates'[j] = g_accept_rates[j]
      /\ admitted' \in [Peers -> Log]
      /\ \A q \in Peers : q # p => admitted'[q] = admitted[q]
      /\ refused' = "none"
  BY AdmitWrites DEF RateInv
<1>2. /\ TypeOK /\ TableInv /\ (\A j \in Slots : Charged(j) /\ KeptWhole(j))
      /\ (\A q \in Peers : Unseen(q)) /\ p # "none"
  BY Bounds DEF RateInv
<1>3. TypeOK'
  BY <1>1, <1>2 DEF TypeOK
<1>4. TableInv'
  <2>1. ASSUME NEW j \in Slots, g_accept_rates'[j].peer = "none"
        PROVE  g_accept_rates'[j] = Empty
    <3>1. j # i
      BY <2>1, <1>1, <1>2
    <3> QED
      BY <3>1, <2>1, <1>1, <1>2 DEF TableInv
  <2>2. ASSUME NEW j \in Slots, NEW k \in Slots,
               g_accept_rates'[j].peer = g_accept_rates'[k].peer,
               g_accept_rates'[j].peer # "none"
        PROVE  j = k
    <3>1. CASE j = i
      <4>1. g_accept_rates'[k].peer = p
        BY <3>1, <2>2, <1>1
      <4> QED
        BY <4>1, <3>1, <1>1
    <3>2. CASE k = i
      <4>1. g_accept_rates'[j].peer = p
        BY <3>2, <2>2, <1>1
      <4> QED
        BY <4>1, <3>2, <1>1
    <3>3. CASE j # i /\ k # i
      BY <3>3, <2>2, <1>1, <1>2 DEF TableInv
    <3> QED
      BY <3>1, <3>2, <3>3
  <2> QED
    BY <2>1, <2>2, Zenon DEF TableInv
<1>5. ASSUME NEW j \in Slots
      PROVE  Charged(j)' /\ KeptWhole(j)'
  <2>1. CASE j = i
    BY <2>1, <1>1 DEF Charged, KeptWhole
  <2>2. CASE j # i
    <3>1. g_accept_rates'[j] = g_accept_rates[j] /\ g_accept_rates[j].peer # p
      BY <2>2, <1>1
    <3>2. g_accept_rates[j].peer # "none" =>
            admitted'[g_accept_rates[j].peer] = admitted[g_accept_rates[j].peer]
      <4>1. g_accept_rates[j].peer \in Peers \cup {"none"}
        BY <1>2, RateTypes, EntryFields
      <4> QED
        BY <4>1, <3>1, <1>1
    <3>3. Charged(j) /\ KeptWhole(j)
      BY <1>2
    <3> QED
      BY <3>1, <3>2, <3>3 DEF Charged, KeptWhole
  <2> QED
    BY <2>1, <2>2
<1>6. ASSUME NEW q \in Peers, q \notin evicted', \A j \in Slots : g_accept_rates'[j].peer # q
      PROVE  \A t \in 0 .. MaxTime : admitted'[q][t] = 0
  <2>1. q # p /\ q # "none" /\ q \notin evicted
    BY <1>6, <1>1, Bounds
  <2>2. \A j \in Slots : g_accept_rates[j].peer # q
    <3> TAKE j \in Slots
    <3>1. CASE j = i
      BY <3>1, <2>1, <1>6
    <3>2. CASE j # i
      BY <3>2, <1>1, <1>6
    <3> QED
      BY <3>1, <3>2
  <2>3. \A t \in 0 .. MaxTime : admitted[q][t] = 0
    BY <2>1, <2>2, <1>2 DEF Unseen
  <2> QED
    BY <2>1, <2>3, <1>1
<1>7. \A q \in Peers : Unseen(q)'
  BY <1>6 DEF Unseen
<1> QED
  BY <1>1, <1>3, <1>4, <1>5, <1>7 DEF RateInv

LEMMA SlotFacts ==
  ASSUME RateInv, NEW p \in Peers
  PROVE  /\ SlotOf(p) \in Slots
         /\ Own(p) # {} => SlotOf(p) \in Own(p)
         /\ Own(p) = {} /\ Free # {} => SlotOf(p) \in Free
<1>1. Slots \subseteq Nat /\ Slots # {}
  BY Bounds DEF Slots
<1>2. Own(p) \in SUBSET Nat /\ Free \in SUBSET Nat /\ Own(p) \subseteq Slots /\ Free \subseteq Slots
  BY <1>1 DEF Own, Free
<1>3. Own(p) # {} => Min(Own(p)) \in Own(p)
  BY <1>2, MinIn
<1>4. Free # {} => Min(Free) \in Free
  BY <1>2, MinIn
<1>5. Oldest \in Slots
  <2> DEFINE S == {i \in Slots : \A j \in Slots :
                     g_accept_rates[i].start <= g_accept_rates[j].start}
  <2> DEFINE D == {g_accept_rates[i].start : i \in Slots}
  <2>1. \A i \in Slots : g_accept_rates[i].start \in Nat
    BY RateTypes, EntryFields DEF RateInv
  <2>2. D \in SUBSET Nat /\ D # {}
    BY <2>1, <1>1
  <2>3. PICK d : d \in D /\ \A u \in D : d <= u
    <3> HIDE DEF D
    <3> QED
      BY <2>2, MinIn
  <2>4. PICK i \in Slots : g_accept_rates[i].start = d
    BY <2>3
  <2>5. i \in S
    BY <2>3, <2>4
  <2>6. S \in SUBSET Nat /\ S \subseteq Slots
    BY <1>1
  <2>7. Oldest = Min(S)
    BY DEF Oldest
  <2> HIDE DEF S
  <2>8. Min(S) \in S
    BY <2>5, <2>6, MinIn
  <2> QED
    BY <2>6, <2>7, <2>8
<1> QED
  BY <1>2, <1>3, <1>4, <1>5 DEF SlotOf

LEMMA CheckKeeps ==
  ASSUME RateInv, NEW p \in Peers, Check(p)
  PROVE  RateInv'
<1>1. PICK i, e : i = SlotOf(p) /\ e = g_accept_rates[i]
  OBVIOUS
<1>2. /\ admitted[p][now] < MaxRate /\ now' = now
      /\ \/ /\ StartsWindow(p, e)
            /\ Admit(p, i, [peer |-> p, count |-> 1, start |-> now])
            /\ evicted' = evicted \cup ({e.peer} \ {p, "none"})
         \/ /\ ~StartsWindow(p, e) /\ BelowLimit(e)
            /\ Admit(p, i, [e EXCEPT !.count = @ + 1])
            /\ evicted' = evicted
         \/ /\ ~StartsWindow(p, e) /\ ~BelowLimit(e)
            /\ refused' = p
            /\ g_accept_rates' = g_accept_rates /\ admitted' = admitted /\ evicted' = evicted
  BY <1>1, Zenon DEF Check
<1>3. /\ TypeOK /\ TableInv /\ (\A j \in Slots : Charged(j) /\ KeptWhole(j))
      /\ (\A q \in Peers : Unseen(q)) /\ p # "none"
  BY Bounds DEF RateInv
<1>4. i \in Slots /\ e \in Entry /\ now \in FirstTime .. MaxTime /\ now \in Nat
      /\ admitted[p] \in Seconds /\ now \in 0 .. MaxTime
  BY <1>1, <1>3, SlotFacts, RateTypes
<1>5. /\ e.peer \in Peers \cup {"none"} /\ e.count \in 0 .. Limit /\ e.start \in 0 .. MaxTime
      /\ e.count \in Nat /\ e.start \in Nat
  BY <1>4, EntryFields
<1>6. \A j \in Slots : j # i => g_accept_rates[j].peer # p
  <2>1. CASE Own(p) = {}
    BY <2>1 DEF Own
  <2>2. CASE Own(p) # {}
    <3>1. g_accept_rates[i].peer = p
      BY <2>2, <1>1, SlotFacts DEF Own
    <3> QED
      BY <3>1, <1>3, <1>4 DEF TableInv
  <2> QED
    BY <2>1, <2>2
<1>7. e.peer = "none" => e = Empty /\ e.start = 0
  BY <1>1, <1>3, <1>4 DEF TableInv, Empty
<1>8. e.peer # p /\ e.peer # "none" => Own(p) = {} /\ Free = {}
  <2>1. e.peer # p => Own(p) = {}
    BY <1>1, SlotFacts DEF Own
  <2>2. e.peer # "none" /\ Own(p) = {} => Free = {}
    BY <1>1, SlotFacts DEF Free
  <2> QED
    BY <2>1, <2>2
<1>9. ~StartsWindow(p, e) => e.peer = p /\ now - e.start < Window
  <2>1. ~StartsWindow(p, e) => ~(Own(p) = {} /\ Free = {}) /\ e.start # 0 /\ ~(now - e.start >= Window)
    BY Zenon DEF StartsWindow, Expired
  <2> QED
    BY <2>1, <1>4, <1>5, <1>7, <1>8, Bounds
<1>10. e.peer = p =>
         /\ EntryInv(e.count, e.start, admitted[p], now)
         /\ p \notin evicted => KeptInv(e.count, e.start, admitted[p], now)
  BY <1>1, <1>3, <1>4 DEF Charged, KeptWhole
<1>11. CASE /\ StartsWindow(p, e)
            /\ Admit(p, i, [peer |-> p, count |-> 1, start |-> now])
            /\ evicted' = evicted \cup ({e.peer} \ {p, "none"})
  <2>1. PICK r : r = [peer |-> p, count |-> 1, start |-> now]
    OBVIOUS
  <2>2. r \in Entry /\ r.peer = p /\ r.count = 1 /\ r.start = now
    BY <2>1, <1>4, Bounds DEF Entry
  <2>3. Admit(p, i, r)
    BY <2>1, <1>11
  <2>4. Bumped(admitted[p], admitted'[p], now)
    BY <2>2, <2>3, <1>2, <1>3, <1>4, AdmitWrites
  <2>5. EntryInv(1, now, admitted'[p], now)
        /\ (Fresh(admitted[p], now) => KeptInv(1, now, admitted'[p], now))
    BY <2>4, <1>4, WindowOpens
  <2>6. /\ evicted' \subseteq Peers /\ evicted \subseteq evicted'
        /\ g_accept_rates[i].peer \in evicted' \cup {p, "none"}
    BY <1>1, <1>3, <1>5, <1>11 DEF TypeOK
  <2>7. ASSUME p \notin evicted'
        PROVE  Fresh(admitted[p], now)
    <3>1. p \notin evicted
      BY <2>6, <2>7
    <3>2. CASE e.peer = p
      <4>1. EntryInv(e.count, e.start, admitted[p], now)
            /\ KeptInv(e.count, e.start, admitted[p], now)
        BY <3>1, <3>2, <1>10
      <4>2. e.start # 0
        BY <4>1, Bounds DEF EntryInv
      <4>3. Own(p) # {}
        BY <3>2, <1>1, <1>4 DEF Own
      <4>4. now - e.start >= Window
        BY <4>2, <4>3, <1>11 DEF StartsWindow, Expired
      <4> QED
        BY <4>1, <4>4, <1>4, OverIsFresh
    <3>3. CASE e.peer # p
      <4>1. \A j \in Slots : g_accept_rates[j].peer # p
        BY <3>3, <1>1, <1>6
      <4>2. \A t \in 0 .. MaxTime : admitted[p][t] = 0
        BY <4>1, <3>1, <1>3 DEF Unseen
      <4>3. Reach(now) \in 0 .. MaxTime + 1 /\ Reach(now) <= now /\ now \in 0 .. MaxTime + 1
        BY <1>4, ReachFacts, Bounds
      <4>4. Between(admitted[p], Reach(now), now) = 0
        BY <4>2, <4>3, <1>4, BetweenZero
      <4> QED
        BY <4>2, <4>4, <1>4, Bounds DEF Fresh
    <3> QED
      BY <3>2, <3>3
  <2>8. EntryInv(r.count, r.start, admitted'[p], now)
        /\ (p \notin evicted' => KeptInv(r.count, r.start, admitted'[p], now))
    BY <2>2, <2>5, <2>7
  <2> QED
    BY <2>2, <2>3, <2>6, <2>8, <1>2, <1>4, <1>6, AdmitKeeps
<1>12. CASE /\ ~StartsWindow(p, e) /\ BelowLimit(e)
            /\ Admit(p, i, [e EXCEPT !.count = @ + 1])
            /\ evicted' = evicted
  <2>1. PICK r : r = [e EXCEPT !.count = @ + 1]
    OBVIOUS
  <2>2. e.count < Limit /\ e.peer = p /\ now - e.start < Window
    BY <1>9, <1>12 DEF BelowLimit
  <2>3. r \in Entry /\ r.peer = p /\ r.count = e.count + 1 /\ r.start = e.start
    <3>1. e.count + 1 \in 0 .. Limit
      BY <2>2, <1>5, Bounds
    <3> QED
      BY <3>1, <2>1, <2>2, <1>4 DEF Entry
  <2>4. Admit(p, i, r)
    BY <2>1, <1>12
  <2>5. Bumped(admitted[p], admitted'[p], now)
    BY <2>3, <2>4, <1>2, <1>3, <1>4, AdmitWrites
  <2>6. /\ EntryInv(e.count + 1, e.start, admitted'[p], now)
        /\ KeptInv(e.count, e.start, admitted[p], now)
             => KeptInv(e.count + 1, e.start, admitted'[p], now)
    BY <2>2, <2>5, <1>4, <1>10, WindowCounts
  <2>7. /\ evicted' \subseteq Peers /\ evicted \subseteq evicted'
        /\ g_accept_rates[i].peer \in evicted' \cup {p, "none"}
    BY <2>2, <1>1, <1>3, <1>12 DEF TypeOK
  <2>8. EntryInv(r.count, r.start, admitted'[p], now)
        /\ (p \notin evicted' => KeptInv(r.count, r.start, admitted'[p], now))
    BY <2>2, <2>3, <2>6, <2>7, <1>10
  <2> QED
    BY <2>3, <2>4, <2>7, <2>8, <1>2, <1>4, <1>6, AdmitKeeps
<1>13. CASE /\ ~StartsWindow(p, e) /\ ~BelowLimit(e)
            /\ refused' = p
            /\ g_accept_rates' = g_accept_rates /\ admitted' = admitted /\ evicted' = evicted
  <2>1. e.peer = p /\ now - e.start < Window /\ e.count = Limit
    BY <1>5, <1>9, <1>13, Bounds DEF BelowLimit
  <2>2. e.count <= Between(admitted[p], Reach(now), now + 1)
    BY <2>1, <1>4, <1>10, EntryRecent
  <2>3. Between(admitted[p], Reach(now), now + 1) >= Limit
    <3>1. Between(admitted[p], Reach(now), now + 1) \in Nat
      <4>1. Reach(now) \in 0 .. MaxTime + 1 /\ Reach(now) <= now + 1 /\ now + 1 \in 0 .. MaxTime + 1
        BY <1>4, ReachFacts, Bounds
      <4> QED
        BY <4>1, <1>4, BetweenFacts
    <3> QED
      BY <3>1, <2>1, <2>2, Bounds
  <2>4. (Recent(refused) >= Limit)'
    BY <2>3, <1>2, <1>13 DEF Recent
  <2>5. TypeOK' /\ TableInv'
    BY <1>2, <1>3, <1>13 DEF TypeOK, TableInv
  <2>6. \A j \in Slots : Charged(j)' /\ KeptWhole(j)'
    BY <1>2, <1>3, <1>13 DEF Charged, KeptWhole
  <2>7. \A q \in Peers : Unseen(q)'
    BY <1>2, <1>3, <1>13 DEF Unseen
  <2> QED
    BY <2>4, <2>5, <2>6, <2>7 DEF RateInv
<1> QED
  BY <1>2, <1>11, <1>12, <1>13

LEMMA TickKeeps ==
  ASSUME RateInv, Tick
  PROVE  RateInv'
<1>1. /\ now < MaxTime /\ now' = now + 1 /\ refused' = "none"
      /\ admitted' = [p \in Peers |-> [t \in 0 .. MaxTime |->
                        IF (now + 1) - t < Window THEN admitted[p][t] ELSE 0]]
      /\ g_accept_rates' = g_accept_rates /\ evicted' = evicted
  BY DEF Tick
<1>2. /\ TypeOK /\ TableInv /\ (\A j \in Slots : Charged(j) /\ KeptWhole(j))
      /\ (\A q \in Peers : Unseen(q))
  BY DEF RateInv
<1>3. /\ now \in FirstTime .. MaxTime /\ now \in Nat /\ now + 1 \in FirstTime .. MaxTime
      /\ Log \subseteq Seconds
      /\ \A p \in Peers : admitted[p] \in Log
  <2>1. now \in FirstTime .. MaxTime /\ now \in Nat
    BY <1>2, RateTypes
  <2>2. now + 1 \in FirstTime .. MaxTime
    BY ONLY <2>1, <1>1, Bounds
  <2>3. Log \subseteq Seconds /\ \A p \in Peers : admitted[p] \in Log
    BY <1>2, RateTypes, Zenon
  <2> QED
    BY <2>1, <2>2, <2>3
<1>4. ASSUME NEW p \in Peers
      PROVE  admitted'[p] \in Log /\ Aged(admitted[p], admitted'[p], now)
  <2>1. PICK f, g : f = admitted[p] /\ g = admitted'[p]
    OBVIOUS
  <2>2. g = [t \in 0 .. MaxTime |-> IF (now + 1) - t < Window THEN f[t] ELSE 0]
    BY <2>1, <1>1
  <2>3. \A t \in 0 .. MaxTime : f[t] \in 0 .. MaxRate /\ 0 \in 0 .. MaxRate
    BY <2>1, <1>3, Bounds DEF Log
  <2>4. g \in Log
    BY <2>2, <2>3 DEF Log
  <2>5. \A t \in 0 .. MaxTime : g[t] = IF (now + 1) - t < Window THEN f[t] ELSE 0
    BY <2>2
  <2> QED
    BY <2>1, <2>4, <2>5, <1>3 DEF Aged
<1>5. TypeOK'
  <2>1. admitted' \in [Peers -> Log]
    BY <1>1, <1>4
  <2> QED
    BY <2>1, <1>1, <1>2, <1>3 DEF TypeOK
<1>6. TableInv'
  BY <1>1, <1>2 DEF TableInv
<1>7. ASSUME NEW j \in Slots
      PROVE  Charged(j)' /\ KeptWhole(j)'
  <2>1. PICK e : e = g_accept_rates[j] /\ e = g_accept_rates'[j]
    BY <1>1
  <2>2. CASE e.peer = "none"
    BY <2>1, <2>2 DEF Charged, KeptWhole
  <2>3. CASE e.peer # "none"
    <3>1. PICK p \in Peers : p = e.peer
      <4>1. e.peer \in Peers \cup {"none"}
        BY <2>1, <1>2, RateTypes, EntryFields
      <4> QED
        BY <4>1, <2>3
    <3>2. /\ EntryInv(e.count, e.start, admitted[p], now)
          /\ p \notin evicted => KeptInv(e.count, e.start, admitted[p], now)
      BY <2>1, <2>3, <3>1, <1>2 DEF Charged, KeptWhole
    <3>3. /\ EntryInv(e.count, e.start, admitted'[p], now + 1)
          /\ KeptInv(e.count, e.start, admitted[p], now)
               => KeptInv(e.count, e.start, admitted'[p], now + 1)
      BY <3>2, <1>1, <1>3, <1>4, WindowAges
    <3> QED
      BY <2>1, <3>1, <3>2, <3>3, <1>1 DEF Charged, KeptWhole
  <2> QED
    BY <2>2, <2>3
<1>8. ASSUME NEW q \in Peers
      PROVE  Unseen(q)'
  <2>1. \A t \in 0 .. MaxTime : admitted'[q][t] = IF (now + 1) - t < Window THEN admitted[q][t] ELSE 0
    BY <1>1
  <2>2. Unseen(q)
    BY <1>2
  <2> QED
    BY <2>1, <2>2, <1>1 DEF Unseen
<1> QED
  BY <1>1, <1>5, <1>6, <1>7, <1>8 DEF RateInv

LEMMA RateNext == RateInv /\ [Next]_vars => RateInv'
<1> SUFFICES ASSUME RateInv, [Next]_vars PROVE RateInv'
  OBVIOUS
<1>1. CASE Tick
  BY <1>1, TickKeeps
<1>2. ASSUME NEW p \in Peers, Check(p) PROVE RateInv'
  BY <1>2, CheckKeeps
<1>3. CASE UNCHANGED vars
  BY <1>3 DEF vars, RateInv, TypeOK, TableInv, Charged, KeptWhole, Unseen, Recent
<1> QED
  BY <1>1, <1>2, <1>3 DEF Next

-----------------------------------------------------------------------------
(* The theorems *)

(* The table never lets an admission escape: RateInv always holds. *)
THEOREM RateBookkeeping == Spec => []RateInv
<1> QED
  BY RateInit, RateNext, PTL DEF Spec

(* accept_rate_check refuses an address only after it has really opened    *)
(* Limit connections in the last Window seconds.                           *)
THEOREM RefusalsAreEarned == Spec => []RefusedOnlyOnBurst
<1>1. RateInv => RefusedOnlyOnBurst
  BY DEF RateInv, RefusedOnlyOnBurst
<1> QED
  BY <1>1, RateBookkeeping, PTL

(* An address whose entry was never given away gets at most                *)
(* 2 * Limit - 1 connections through in any Window seconds.                *)
THEOREM BurstsAreBounded == Spec => []BurstBound
<1>1. ASSUME RateInv PROVE BurstBound
  <2> SUFFICES ASSUME NEW p \in Peers \ evicted
               PROVE  Between(admitted[p], Reach(now), now + 1) <= 2 * Limit - 1
    BY DEF BurstBound, Recent
  <2>1. /\ TypeOK /\ (\A j \in Slots : Charged(j) /\ KeptWhole(j))
        /\ (\A q \in Peers : Unseen(q)) /\ p # "none" /\ p \in Peers
    BY <1>1, Bounds DEF RateInv
  <2>2. now \in FirstTime .. MaxTime /\ now \in Nat /\ admitted[p] \in Seconds
    BY <2>1, RateTypes
  <2>3. CASE \A i \in Slots : g_accept_rates[i].peer # p
    <3>1. \A t \in 0 .. MaxTime : admitted[p][t] = 0
      BY <2>1, <2>3 DEF Unseen
    <3>2. Reach(now) \in 0 .. MaxTime + 1 /\ Reach(now) <= now + 1 /\ now + 1 \in 0 .. MaxTime + 1
      BY <2>2, ReachFacts, Bounds
    <3>3. Between(admitted[p], Reach(now), now + 1) = 0
      BY <3>1, <3>2, <2>2, BetweenZero
    <3> QED
      BY <3>3, Bounds
  <2>4. ASSUME NEW i \in Slots, g_accept_rates[i].peer = p
        PROVE  Between(admitted[p], Reach(now), now + 1) <= 2 * Limit - 1
    <3>1. PICK c, s : c = g_accept_rates[i].count /\ s = g_accept_rates[i].start
      OBVIOUS
    <3>2. EntryInv(c, s, admitted[p], now) /\ KeptInv(c, s, admitted[p], now)
      BY <2>1, <2>4, <3>1 DEF Charged, KeptWhole
    <3> QED
      BY <3>2, <2>2, EntryRecent
  <2> QED
    BY <2>3, <2>4
<1> QED
  BY <1>1, RateBookkeeping, PTL
=============================================================================
