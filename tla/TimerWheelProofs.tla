--------------------------- MODULE TimerWheelProofs ---------------------------
(***************************************************************************)
(* Proofs about the timer wheel of ntex-util/src/time/wheel.rs, for every  *)
(* number of levels, size of a level, ratio between levels and unit:       *)
(* timers are scheduled on time, the driver elapses none early, and no     *)
(* task that waits for a timer is forgotten; and about the callback timers *)
(* that share its levels (callbacks.rs): the scan is exact and no callback *)
(* is invoked for an arming that was taken back.                           *)
(*                                                                         *)
(* The argument rests on the arithmetic of WheelLevels: a tick of a level  *)
(* is found by its bucket as long as it is within one turn of the level    *)
(* (TickFacts), next_pending_bucket() returns the first occupied tick      *)
(* although it does not look at every level (NextFacts), the buckets       *)
(* drained at a tick are those of that tick (DueFacts, DueOnly), and       *)
(* calc_wheel_index() puts a delay within one turn (IndexFacts).           *)
(***************************************************************************)
EXTENDS TimerWheel, CallbackTimers, WellFoundedInduction, TLAPS, FiniteSetTheorems,
        SequenceTheorems

-----------------------------------------------------------------------------
(* Natural numbers.  The induction theorems of the library take an operator; *)
(* that a set of naturals has a least element does not, and stands in.       *)

\* A set of naturals that is not empty has a least element.
LEMMA LeastNat ==
  ASSUME NEW T \in SUBSET Nat, T # {} PROVE \E x \in T : \A y \in T : x <= y
<1> DEFINE R == {p \in Nat \X Nat : p[1] < p[2]}
<1>1. IsWellFoundedOn(OpToRel(<, Nat), Nat)
  BY NatLessThanWellFounded, Zenon
<1>2. OpToRel(<, Nat) = R
  BY Zenon DEF OpToRel
<1>3. IsWellFoundedOn(R, Nat)
  BY <1>1, <1>2, Zenon
<1> HIDE DEF R
<1>4. PICK x \in T : \A y \in T : ~(<<y, x>> \in R)
  BY <1>3, WFMin, Zenon
<1>5. ASSUME NEW y \in T PROVE x <= y
  <2>1. ~(<<y, x>> \in R) /\ x \in Nat /\ y \in Nat
    BY <1>4
  <2> QED
    BY <2>1 DEF R
<1> QED
  BY <1>5

\* Induction over a set: the least number that is not in it would be a successor.
LEMMA Induction ==
  ASSUME NEW S, 0 \in S, \A n \in Nat : n \in S => n + 1 \in S PROVE \A n \in Nat : n \in S
<1> SUFFICES ASSUME NEW n \in Nat, n \notin S PROVE FALSE
  OBVIOUS
<1> DEFINE T == {i \in Nat : i \notin S}
<1>1. T \in SUBSET Nat /\ T # {}
  OBVIOUS
<1>2. PICK x \in T : \A y \in T : x <= y
  <2> HIDE DEF T
  <2> QED
    BY <1>1, LeastNat
<1>3. x \in Nat \ {0}
  BY <1>2
<1>4. x - 1 \in Nat /\ x - 1 \notin T
  BY <1>2, <1>3
<1> QED
  BY <1>2, <1>4

\* Min is the least element.
LEMMA MinIn ==
  ASSUME NEW T \in SUBSET Nat, T # {} PROVE Min(T) \in T /\ \A y \in T : Min(T) <= y
<1>1. \E x \in T : \A y \in T : x <= y
  BY LeastNat
<1> QED
  BY <1>1 DEF Min

\* Products of naturals.
LEMMA Times ==
  ASSUME NEW a \in Nat, NEW b \in Nat, NEW c \in Nat
  PROVE  /\ a * c \in Nat /\ a * c = c * a
         /\ a <= b => a * c <= b * c
         /\ a < b /\ c > 0 => a * c < b * c
OBVIOUS

\* Quotient and remainder.
LEMMA DivMod ==
  ASSUME NEW a \in Int, NEW d \in Nat \ {0}
  PROVE  /\ a \div d \in Int /\ a % d \in 0..d - 1
         /\ a = d * (a \div d) + (a % d)
OBVIOUS

\* They are determined by their ranges.
LEMMA DivUnique ==
  ASSUME NEW q \in Int, NEW d \in Nat \ {0}, NEW r \in 0..d - 1
  PROVE  (q * d + r) % d = r /\ (q * d + r) \div d = q
OBVIOUS
-----------------------------------------------------------------------------
(* Recursive functions on the levels. *)

\* A function can be defined by recursion up to any number.
LEMMA Recursion ==
  ASSUME NEW F \in [Nat -> Nat], NEW a \in Nat
  PROVE  \A n \in Nat : \E g \in [0..n -> Nat] :
           \A l \in 0..n : g[l] = IF l = 0 THEN a ELSE F[g[l - 1]]
<1> DEFINE Ok(g, n) == \A l \in 0..n : g[l] = IF l = 0 THEN a ELSE F[g[l - 1]]
           S == {n \in Nat : \E g \in [0..n -> Nat] : Ok(g, n)}
<1>1. 0 \in S
  <2> DEFINE g == [l \in 0..0 |-> a]
  <2>1. g \in [0..0 -> Nat] /\ Ok(g, 0)
    OBVIOUS
  <2> QED
    BY <2>1
<1>2. ASSUME NEW n \in Nat, n \in S PROVE n + 1 \in S
  <2>1. PICK g \in [0..n -> Nat] : Ok(g, n)
    BY <1>2
  <2> DEFINE h == [l \in 0..n + 1 |-> IF l = n + 1 THEN F[g[n]] ELSE g[l]]
  <2>2. n \in 0..n /\ F[g[n]] \in Nat
    OBVIOUS
  <2>3. h \in [0..n + 1 -> Nat]
    BY <2>2, SMTT(60)
  <2>4. ASSUME NEW l \in 0..n + 1 PROVE h[l] = IF l = 0 THEN a ELSE F[h[l - 1]]
    <3>1. CASE l = n + 1
      BY <3>1
    <3>2. CASE l # n + 1
      <4>1. l \in 0..n /\ (l # 0 => l - 1 \in 0..n)
        BY <3>2
      <4>2. h[l] = g[l] /\ (l # 0 => h[l - 1] = g[l - 1])
        BY <3>2, <4>1
      <4>3. g[l] = IF l = 0 THEN a ELSE F[g[l - 1]]
        BY <2>1, <4>1
      <4> QED
        BY <4>2, <4>3
    <3> QED
      BY <3>1, <3>2
  <2> HIDE DEF h
  <2>5. Ok(h, n + 1)
    BY <2>4
  <2>6. \E k \in [0..n + 1 -> Nat] : Ok(k, n + 1)
    BY <2>3, <2>5
  <2> HIDE DEF Ok
  <2>7. n + 1 \in Nat
    OBVIOUS
  <2> QED
    BY <2>6, <2>7, Zenon
<1> HIDE DEF S
<1>3. \A n \in Nat : n \in S
  BY <1>1, <1>2, Induction
<1> QED
  BY <1>3 DEF S

\* There is a level 0.
LEMMA LevelsNat == LvlDepth - 1 \in Nat /\ Levels = 0..LvlDepth - 1 /\ 0 \in Levels
BY LevelsAssumption DEF Levels

\* What holds of level 0 and passes on to the next level holds of all levels.
LEMMA LevelInduction ==
  ASSUME NEW S, 0 \in S, \A l \in Levels : l # 0 /\ l - 1 \in S => l \in S
  PROVE  \A l \in Levels : l \in S
<1> DEFINE T == {n \in Nat : n \in Levels => n \in S}
<1>1. 0 \in T
  OBVIOUS
<1>2. ASSUME NEW n \in Nat, n \in T PROVE n + 1 \in T
  BY <1>2, LevelsNat
<1> HIDE DEF T
<1>3. \A n \in Nat : n \in T
  BY <1>1, <1>2, Induction
<1> QED
  BY <1>3, LevelsNat DEF T

\* granOf is defined: it satisfies its own equation.
LEMMA GranDef == granOf = [l \in Levels |-> IF l = 0 THEN 1 ELSE ClkDiv * granOf[l - 1]]
<1> DEFINE F == [x \in Nat |-> ClkDiv * x]
           n == LvlDepth - 1
<1>1. F \in [Nat -> Nat] /\ n \in Nat /\ Levels = 0..n
  BY LevelsAssumption, LevelsNat
<1> HIDE DEF n
<1>2. PICK g \in [0..n -> Nat] : \A l \in 0..n : g[l] = IF l = 0 THEN 1 ELSE F[g[l - 1]]
  <2> HIDE DEF F
  <2>1. 1 \in Nat
    OBVIOUS
  <2> QED
    BY <1>1, <2>1, Recursion, ZenonT(60)
<1>3. \A l \in 0..n : l # 0 => g[l - 1] \in Nat
  BY <1>1, SMTT(60)
<1>4. g = [l \in Levels |-> IF l = 0 THEN 1 ELSE ClkDiv * g[l - 1]]
  BY <1>1, <1>2, <1>3
<1> QED
  BY <1>4 DEF granOf

\* A level is ClkDiv times coarser than the one before, and none is finer than a unit.
LEMMA GranFacts ==
  /\ Gran(0) = 1
  /\ \A l \in Levels : Gran(l) \in Nat \ {0}
  /\ \A l \in Levels : l # 0 => l - 1 \in Levels /\ Gran(l) = ClkDiv * Gran(l - 1)
<1>1. Gran(0) = 1 /\ \A l \in Levels : l # 0 => Gran(l) = ClkDiv * Gran(l - 1)
  BY GranDef, LevelsNat DEF Gran
<1> DEFINE S == {l \in Levels : Gran(l) \in Nat \ {0}}
<1>2. 0 \in S
  BY <1>1, LevelsNat
<1>3. ASSUME NEW l \in Levels, l # 0, l - 1 \in S PROVE l \in S
  <2>1. Gran(l) = ClkDiv * Gran(l - 1) /\ Gran(l - 1) \in Nat \ {0}
    BY <1>1, <1>3
  <2>2. ClkDiv * Gran(l - 1) \in Nat \ {0}
    BY <2>1, LevelsAssumption
  <2> QED
    BY <2>1, <2>2
<1> HIDE DEF S
<1>4. \A l \in Levels : l \in S
  BY <1>2, <1>3, LevelInduction
<1>5. \A l \in Levels : l # 0 => l - 1 \in Levels
  BY LevelsNat
<1> QED
  BY <1>1, <1>4, <1>5 DEF S


\* A tick of a coarser level, rounded up.
LEMMA RoundUp ==
  ASSUME NEW x \in Nat, NEW d \in Nat \ {0}, NEW up, up = (x \div d) + (IF x % d = 0 THEN 0 ELSE 1)
  PROVE  /\ up \in Nat /\ d * up = x + ((d - (x % d)) % d)
         /\ x <= d * up /\ (up # 0 => d * (up - 1) < x)
<1> DEFINE q == x \div d
           r == x % d
<1>1. q \in Int /\ r \in 0..d - 1 /\ x = d * q + r
  BY DivMod
<1>2. q \in Nat
  OBVIOUS
<1>3. CASE r = 0
  <2>1. up = q /\ (d - r) % d = 0
    BY <1>3
  <2>2. q # 0 => d * (q - 1) = x - d
    BY <1>1, <1>3
  <2> QED
    BY <1>1, <1>2, <1>3, <2>1, <2>2
<1>4. CASE r # 0
  <2>1. up = q + 1 /\ (d - r) % d = d - r
    BY <1>1, <1>4
  <2>2. d * (q + 1) = d * q + d /\ d * (up - 1) = d * q
    BY <1>2, <2>1
  <2> HIDE DEF q, r
  <2>3. d * up = x + (d - r)
    BY <1>1, <1>2, <2>1, <2>2
  <2> QED
    BY <1>1, <1>2, <1>4, <2>1, <2>2, <2>3 DEF r
<1> QED
  BY <1>3, <1>4

\* LevelClock is defined: it satisfies its own equation.
LEMMA ClockDef ==
  ASSUME NEW start \in Nat, NEW c, c = LevelClock(start)
  PROVE  c = [l \in Levels |->
                IF l = 0 THEN start
                ELSE (c[l - 1] \div ClkDiv) + (IF c[l - 1] % ClkDiv = 0 THEN 0 ELSE 1)]
<1> DEFINE F == [x \in Nat |-> (x \div ClkDiv) + (IF x % ClkDiv = 0 THEN 0 ELSE 1)]
           n == LvlDepth - 1
<1>1. ASSUME NEW x \in Nat PROVE (x \div ClkDiv) + (IF x % ClkDiv = 0 THEN 0 ELSE 1) \in Nat
  BY RoundUp, LevelsAssumption
<1>2. F \in [Nat -> Nat] /\ n \in Nat /\ Levels = 0..n
  BY <1>1, LevelsNat
<1> HIDE DEF n
<1>3. PICK g \in [0..n -> Nat] : \A l \in 0..n : g[l] = IF l = 0 THEN start ELSE F[g[l - 1]]
  <2> HIDE DEF F
  <2> QED
    BY <1>2, Recursion, ZenonT(60)
<1>4. ASSUME NEW l \in 0..n, l # 0 PROVE g[l - 1] \in Nat
  <2>1. n \in Nat
    BY <1>2
  <2>2. l - 1 \in 0..n
    BY <1>4, <2>1
  <2> QED
    BY <2>2
<1>5. g = [l \in Levels |->
             IF l = 0 THEN start
             ELSE (g[l - 1] \div ClkDiv) + (IF g[l - 1] % ClkDiv = 0 THEN 0 ELSE 1)]
  BY <1>2, <1>3, <1>4
<1> HIDE DEF F
<1> QED
  BY <1>5 DEF LevelClock

\* The clock of a level is that of the finer one, rounded up.
LEMMA ClockFacts ==
  ASSUME NEW start \in Nat, NEW c, c = LevelClock(start)
  PROVE  /\ c[0] = start /\ \A l \in Levels : c[l] \in Nat
         /\ \A l \in Levels : l # 0 =>
              /\ c[l - 1] <= ClkDiv * c[l] /\ (c[l] # 0 => ClkDiv * (c[l] - 1) < c[l - 1])
              /\ ClkDiv * c[l] = c[l - 1] + ((ClkDiv - (c[l - 1] % ClkDiv)) % ClkDiv)
<1>1. /\ c[0] = start
      /\ \A l \in Levels : l # 0 =>
           c[l] = (c[l - 1] \div ClkDiv) + (IF c[l - 1] % ClkDiv = 0 THEN 0 ELSE 1)
  BY ClockDef, LevelsNat
<1> DEFINE S == {l \in Levels : c[l] \in Nat}
<1>2. 0 \in S
  BY <1>1, LevelsNat
<1>3. ASSUME NEW l \in Levels, l # 0, l - 1 \in S PROVE l \in S
  BY <1>1, <1>3, RoundUp, LevelsAssumption
<1> HIDE DEF S
<1>4. \A l \in Levels : l \in S
  BY <1>2, <1>3, LevelInduction
<1>5. \A l \in Levels : c[l] \in Nat
  BY <1>4 DEF S
<1>6. ASSUME NEW l \in Levels, l # 0
      PROVE  /\ c[l - 1] <= ClkDiv * c[l] /\ (c[l] # 0 => ClkDiv * (c[l] - 1) < c[l - 1])
             /\ ClkDiv * c[l] = c[l - 1] + ((ClkDiv - (c[l - 1] % ClkDiv)) % ClkDiv)
  <2>1. c[l - 1] \in Nat /\ ClkDiv \in Nat \ {0}
    BY <1>5, <1>6, LevelsNat, LevelsAssumption
  <2>2. c[l] = (c[l - 1] \div ClkDiv) + (IF c[l - 1] % ClkDiv = 0 THEN 0 ELSE 1)
    BY <1>1, <1>6
  <2> QED
    BY <2>1, <2>2, RoundUp
<1> QED
  BY <1>1, <1>5, <1>6

\* The clock of a level is the first tick of the level that is not past.
LEMMA ClockTicks ==
  ASSUME NEW start \in Nat, NEW c, c = LevelClock(start)
  PROVE  /\ \A l \in Levels : start <= c[l] * Gran(l)
         /\ \A l \in Levels : c[l] # 0 => (c[l] - 1) * Gran(l) < start
         /\ \A l \in Levels : l # 0 => c[l - 1] * Gran(l - 1) <= c[l] * Gran(l)
<1>1. ASSUME NEW l \in Levels, l # 0
      PROVE  /\ c[l - 1] * Gran(l - 1) <= c[l] * Gran(l)
             /\ c[l] # 0 => c[l - 1] # 0 /\ (c[l] - 1) * Gran(l) <= (c[l - 1] - 1) * Gran(l - 1)
  <2> DEFINE g == Gran(l - 1)
             a == c[l - 1]
             b == c[l]
  <2>1. l - 1 \in Levels /\ g \in Nat \ {0} /\ Gran(l) = ClkDiv * g /\ a \in Nat /\ b \in Nat
    BY <1>1, GranFacts, ClockFacts
  <2>2. a <= ClkDiv * b /\ (b # 0 => ClkDiv * (b - 1) < a) /\ ClkDiv \in Nat
    BY <1>1, ClockFacts, LevelsAssumption
  <2> HIDE DEF g, a, b
  <2>3. a * g <= (ClkDiv * b) * g /\ (ClkDiv * b) * g = b * (ClkDiv * g)
    <3>1. ClkDiv * b \in Nat
      BY <2>1, <2>2, Times
    <3> QED
      BY <2>1, <2>2, <3>1, Times
  <2>4. ASSUME b # 0 PROVE a # 0 /\ (b - 1) * (ClkDiv * g) <= (a - 1) * g
    <3>1. b - 1 \in Nat /\ ClkDiv * (b - 1) \in Nat
      BY <2>1, <2>2, <2>4, Times
    <3>2. a # 0 /\ a - 1 \in Nat /\ ClkDiv * (b - 1) <= a - 1
      BY <2>1, <2>2, <2>4, <3>1
    <3>3. (ClkDiv * (b - 1)) * g <= (a - 1) * g
      BY <2>1, <3>1, <3>2, Times
    <3>4. (ClkDiv * (b - 1)) * g = (b - 1) * (ClkDiv * g)
      BY <2>1, <2>2, <3>1
    <3> QED
      BY <3>2, <3>3, <3>4
  <2> QED
    BY <2>1, <2>3, <2>4 DEF g, a, b
<1> DEFINE S == {l \in Levels : start <= c[l] * Gran(l) /\ (c[l] # 0 => (c[l] - 1) * Gran(l) < start)}
<1>2. 0 \in S
  BY GranFacts, ClockFacts, LevelsNat
<1>3. ASSUME NEW l \in Levels, l # 0, l - 1 \in S PROVE l \in S
  <2>1. /\ start <= c[l - 1] * Gran(l - 1)
        /\ c[l - 1] # 0 => (c[l - 1] - 1) * Gran(l - 1) < start
    BY <1>3
  <2>2. c[l] \in Nat /\ c[l - 1] \in Nat /\ Gran(l) \in Nat /\ Gran(l - 1) \in Nat
    BY <1>3, ClockFacts, GranFacts
  <2>3. c[l] * Gran(l) \in Nat /\ c[l - 1] * Gran(l - 1) \in Nat
    BY <2>2, Times
  <2>4. start <= c[l] * Gran(l)
    BY <1>1, <1>3, <2>1, <2>3
  <2>5. ASSUME c[l] # 0 PROVE (c[l] - 1) * Gran(l) < start
    <3>1. c[l] - 1 \in Nat /\ c[l - 1] - 1 \in Nat
      BY <1>1, <1>3, <2>2, <2>5
    <3>2. (c[l] - 1) * Gran(l) \in Nat /\ (c[l - 1] - 1) * Gran(l - 1) \in Nat
      BY <2>2, <3>1, Times
    <3> QED
      BY <1>1, <1>3, <2>1, <2>5, <3>1, <3>2
  <2> QED
    BY <2>4, <2>5
<1> HIDE DEF S
<1>4. \A l \in Levels : l \in S
  BY <1>2, <1>3, LevelInduction
<1> QED
  BY <1>1, <1>4 DEF S

\* The clock of a coarser level is not earlier.
LEMMA ClockGrows ==
  ASSUME NEW start \in Nat, NEW c, c = LevelClock(start), NEW k \in Levels
  PROVE  \A l \in Levels : k <= l => c[k] * Gran(k) <= c[l] * Gran(l)
<1> DEFINE S == {l \in Levels : k <= l => c[k] * Gran(k) <= c[l] * Gran(l)}
<1>1. \A l \in Levels : c[l] * Gran(l) \in Nat /\ l \in Nat
  BY ClockFacts, GranFacts, Times, LevelsNat
<1>2. 0 \in S
  BY <1>1, LevelsNat
<1>3. ASSUME NEW l \in Levels, l # 0, l - 1 \in S PROVE l \in S
  <2>1. c[l - 1] * Gran(l - 1) <= c[l] * Gran(l) /\ l - 1 \in Levels
    BY <1>3, ClockTicks, GranFacts
  <2>2. k <= l => k = l \/ k <= l - 1
    BY <1>1
  <2> QED
    BY <1>1, <1>3, <2>1, <2>2
<1> HIDE DEF S
<1>4. \A l \in Levels : l \in S
  BY <1>2, <1>3, LevelInduction
<1> QED
  BY <1>4 DEF S

-----------------------------------------------------------------------------
(* The scan of the levels. *)

\* The first tick from the clock c of a level on that bucket b stands for.
TickOf(c, b) == c + ((b - c) % LvlSize)

\* next_pending_bucket() finds the first tick of an occupied bucket.  A level that
\* it leaves out cannot have an earlier one: its clock is a tick that the finer
\* level reaches after the bucket found there.
LEMMA NextFacts ==
  ASSUME NEW start \in Nat, NEW occ \in [Levels -> SUBSET (0..LvlSize - 1)],
         NEW np, np = NextPendingBucket(start, occ), NEW c, c = LevelClock(start)
  PROVE  /\ np = Never \/ (np \in Nat /\ start <= np)
         /\ \A l \in Levels : \A b \in occ[l] : np # Never /\ np <= TickOf(c[l], b) * Gran(l)
         /\ np # Never => \E l \in Levels : \E b \in occ[l] : np = TickOf(c[l], b) * Gran(l)
<1> DEFINE dists(l) == {(b - c[l]) % LvlSize : b \in occ[l]}
           distance(l) == Min({(b - c[l]) % LvlSize : b \in occ[l]})
           conclusive(l) ==
             occ[l] # {} /\ distance(l) <= (ClkDiv - (c[l] % ClkDiv)) % ClkDiv
           levels == {l \in Levels : occ[l] # {} /\ \A k \in 0..(l - 1) : ~conclusive(k)}
           found == {(c[l] + distance(l)) * Gran(l) : l \in levels}
<1>1. np = IF levels = {} THEN Never ELSE Min(found)
  BY DEF NextPendingBucket
<1>2. LvlSize \in Nat \ {0} /\ ClkDiv \in Nat \ {0} /\ Levels \subseteq Nat
  BY LevelsAssumption, LevelsNat
<1>3. \A l \in Levels : c[l] \in Nat /\ Gran(l) \in Nat \ {0}
  BY ClockFacts, GranFacts
<1>4. ASSUME NEW l \in Levels, occ[l] # {}
      PROVE  /\ distance(l) \in 0..LvlSize - 1
             /\ \A b \in occ[l] : distance(l) <= (b - c[l]) % LvlSize
             /\ \E b \in occ[l] : distance(l) = (b - c[l]) % LvlSize
  <2>1. \A b \in occ[l] : (b - c[l]) % LvlSize \in 0..LvlSize - 1
    <3> SUFFICES ASSUME NEW b \in occ[l] PROVE (b - c[l]) % LvlSize \in 0..LvlSize - 1
      OBVIOUS
    <3>1. b - c[l] \in Int
      BY <1>2, <1>3
    <3> QED
      BY <1>2, <3>1, DivMod
  <2>2. dists(l) \in SUBSET Nat /\ dists(l) # {}
    BY <1>2, <1>4, <2>1
  <2>3. Min(dists(l)) \in dists(l) /\ \A y \in dists(l) : Min(dists(l)) <= y
    <3> HIDE DEF dists
    <3> QED
      BY <2>2, MinIn
  <2> QED
    BY <2>1, <2>3
<1> HIDE DEF distance
<1>5. ASSUME NEW l \in Levels, occ[l] # {}
      PROVE  /\ (c[l] + distance(l)) * Gran(l) \in Nat /\ start <= (c[l] + distance(l)) * Gran(l)
             /\ \A b \in occ[l] : (c[l] + distance(l)) * Gran(l) <= TickOf(c[l], b) * Gran(l)
  <2>1. c[l] + distance(l) \in Nat /\ c[l] \in Nat /\ Gran(l) \in Nat /\ c[l] <= c[l] + distance(l)
    BY <1>2, <1>3, <1>4, <1>5
  <2>2. /\ (c[l] + distance(l)) * Gran(l) \in Nat /\ c[l] * Gran(l) \in Nat
        /\ c[l] * Gran(l) <= (c[l] + distance(l)) * Gran(l)
    BY <2>1, Times
  <2>3. start <= c[l] * Gran(l)
    BY ClockTicks
  <2>4. ASSUME NEW b \in occ[l]
        PROVE  (c[l] + distance(l)) * Gran(l) <= TickOf(c[l], b) * Gran(l)
    <3>1. (b - c[l]) % LvlSize \in Nat
      <4>1. b - c[l] \in Int
        BY <1>2, <1>3
      <4> QED
        BY <1>2, <4>1, DivMod
    <3>2. TickOf(c[l], b) \in Nat /\ c[l] + distance(l) <= TickOf(c[l], b)
      BY <1>2, <1>3, <1>4, <1>5, <3>1 DEF TickOf
    <3> QED
      BY <2>1, <3>2, Times
  <2> QED
    BY <2>2, <2>3, <2>4
<1>6. found \in SUBSET Nat
  BY <1>5
<1>7. levels # {} => np \in found /\ \A y \in found : np <= y
  <2> SUFFICES ASSUME levels # {} PROVE np \in found /\ \A y \in found : np <= y
    OBVIOUS
  <2>1. found # {} /\ np = Min(found)
    BY <1>1
  <2> HIDE DEF found
  <2> QED
    BY <1>6, <2>1, MinIn
<1>8. np = Never \/ (np \in Nat /\ start <= np)
  <2>1. CASE levels = {}
    BY <1>1, <2>1
  <2>2. CASE levels # {}
    BY <1>5, <1>6, <1>7, <2>2
  <2> QED
    BY <2>1, <2>2
<1>9. ASSUME NEW l \in Levels, NEW b \in occ[l]
      PROVE  \E k \in levels : (c[k] + distance(k)) * Gran(k) <= TickOf(c[l], b) * Gran(l)
  <2> DEFINE C == {k \in Levels : k < l /\ conclusive(k)}
  <2>1. CASE C = {}
    <3>1. l \in levels
      BY <1>2, <1>9, <2>1, LevelsNat
    <3> QED
      BY <1>5, <1>9, <3>1
  <2>2. CASE C # {}
    <3>1. C \in SUBSET Nat
      BY <1>2
    <3> HIDE DEF C
    <3>2. PICK k \in C : \A j \in C : k <= j
      BY <2>2, <3>1, LeastNat
    <3> USE DEF C
    <3>3. k \in Levels /\ k < l /\ conclusive(k) /\ k + 1 \in Levels /\ k + 1 <= l
      BY <1>2, <3>2, LevelsNat
    <3>4. k \in levels
      BY <1>2, <3>2, <3>3, LevelsNat
    <3> DEFINE n == k + 1
    <3>5. /\ n # 0 /\ n - 1 = k /\ c[n] \in Nat /\ Gran(n) = ClkDiv * Gran(k)
          /\ ClkDiv * c[n] = c[k] + ((ClkDiv - (c[k] % ClkDiv)) % ClkDiv)
      <4>1. n \in Levels /\ n # 0 /\ n - 1 = k
        BY <1>2, <3>3
      <4> HIDE DEF n
      <4> QED
        BY <4>1, GranFacts, ClockFacts
    <3>6. c[k] + distance(k) <= ClkDiv * c[n]
      <4>1. distance(k) <= (ClkDiv - (c[k] % ClkDiv)) % ClkDiv /\ distance(k) \in Nat
        BY <1>2, <1>4, <3>3
      <4>2. c[k] \in Nat /\ ClkDiv * c[n] \in Nat
        BY <1>2, <1>3, <3>3, <3>5, Times
      <4>3. (ClkDiv - (c[k] % ClkDiv)) % ClkDiv \in Int
        <5>1. c[k] % ClkDiv \in Int
          <6>1. c[k] \in Int
            BY <4>2
          <6>2. c[k] % ClkDiv \in 0..ClkDiv - 1
            BY <1>2, <6>1, DivMod
          <6> QED
            BY <1>2, <6>2
        <5> QED
          BY <1>2, <5>1, DivMod
      <4> QED
        BY <3>5, <4>1, <4>2, <4>3
    <3> HIDE DEF n, C
    <3>7. (c[k] + distance(k)) * Gran(k) <= (ClkDiv * c[n]) * Gran(k)
      <4>1. c[k] + distance(k) \in Nat /\ ClkDiv * c[n] \in Nat /\ Gran(k) \in Nat
        BY <1>2, <1>3, <1>4, <3>3, <3>5, Times
      <4> QED
        BY <3>6, <4>1, Times
    <3>8. (ClkDiv * c[n]) * Gran(k) = c[n] * Gran(n)
      BY <1>2, <1>3, <3>3, <3>5
    <3>9. c[n] * Gran(n) <= c[l] * Gran(l)
      BY <3>3, ClockGrows DEF n
    <3>10. /\ c[l] * Gran(l) <= TickOf(c[l], b) * Gran(l) /\ c[l] * Gran(l) \in Nat
           /\ TickOf(c[l], b) * Gran(l) \in Nat
      <4>1. (b - c[l]) % LvlSize \in Nat
        <5>1. b - c[l] \in Int
          BY <1>2, <1>3
        <5> QED
          BY <1>2, <5>1, DivMod
      <4>2. TickOf(c[l], b) \in Nat /\ c[l] \in Nat /\ c[l] <= TickOf(c[l], b) /\ Gran(l) \in Nat
        BY <1>3, <4>1 DEF TickOf
      <4> QED
        BY <4>2, Times
    <3>11. (c[k] + distance(k)) * Gran(k) \in Nat
      BY <1>5, <3>3
    <3>12. c[n] * Gran(n) \in Nat
      BY <1>3, <3>3, <3>5, Times DEF n
    <3>13. (c[k] + distance(k)) * Gran(k) <= TickOf(c[l], b) * Gran(l)
      <4> HIDE DEF levels, conclusive
      <4> QED
        BY <3>7, <3>8, <3>9, <3>10, <3>11, <3>12
    <3> QED
      BY <3>4, <3>13
  <2> QED
    BY <2>1, <2>2
<1>10. ASSUME NEW l \in Levels, NEW b \in occ[l]
       PROVE  np # Never /\ np <= TickOf(c[l], b) * Gran(l)
  <2>1. PICK k \in levels : (c[k] + distance(k)) * Gran(k) <= TickOf(c[l], b) * Gran(l)
    BY <1>9
  <2>2. (c[k] + distance(k)) * Gran(k) \in found
    BY <2>1
  <2>3. np \in Nat /\ np <= (c[k] + distance(k)) * Gran(k)
    BY <1>6, <1>7, <2>1, <2>2
  <2>4. TickOf(c[l], b) * Gran(l) \in Nat
    <3>1. (b - c[l]) % LvlSize \in Nat
      <4>1. b - c[l] \in Int
        BY <1>2, <1>3
      <4> QED
        BY <1>2, <4>1, DivMod
    <3>2. TickOf(c[l], b) \in Nat /\ Gran(l) \in Nat
      BY <1>3, <3>1 DEF TickOf
    <3> QED
      BY <3>2, Times
  <2>5. (c[k] + distance(k)) * Gran(k) \in Nat
    BY <1>6, <2>2
  <2> QED
    BY <2>1, <2>3, <2>4, <2>5 DEF Never
<1>11. np # Never => \E l \in Levels : \E b \in occ[l] : np = TickOf(c[l], b) * Gran(l)
  <2> SUFFICES ASSUME np # Never
               PROVE  \E l \in Levels : \E b \in occ[l] : np = TickOf(c[l], b) * Gran(l)
    OBVIOUS
  <2>1. PICK l \in levels : np = (c[l] + distance(l)) * Gran(l)
    BY <1>1, <1>7
  <2>2. l \in Levels /\ occ[l] # {}
    BY <2>1
  <2>3. PICK b \in occ[l] : distance(l) = (b - c[l]) % LvlSize
    BY <1>4, <2>2
  <2>4. np = TickOf(c[l], b) * Gran(l)
    BY <2>1, <2>3 DEF TickOf
  <2> QED
    BY <2>2, <2>4
<1> QED
  BY <1>8, <1>10, <1>11

\* A tick within one turn of a level is the one its bucket stands for.
LEMMA TickFacts ==
  ASSUME NEW start \in Nat, NEW c, c = LevelClock(start), NEW l \in Levels, NEW n \in Nat,
         start <= n * Gran(l), n * Gran(l) < start + LvlSize * Gran(l)
  PROVE  TickOf(c[l], n % LvlSize) = n
<1> DEFINE g == Gran(l)
           k == c[l]
           q == n \div LvlSize
           r == n % LvlSize
<1>1. LvlSize \in Nat \ {0} /\ g \in Nat \ {0} /\ k \in Nat
  BY LevelsAssumption, GranFacts, ClockFacts
<1>2. start <= k * g /\ (k # 0 => (k - 1) * g < start) /\ k * g \in Nat
  BY <1>1, ClockTicks, Times
<1>3. q \in Int /\ r \in 0..LvlSize - 1 /\ n = LvlSize * q + r
  <2>1. n \in Int
    OBVIOUS
  <2> QED
    BY <1>1, <2>1, DivMod
<1> HIDE DEF g, k, q, r
<1>4. k <= n
  <2> SUFFICES ASSUME n < k PROVE FALSE
    BY <1>1
  <2>1. k # 0 /\ k - 1 \in Nat /\ n <= k - 1
    BY <1>1
  <2>2. n * g <= (k - 1) * g /\ n * g \in Nat /\ (k - 1) * g \in Nat
    BY <1>1, <2>1, Times
  <2> QED
    BY <1>2, <2>1, <2>2 DEF g
<1>5. n < k + LvlSize
  <2> SUFFICES ASSUME k + LvlSize <= n PROVE FALSE
    BY <1>1
  <2>1. (k + LvlSize) * g <= n * g /\ n * g \in Nat
    BY <1>1, Times
  <2>2. (k + LvlSize) * g = k * g + LvlSize * g /\ LvlSize * g \in Nat
    BY <1>1
  <2> QED
    BY <1>2, <2>1, <2>2 DEF g
<1>6. (r - k) % LvlSize = n - k
  <2>1. n - k \in 0..LvlSize - 1 /\ -q \in Int
    BY <1>1, <1>3, <1>4, <1>5
  <2>2. r - k = (-q) * LvlSize + (n - k)
    BY <1>1, <1>3
  <2>3. ((-q) * LvlSize + (n - k)) % LvlSize = n - k
    BY <1>1, <2>1, DivUnique
  <2> QED
    BY <2>2, <2>3
<1>7. k + (n - k) = n
  BY <1>1
<1> QED
  BY <1>6, <1>7 DEF TickOf, k, r

\* The bucket of a tick is drained when the clock reaches the tick.
LEMMA DueFacts ==
  ASSUME NEW l \in Levels, NEW n \in Nat
  PROVE  Place(l, n) \in DueBuckets(n * Gran(l))
<1>1. Gran(l) \in Nat \ {0} /\ n \in Int /\ 0 \in 0..Gran(l) - 1
  BY GranFacts
<1>2. (n * Gran(l) + 0) % Gran(l) = 0 /\ (n * Gran(l) + 0) \div Gran(l) = n
  BY <1>1, DivUnique
<1>3. n * Gran(l) + 0 = n * Gran(l)
  BY <1>1
<1> QED
  BY <1>2, <1>3 DEF DueBuckets

\* A bucket that is drained at a tick of its level, within one turn, is for it.
LEMMA DueOnly ==
  ASSUME NEW start \in Nat, NEW l \in Levels, NEW n \in Nat, NEW e \in Nat, start <= e,
         e <= n * Gran(l), n * Gran(l) < start + LvlSize * Gran(l), Place(l, n) \in DueBuckets(e)
  PROVE  e = n * Gran(l)
<1> DEFINE g == Gran(l)
           m == e \div g
<1>1. g \in Nat \ {0} /\ LvlSize \in Nat \ {0}
  BY GranFacts, LevelsAssumption
<1>2. e % g = 0 /\ m % LvlSize = n % LvlSize
  <2>1. PICK k \in Levels : e % Gran(k) = 0 /\ Place(l, n) = Place(k, e \div Gran(k))
    BY DEF DueBuckets
  <2> QED
    BY <2>1 DEF Place
<1>3. e = g * m + 0 /\ m \in Int
  <2>1. e \in Int
    OBVIOUS
  <2> QED
    BY <1>1, <1>2, <2>1, DivMod
<1> HIDE DEF g, m
<1>4. e = m * g /\ m \in Nat
  BY <1>1, <1>3
<1>5. m <= n
  <2> SUFFICES ASSUME n < m PROVE FALSE
    BY <1>4
  <2>1. n * g < m * g /\ n * g \in Nat
    BY <1>1, <1>4, Times
  <2> QED
    BY <1>4, <2>1 DEF g
<1>6. n < m + LvlSize
  <2> SUFFICES ASSUME m + LvlSize <= n PROVE FALSE
    BY <1>1, <1>4
  <2>1. (m + LvlSize) * g <= n * g /\ n * g \in Nat
    BY <1>1, <1>4, Times
  <2>2. (m + LvlSize) * g = m * g + LvlSize * g /\ LvlSize * g \in Nat
    BY <1>1, <1>4
  <2> QED
    BY <1>4, <2>1, <2>2 DEF g
<1>7. n = m
  <2> DEFINE r == n % LvlSize
             p == n \div LvlSize
             q == m \div LvlSize
  <2>1. /\ p \in Int /\ q \in Int /\ r \in 0..LvlSize - 1 /\ n = LvlSize * p + r
        /\ m = LvlSize * q + r
    <3>1. n \in Int /\ m \in Int
      BY <1>4
    <3>2. n = LvlSize * p + (n % LvlSize) /\ p \in Int /\ n % LvlSize \in 0..LvlSize - 1
      BY <1>1, <3>1, DivMod
    <3>3. m = LvlSize * q + (m % LvlSize) /\ q \in Int
      BY <1>1, <3>1, DivMod
    <3> QED
      BY <1>2, <3>2, <3>3
  <2> HIDE DEF p, q, r
  <2>2. n - m = LvlSize * (p - q) /\ n - m < LvlSize /\ n - m >= 0
    BY <1>1, <1>4, <1>5, <1>6, <2>1
  <2>3. p - q = 0
    <3>1. p - q >= 1 => LvlSize * (p - q) >= LvlSize
      BY <1>1, <2>1
    <3>2. p - q <= -1 => LvlSize * (p - q) <= -LvlSize
      BY <1>1, <2>1
    <3> QED
      BY <1>1, <2>1, <2>2, <3>1, <3>2
  <2> QED
    BY <1>1, <1>4, <2>1, <2>3
<1> QED
  BY <1>4, <1>7 DEF g

\* Where calc_wheel_index() puts a delay.
LEMMA IndexFacts ==
  ASSUME NEW start \in Nat, NEW delta \in Nat, NEW x, x = CalcWheelIndex(start, delta)
  PROVE  \E l \in Levels, n \in Nat :
           /\ x.place = Place(l, n) /\ x.expiry = n * Gran(l)
           /\ start < x.expiry /\ x.expiry < start + LvlSize * Gran(l)
           /\ delta < TimeoutCutoff =>
                start + delta < x.expiry /\ x.expiry <= start + delta + Gran(l)
<1>1. ASSUME NEW l \in Levels, NEW d \in Nat, d < (LvlSize - 1) * Gran(l), x = CalcIndex(start + d, l)
      PROVE  \E n \in Nat :
               /\ x.place = Place(l, n) /\ x.expiry = n * Gran(l)
               /\ start + d < x.expiry /\ x.expiry <= start + d + Gran(l)
               /\ start < x.expiry /\ x.expiry < start + LvlSize * Gran(l)
  <2> DEFINE g == Gran(l)
             y == start + d + g
             n == y \div g
  <2>1. g \in Nat \ {0} /\ LvlSize \in Nat \ {0, 1} /\ y \in Nat
    BY GranFacts, LevelsAssumption
  <2>2. x.place = Place(l, n) /\ x.expiry = n * g
    BY <1>1 DEF CalcIndex
  <2>3. n \in Int /\ y % g \in 0..g - 1 /\ y = g * n + (y % g)
    <3>1. y \in Int
      BY <2>1
    <3> HIDE DEF y, g
    <3> QED
      BY <2>1, <3>1, DivMod
  <2>4. n * g <= y /\ y < n * g + g /\ n * g \in Int
    <3> DEFINE r == y % g
    <3>1. r \in Int /\ 0 <= r /\ r < g /\ y = g * n + r
      BY <2>1, <2>3
    <3>2. n \in Int /\ g \in Int
      BY <2>1, <2>3
    <3> HIDE DEF r, y, n, g
    <3>3. g * n = n * g /\ n * g \in Int
      BY <3>2
    <3> QED
      BY <2>1, <3>1, <3>3
  <2> HIDE DEF n
  <2>5. start + d < n * g /\ n * g <= start + d + g
    BY <2>1, <2>4
  <2>6. n \in Nat
    BY <2>1, <2>3, <2>5
  <2>7. (LvlSize - 1) * g = LvlSize * g - g /\ LvlSize * g \in Nat
    BY <2>1
  <2>8. n * g < start + LvlSize * g /\ start < n * g
    BY <1>1, <2>1, <2>4, <2>5, <2>7
  <2> QED
    BY <2>2, <2>5, <2>6, <2>8
<1>2. \A l \in Levels : LvlStart(l + 1) = (LvlSize - 1) * Gran(l)
  <2> SUFFICES ASSUME NEW l \in Levels PROVE LvlStart(l + 1) = (LvlSize - 1) * Gran(l)
    OBVIOUS
  <2>1. (l + 1) - 1 = l
    BY LevelsNat
  <2> QED
    BY <2>1 DEF LvlStart
<1>3. TimeoutCutoff = (LvlSize - 1) * Gran(LvlDepth - 1) /\ LvlDepth - 1 \in Levels
  BY LevelsNat DEF TimeoutCutoff, LvlStart
<1>4. CASE delta < TimeoutCutoff
  <2> DEFINE fit == {l \in Levels : delta < LvlStart(l + 1)}
             l == Level(delta)
  <2>1. LvlDepth - 1 \in fit /\ fit \in SUBSET Nat
    BY <1>2, <1>3, <1>4, LevelsNat
  <2>2. l \in fit
    <3>1. l = Min(fit)
      BY DEF Level
    <3> HIDE DEF fit, l
    <3> QED
      BY <2>1, <3>1, MinIn
  <2>3. x = CalcIndex(start + delta, l)
    BY <1>4 DEF CalcWheelIndex
  <2>4. l \in Levels /\ delta < (LvlSize - 1) * Gran(l)
    BY <1>2, <2>2
  <2> HIDE DEF l
  <2> QED
    BY <1>1, <2>3, <2>4
<1>5. CASE ~(delta < TimeoutCutoff)
  <2> DEFINE l == LvlDepth - 1
  <2>1. x = CalcIndex(start + TimeoutMax, l)
    BY <1>5 DEF CalcWheelIndex
  <2>2. l \in Levels /\ Gran(l) \in Nat \ {0} /\ LvlSize \in Nat \ {0, 1}
    BY <1>3, GranFacts, LevelsAssumption
  <2>3. TimeoutMax \in Nat /\ TimeoutMax < (LvlSize - 1) * Gran(l)
    <3>1. TimeoutMax = (LvlSize - 1) * Gran(l) - Gran(l)
      BY <1>3 DEF TimeoutMax
    <3> HIDE DEF l
    <3>2. LvlSize - 2 \in Nat /\ (LvlSize - 1) * Gran(l) - Gran(l) = (LvlSize - 2) * Gran(l)
      BY <2>2
    <3>3. (LvlSize - 2) * Gran(l) \in Nat
      BY <2>2, <3>2, Times
    <3> QED
      BY <2>2, <3>1, <3>2, <3>3
  <2> HIDE DEF l
  <2> QED
    BY <1>1, <1>5, <2>1, <2>2, <2>3
<1> QED
  BY <1>4, <1>5

-----------------------------------------------------------------------------
(***************************************************************************)
(* The wheel.  ScheduledOnTime is not inductive: when the driver moves the *)
(* clock, a timer keeps its instant only if the clock does not move past   *)
(* its expiry, and when the wheel becomes idle only if no timer is left.   *)
(* Both come from the scan of the levels, which finds every bucket in use  *)
(* as long as its bit is set and its tick is within one turn of the level. *)
(***************************************************************************)

Sleeps == [at : Int, fired : BOOLEAN, registered : BOOLEAN]
Types ==
  /\ now \in Nat /\ elapsed \in Nat /\ elapsedTime \in Nat \cup {None}
  /\ units \in UnitSizes \cup {None} /\ nextExpiry \in Nat \cup {Never}
  /\ occupied \in [Levels -> SUBSET (0..LvlSize - 1)]
  /\ bucket \in [Timers -> Buckets \cup {Elapsed, Gone}] /\ task \in [Timers -> BOOLEAN]
  /\ started \in BOOLEAN /\ gen \in Gens /\ waker \in Gens \cup {None}
  /\ dpc \in [Gens -> {"none", "parked", "loop"}] /\ runnable \in [Gens -> BOOLEAN]
  /\ dnow \in Nat /\ dnow <= now /\ armed \in [Gens -> Int] /\ sleep \in [Gens -> Sleeps]
  /\ due \in [Timers -> Nat] /\ expiry \in [Timers -> Nat] /\ clamped \in [Timers -> BOOLEAN]
  /\ sleeper \in [Timers -> BOOLEAN]

\* While a deadline is set, the clock runs and is not past it.
Clocked ==
  /\ elapsedTime # None => elapsedTime <= now
  /\ nextExpiry # Never => elapsedTime # None /\ units # None /\ elapsed <= nextExpiry

\* The timer is in the bucket of its tick, which is within a turn of its level;
\* the bit of the bucket is set, and the next deadline is not later.
Linked(t) ==
  /\ nextExpiry # Never /\ nextExpiry <= expiry[t]
  /\ bucket[t].off \in occupied[bucket[t].lvl]
  /\ elapsed <= expiry[t]
  /\ \E l \in Levels, n \in Nat :
       /\ bucket[t] = Place(l, n) /\ expiry[t] = n * Gran(l)
       /\ expiry[t] < elapsed + LvlSize * Gran(l)

\* A timer is scheduled after the instant it asked for, by at most the granularity
\* of its level.
OnTime(t) ==
  /\ ExpiryTime(expiry[t]) > due[t]
  /\ ExpiryTime(expiry[t]) <= due[t] + Gran(bucket[t].lvl) * units + (units - 1)

WheelInv ==
  /\ Types /\ Clocked
  /\ \A t \in Timers : Pending(t) => Linked(t) /\ (~clamped[t] => OnTime(t))

\* The driver of the current generation; those of later ones do not exist yet.
DriverInv ==
  /\ DriverWillWake
  /\ started /\ (dpc[gen] = "loop" \/ ~runnable[gen]) => waker = gen
  /\ \A g \in Gens : g > gen => dpc[g] = "none"
  /\ \A t \in Timers : sleeper[t] => Pending(t) /\ task[t]

\* While a deadline is set, the instant of an expiry is a distance from the clock.
LEMMA TimeFacts ==
  ASSUME Types, Clocked, nextExpiry # Never
  PROVE  /\ elapsedTime \in Nat /\ elapsedTime # None /\ ElapsedTime = elapsedTime
         /\ units \in Nat \ {0} /\ units \in UnitSizes
         /\ nextExpiry \in Nat /\ elapsed <= nextExpiry /\ elapsed \in Nat /\ Deadline \in Nat
         /\ \A e \in Nat : elapsed <= e => ExpiryTime(e) = elapsedTime + (e - elapsed) * units
<1>1. /\ elapsedTime \in Nat /\ elapsedTime # None /\ ElapsedTime = elapsedTime
      /\ units \in UnitSizes /\ nextExpiry \in Nat /\ elapsed <= nextExpiry /\ elapsed \in Nat
  BY DEF Types, Clocked, ElapsedTime
<1>2. units \in Nat \ {0}
  BY <1>1, WheelAssumption
<1>3. ASSUME NEW e \in Nat, elapsed <= e
      PROVE  ExpiryTime(e) = elapsedTime + (e - elapsed) * units /\ ExpiryTime(e) \in Nat
  <2>1. (IF e > elapsed THEN e - elapsed ELSE 0) = e - elapsed /\ e - elapsed \in Nat
    BY <1>1, <1>3
  <2>2. (e - elapsed) * units \in Nat
    BY <1>2, <2>1, Times
  <2> QED
    BY <1>1, <2>1, <2>2 DEF ExpiryTime
<1> QED
  BY <1>1, <1>2, <1>3 DEF Deadline

\* A step that takes timers out, or none, and leaves the clock alone.
LEMMA Fewer ==
  ASSUME WheelInv, Types', UNCHANGED <<elapsed, elapsedTime, units, nextExpiry>>, now <= now',
         \A t \in Timers : Pending(t)' =>
           /\ Pending(t) /\ bucket[t].off \in occupied'[bucket[t].lvl]
           /\ bucket'[t] = bucket[t] /\ expiry'[t] = expiry[t] /\ due'[t] = due[t]
           /\ clamped'[t] = clamped[t]
  PROVE  WheelInv'
<1>1. Clocked'
  BY DEF WheelInv, Types, Clocked
<1>2. ASSUME NEW t \in Timers, Pending(t)' PROVE Linked(t)' /\ (~clamped'[t] => OnTime(t)')
  <2>1. Linked(t) /\ (~clamped[t] => OnTime(t)) /\ Clocked
    BY <1>2 DEF WheelInv
  <2>2. Linked(t)'
    BY <1>2, <2>1 DEF Linked
  <2>3. elapsedTime # None
    BY <2>1 DEF Linked, Clocked
  <2>4. ElapsedTime' = ElapsedTime
    BY <2>3 DEF ElapsedTime
  <2>5. ExpiryTime(expiry[t])' = ExpiryTime(expiry[t])
    BY <1>2, <2>4 DEF ExpiryTime
  <2>6. ~clamped'[t] => OnTime(t)'
    BY <1>2, <2>1, <2>5 DEF OnTime
  <2> QED
    BY <2>2, <2>6
<1> QED
  BY <1>1, <1>2 DEF WheelInv

\* A step that leaves the timers and the clock alone.
LEMMA SameWheel ==
  ASSUME WheelInv, Types', now <= now',
         UNCHANGED <<elapsed, elapsedTime, units, nextExpiry, occupied, bucket, due, expiry, clamped>>
  PROVE  WheelInv'
<1>1. \A t \in Timers : Pending(t)' => Pending(t) /\ Linked(t)
  BY DEF Pending, WheelInv
<1>2. \A t \in Timers : Pending(t)' =>
        /\ Pending(t) /\ bucket[t].off \in occupied'[bucket[t].lvl]
        /\ bucket'[t] = bucket[t] /\ expiry'[t] = expiry[t] /\ due'[t] = due[t]
        /\ clamped'[t] = clamped[t]
  BY <1>1 DEF Linked
<1> QED
  BY <1>2, Fewer

\* link() and unlink(): the bits of the buckets of the other timers stay.
LEMMA RelinkFacts ==
  ASSUME Types, NEW t \in Timers, NEW to
  PROVE  /\ Relinked(t, to) \in [Levels -> SUBSET (0..LvlSize - 1)]
         /\ \A u \in Timers \ {t} : Pending(u) /\ bucket[u].off \in occupied[bucket[u].lvl] =>
              bucket[u].off \in Relinked(t, to)[bucket[u].lvl]
         /\ to \in Buckets => to.off \in Relinked(t, to)[to.lvl]
<1>1. Relinked(t, to) \in [Levels -> SUBSET (0..LvlSize - 1)]
  BY DEF Relinked
<1>2. ASSUME NEW u \in Timers \ {t}, Pending(u), bucket[u].off \in occupied[bucket[u].lvl]
      PROVE  bucket[u].off \in Relinked(t, to)[bucket[u].lvl]
  <2>1. bucket[u] \in Buckets
    BY <1>2 DEF Types, Pending
  <2>2. /\ bucket[u].lvl \in Levels /\ bucket[u].off \in 0..(LvlSize - 1)
        /\ bucket[u] = [lvl |-> bucket[u].lvl, off |-> bucket[u].off]
    BY <2>1 DEF Buckets
  <2>3. ~(bucket[t] = [lvl |-> bucket[u].lvl, off |-> bucket[u].off] /\
          \A v \in Timers \ {t} : bucket[v] # bucket[t])
    BY <1>2, <2>2
  <2> QED
    BY <1>2, <2>2, <2>3 DEF Relinked
<1>3. ASSUME to \in Buckets PROVE to.off \in Relinked(t, to)[to.lvl]
  <2>1. to.lvl \in Levels /\ to.off \in 0..(LvlSize - 1) /\ to = [lvl |-> to.lvl, off |-> to.off]
    BY <1>3 DEF Buckets
  <2> QED
    BY <2>1 DEF Relinked
<1> QED
  BY <1>1, <1>2, <1>3

\* A timer that has elapsed, or whose handle is gone, is in no bucket.
LEMMA NotBuckets == Elapsed \notin Buckets /\ Gone \notin Buckets /\ Elapsed # Gone
BY LevelsNat DEF Elapsed, Gone, Buckets, Levels

\* A tick of a level has a bucket of that level.
LEMMA PlaceIn == ASSUME NEW l \in Levels, NEW n \in Nat PROVE Place(l, n) \in Buckets
<1>1. n \in Int /\ LvlSize \in Nat \ {0}
  BY LevelsAssumption
<1>2. n % LvlSize \in 0..LvlSize - 1
  BY <1>1, DivMod
<1> QED
  BY <1>2 DEF Place, Buckets

\* The wheel starts empty, without a driver.
LEMMA WheelInit == Init => WheelInv /\ DriverInv
<1> SUFFICES ASSUME Init PROVE WheelInv /\ DriverInv
  OBVIOUS
<1>1. \A t \in Timers : ~Pending(t)
  BY DEF Init, Pending
<1>2. Types
  <2>1. gen \in Gens /\ None \in Int
    BY WheelAssumption DEF Init, Gens, None
  <2>2. armed \in [Gens -> Int] /\ sleep \in [Gens -> Sleeps]
    BY <2>1 DEF Init, Sleeps
  <2>3. occupied \in [Levels -> SUBSET (0..LvlSize - 1)]
    BY DEF Init
  <2>4. /\ now \in Nat /\ elapsed \in Nat /\ elapsedTime \in Nat \cup {None}
        /\ units \in UnitSizes \cup {None} /\ nextExpiry \in Nat \cup {Never}
        /\ dnow \in Nat /\ dnow <= now
    BY DEF Init
  <2>5. bucket \in [Timers -> Buckets \cup {Elapsed, Gone}]
    BY DEF Init
  <2>6. /\ task \in [Timers -> BOOLEAN] /\ started \in BOOLEAN /\ waker \in Gens \cup {None}
        /\ dpc \in [Gens -> {"none", "parked", "loop"}] /\ runnable \in [Gens -> BOOLEAN]
        /\ due \in [Timers -> Nat] /\ expiry \in [Timers -> Nat] /\ clamped \in [Timers -> BOOLEAN]
        /\ sleeper \in [Timers -> BOOLEAN]
    BY DEF Init
  <2> QED
    BY <2>1, <2>2, <2>3, <2>4, <2>5, <2>6 DEF Types
<1>3. Clocked
  BY DEF Init, Clocked
<1>4. DriverInv
  BY <1>2 DEF Init, Types, DriverInv, DriverWillWake
<1> QED
  BY <1>1, <1>2, <1>3, <1>4 DEF WheelInv

-----------------------------------------------------------------------------
(* Operations on timers. *)

\* What a delay becomes, in units of the wheel: the instant that it asks for is in
\* the unit that it is rounded down to.
LEMMA DelayFacts ==
  ASSUME NEW past \in Nat, NEW ms \in Nat, NEW u \in Nat \ {0}, NEW delta,
         delta = (past + ms) \div u
  PROVE  delta \in Nat /\ delta * u <= past + ms /\ past + ms < (delta + 1) * u
<1> DEFINE a == past + ms
           r == a % u
<1>1. a \in Nat /\ a \in Int
  OBVIOUS
<1>2. delta = a \div u
  OBVIOUS
<1> HIDE DEF a
<1>3. delta \in Int /\ r \in 0..u - 1 /\ a = u * delta + r
  BY <1>1, <1>2, DivMod
<1> HIDE DEF r
<1>4. delta \in Nat
  BY <1>1, <1>3
<1>5. delta * u = u * delta /\ (delta + 1) * u = u * delta + u /\ u * delta \in Nat
  BY <1>4
<1>6. delta * u <= a /\ a < (delta + 1) * u
  BY <1>1, <1>3, <1>5
<1> QED
  BY <1>4, <1>6 DEF a

\* calc_bucket() and update_next_expiry() of a delay; time is that of the clock.
LEMMA ArmOnTime ==
  ASSUME NEW start \in Nat, NEW time \in Nat, NEW e \in Nat, NEW ms \in Nat, NEW u \in Nat \ {0},
         NEW g \in Nat \ {0}, NEW at \in Nat, time <= at, NEW delta,
         delta = ((at - time) + ms) \div u,
         start + delta < e, e <= start + delta + g
  PROVE  /\ time + (e - start) * u > at + ms
         /\ time + (e - start) * u <= at + ms + g * u + (u - 1)
<1> DEFINE past == at - time
           d == e - start
<1>1. past \in Nat
  OBVIOUS
<1>2. delta \in Nat /\ delta * u <= past + ms /\ past + ms < (delta + 1) * u
  <2>1. delta = (past + ms) \div u
    OBVIOUS
  <2> HIDE DEF past
  <2> QED
    BY <1>1, <2>1, DelayFacts
<1>3. d \in Nat /\ delta + 1 <= d /\ d <= delta + g
  BY <1>2
<1>4. at = time + past
  OBVIOUS
<1> HIDE DEF past, d
<1>5. (delta + 1) * u <= d * u /\ d * u \in Nat
  BY <1>2, <1>3, Times
<1>6. d * u <= (delta + g) * u
  BY <1>2, <1>3, Times
<1>7. (delta + g) * u = delta * u + g * u /\ delta * u \in Nat /\ g * u \in Nat /\ (delta + 1) * u \in Nat
  BY <1>2
<1>8. time + d * u > at + ms
  BY <1>1, <1>2, <1>4, <1>5, <1>7
<1>9. time + d * u <= at + ms + g * u + (u - 1)
  BY <1>1, <1>2, <1>4, <1>5, <1>6, <1>7
<1> QED
  BY <1>8, <1>9 DEF d

\* update_next_expiry(): the deadline becomes the earlier one, and the driver will
\* look at it.
LEMMA UpdateFacts ==
  ASSUME Types, DriverWillWake, started /\ ~runnable[gen] => waker = gen, Idle,
         \A g \in Gens : g > gen => dpc[g] = "none",
         NEW e \in Nat, NEW u \in Nat \ {0}, elapsed <= e, UpdateNextExpiry(e, u),
         UNCHANGED <<gen, elapsed>>, ElapsedTime \in Nat, ElapsedTime' = ElapsedTime,
         nextExpiry # Never => units' = units
  PROVE  /\ nextExpiry' = IF nextExpiry # Never /\ e >= nextExpiry THEN nextExpiry ELSE e
         /\ started' \in BOOLEAN /\ waker' \in Gens \cup {None} /\ dnow' = dnow
         /\ dpc' \in [Gens -> {"none", "parked", "loop"}] /\ runnable' \in [Gens -> BOOLEAN]
         /\ armed' \in [Gens -> Int] /\ sleep' \in [Gens -> Sleeps]
         /\ DriverWillWake' /\ Idle'
         /\ started' /\ ~runnable'[gen] => waker' = gen
         /\ \A g \in Gens : g > gen => dpc'[g] = "none"
<1>0. /\ gen \in Gens /\ gen \in Nat /\ now \in Nat /\ elapsed \in Nat
      /\ armed \in [Gens -> Int] /\ sleep \in [Gens -> Sleeps] /\ runnable \in [Gens -> BOOLEAN]
      /\ dpc \in [Gens -> {"none", "parked", "loop"}] /\ waker \in Gens \cup {None}
      /\ started \in BOOLEAN
  BY DEF Types, Gens
<1>1. CASE nextExpiry # Never /\ e >= nextExpiry
  <2>1. UNCHANGED <<nextExpiry, started, waker, dpc, runnable, dnow, armed, sleep>>
    BY <1>1 DEF UpdateNextExpiry, driver
  <2>2. Deadline' = Deadline /\ Idle'
    BY <1>1, <2>1 DEF Deadline, ExpiryTime, Idle
  <2>3. DriverWillWake'
    BY <2>1, <2>2 DEF DriverWillWake
  <2> QED
    BY <1>0, <1>1, <2>1, <2>2, <2>3
<1>2. CASE ~(nextExpiry # Never /\ e >= nextExpiry) /\ started
  <2>1. /\ nextExpiry' = e /\ started' = TRUE
        /\ runnable' = [g \in Gens |-> runnable[g] \/ g = waker]
        /\ waker' = None /\ UNCHANGED <<dpc, dnow, armed, sleep>>
    BY <1>2 DEF UpdateNextExpiry
  <2>2. runnable'[gen] /\ runnable' \in [Gens -> BOOLEAN]
    BY <1>0, <1>2, <2>1
  <2>3. Idle' /\ dpc[gen] = "parked"
    BY <1>0, <1>2, <2>1 DEF Idle, DriverWillWake
  <2>4. DriverWillWake'
    BY <2>1, <2>2, <2>3 DEF DriverWillWake
  <2> QED
    BY <1>0, <1>2, <2>1, <2>2, <2>3, <2>4
<1>3. CASE ~(nextExpiry # Never /\ e >= nextExpiry) /\ ~started
  <2> DEFINE deadline == ElapsedTime + (e - elapsed) * u
  <2>1. /\ nextExpiry' = e /\ started' = TRUE
        /\ dpc' = [dpc EXCEPT ![gen] = "parked"]
        /\ runnable' = [runnable EXCEPT ![gen] = TRUE]
        /\ armed' = [armed EXCEPT ![gen] = deadline]
        /\ sleep' = [sleep EXCEPT ![gen] = SleepFor(deadline - now)]
        /\ UNCHANGED <<waker, dnow>>
    BY <1>3 DEF UpdateNextExpiry
  <2>2. deadline \in Int
    <3>1. e - elapsed \in Nat
      BY <1>0
    <3>2. (e - elapsed) * u \in Nat
      BY <3>1, Times
    <3> QED
      BY <3>2
  <2> HIDE DEF deadline
  <2>3. SleepFor(deadline - now) \in Sleeps
    BY <1>0, <2>2 DEF SleepFor, Sleeps
  <2>4. runnable'[gen] /\ dpc'[gen] = "parked" /\ Idle'
    BY <1>0, <2>1 DEF Idle
  <2>5. DriverWillWake'
    BY <2>1, <2>4 DEF DriverWillWake
  <2>6. \A g \in Gens : g > gen => dpc'[g] = "none"
    BY <1>0, <2>1 DEF Gens
  <2> QED
    BY <1>0, <1>3, <2>1, <2>2, <2>3, <2>4, <2>5, <2>6
<1> QED
  BY <1>0, <1>1, <1>2, <1>3

\* A delay is added, or a timer is moved to a new one.
LEMMA ArmKeeps ==
  ASSUME WheelInv, DriverInv, Idle, NEW t \in Timers, NEW ms \in Delays, Arm(t, ms),
         UNCHANGED <<now, elapsed, task, gen, sleeper>>
  PROVE  WheelInv' /\ DriverInv'
<1>0. Types /\ Clocked
  BY DEF WheelInv
<1>1. PICK u \in (IF units = None THEN UnitSizes ELSE {units}) :
        LET delta == ((now - ElapsedTime) + ms) \div u
            goal == CalcWheelIndex(elapsed, delta)
        IN /\ units' = u /\ elapsedTime' = ElapsedTime
           /\ bucket' = [bucket EXCEPT ![t] = goal.place]
           /\ occupied' = Relinked(t, goal.place)
           /\ due' = [due EXCEPT ![t] = now + ms]
           /\ expiry' = [expiry EXCEPT ![t] = goal.expiry]
           /\ clamped' = [clamped EXCEPT ![t] = delta >= TimeoutCutoff]
           /\ UpdateNextExpiry(goal.expiry, u)
  BY DEF Arm
<1> DEFINE time == ElapsedTime
           delta == ((now - ElapsedTime) + ms) \div u
           goal == CalcWheelIndex(elapsed, delta)
           p == goal.place
           e == goal.expiry
<1>2. /\ units' = u /\ elapsedTime' = time /\ bucket' = [bucket EXCEPT ![t] = p]
      /\ occupied' = Relinked(t, p) /\ due' = [due EXCEPT ![t] = now + ms]
      /\ expiry' = [expiry EXCEPT ![t] = e]
      /\ clamped' = [clamped EXCEPT ![t] = delta >= TimeoutCutoff]
      /\ UpdateNextExpiry(e, u)
  BY <1>1
<1>3. /\ u \in UnitSizes /\ u \in Nat \ {0} /\ u # None /\ (units # None => u = units)
      /\ ms \in Nat /\ elapsed \in Nat /\ now \in Nat
  BY <1>0, <1>1, WheelAssumption DEF Types, None
<1>4. /\ time \in Nat /\ time <= now /\ time # None /\ (elapsedTime # None => time = elapsedTime)
      /\ ElapsedTime' = time
  BY <1>0, <1>2 DEF Types, Clocked, ElapsedTime, None
<1> HIDE DEF time
<1>5. delta = ((now - time) + ms) \div u
  BY DEF time
<1>6. delta \in Nat
  <2>1. now - time \in Nat
    BY <1>3, <1>4
  <2> HIDE DEF delta
  <2> QED
    BY <1>3, <1>5, <2>1, DelayFacts
<1> HIDE DEF delta
<1>7. PICK l \in Levels, n \in Nat :
        /\ p = Place(l, n) /\ e = n * Gran(l)
        /\ elapsed < e /\ e < elapsed + LvlSize * Gran(l)
        /\ delta < TimeoutCutoff => elapsed + delta < e /\ e <= elapsed + delta + Gran(l)
  BY <1>3, <1>6, IndexFacts
<1> HIDE DEF p, e, goal
<1>8. e \in Nat /\ p \in Buckets /\ p.lvl = l /\ Gran(l) \in Nat \ {0}
  BY <1>7, GranFacts, PlaceIn, Times DEF Place
<1>9. /\ nextExpiry' = (IF nextExpiry # Never /\ e >= nextExpiry THEN nextExpiry ELSE e)
      /\ started' \in BOOLEAN /\ waker' \in Gens \cup {None} /\ dnow' = dnow
      /\ dpc' \in [Gens -> {"none", "parked", "loop"}] /\ runnable' \in [Gens -> BOOLEAN]
      /\ armed' \in [Gens -> Int] /\ sleep' \in [Gens -> Sleeps]
      /\ DriverWillWake' /\ Idle'
      /\ started' /\ ~runnable'[gen] => waker' = gen
      /\ \A g \in Gens : g > gen => dpc'[g] = "none"
  <2>1. /\ DriverWillWake /\ (started /\ ~runnable[gen] => waker = gen)
        /\ \A g \in Gens : g > gen => dpc[g] = "none"
    BY DEF DriverInv
  <2>2. nextExpiry # Never => units' = units
    BY <1>0, <1>2, <1>3 DEF Clocked
  <2>3. ElapsedTime \in Nat /\ ElapsedTime' = ElapsedTime /\ elapsed <= e
    BY <1>3, <1>4, <1>7, <1>8 DEF time
  <2> QED
    BY <1>0, <1>2, <1>3, <1>8, <2>1, <2>2, <2>3, UpdateFacts
<1>10. nextExpiry' \in Nat /\ nextExpiry' # Never /\ nextExpiry' <= e /\ elapsed <= nextExpiry'
       /\ (nextExpiry # Never => nextExpiry' <= nextExpiry)
  BY <1>0, <1>3, <1>7, <1>8, <1>9 DEF Types, Clocked, Never
<1>11. Types'
  <2>1. occupied' \in [Levels -> SUBSET (0..LvlSize - 1)]
    BY <1>0, <1>2, RelinkFacts
  <2>2. bucket' \in [Timers -> Buckets \cup {Elapsed, Gone}]
    BY <1>0, <1>2, <1>8 DEF Types
  <2>3. due' \in [Timers -> Nat] /\ expiry' \in [Timers -> Nat] /\ clamped' \in [Timers -> BOOLEAN]
    BY <1>0, <1>2, <1>3, <1>8 DEF Types
  <2>4. /\ elapsedTime' \in Nat \cup {None} /\ units' \in UnitSizes \cup {None}
        /\ nextExpiry' \in Nat \cup {Never}
    BY <1>2, <1>3, <1>4, <1>10
  <2> QED
    BY <1>0, <1>9, <2>1, <2>2, <2>3, <2>4 DEF Types
<1>12. Clocked'
  BY <1>2, <1>3, <1>4, <1>10 DEF Clocked
<1>13. ASSUME NEW v \in Timers \ {t}, Pending(v)' PROVE Linked(v)' /\ (~clamped'[v] => OnTime(v)')
  <2>1. /\ bucket'[v] = bucket[v] /\ expiry'[v] = expiry[v] /\ due'[v] = due[v]
        /\ clamped'[v] = clamped[v]
    BY <1>0, <1>2 DEF Types
  <2>2. Pending(v)
    BY <1>13, <2>1 DEF Pending
  <2>3. Linked(v) /\ (~clamped[v] => OnTime(v))
    BY <2>2 DEF WheelInv
  <2>4. bucket[v].off \in occupied'[bucket[v].lvl]
    BY <1>0, <1>2, <2>2, <2>3, RelinkFacts DEF Linked
  <2>5. nextExpiry # Never /\ nextExpiry \in Nat /\ expiry[v] \in Nat /\ nextExpiry' <= expiry[v]
    BY <1>0, <1>10, <2>3 DEF Linked, Types
  <2>6. Linked(v)'
    BY <1>10, <2>1, <2>3, <2>4, <2>5 DEF Linked
  <2>7. units' = units /\ ElapsedTime' = ElapsedTime
    BY <1>0, <1>2, <1>3, <1>4, <2>5 DEF Clocked, time
  <2>8. ExpiryTime(expiry[v])' = ExpiryTime(expiry[v])
    BY <2>1, <2>7 DEF ExpiryTime
  <2>9. ~clamped'[v] => OnTime(v)'
    BY <2>1, <2>3, <2>7, <2>8 DEF OnTime
  <2> QED
    BY <2>6, <2>9
<1>14. Linked(t)' /\ (~clamped'[t] => OnTime(t)') /\ Pending(t)'
  <2>1. bucket'[t] = p /\ expiry'[t] = e /\ due'[t] = now + ms /\ (clamped'[t] <=> delta >= TimeoutCutoff)
    BY <1>0, <1>2 DEF Types
  <2>2. p.off \in occupied'[p.lvl]
    BY <1>0, <1>2, <1>8, RelinkFacts
  <2>3. Linked(t)'
    BY <1>3, <1>7, <1>8, <1>10, <2>1, <2>2 DEF Linked
  <2>4. Pending(t)'
    BY <1>8, <2>1, NotBuckets DEF Pending
  <2>5. ExpiryTime(expiry[t])' = time + (e - elapsed) * u
    <3>1. e > elapsed
      BY <1>3, <1>7, <1>8
    <3> QED
      BY <1>2, <1>4, <3>1, <2>1 DEF ExpiryTime
  <2>6. ASSUME ~clamped'[t] PROVE OnTime(t)'
    <3>1. delta < TimeoutCutoff
      <4>1. TimeoutCutoff \in Int
        <5>1. LvlDepth - 1 \in Levels /\ LvlSize - 1 \in Nat
          BY LevelsNat, LevelsAssumption
        <5>2. Gran(LvlDepth - 1) \in Nat
          BY <5>1, GranFacts
        <5> QED
          BY <5>1, <5>2, Times DEF TimeoutCutoff, LvlStart
      <4> QED
        BY <1>6, <2>1, <2>6, <4>1
    <3>2. elapsed + delta < e /\ e <= elapsed + delta + Gran(l)
      BY <1>7, <3>1
    <3>3. /\ time + (e - elapsed) * u > now + ms
          /\ time + (e - elapsed) * u <= now + ms + Gran(l) * u + (u - 1)
      BY <1>3, <1>4, <1>5, <1>8, <3>2, ArmOnTime
    <3> QED
      BY <1>2, <1>8, <2>1, <2>5, <3>3 DEF OnTime
  <2> QED
    BY <2>3, <2>4, <2>6
<1>15. WheelInv'
  BY <1>11, <1>12, <1>13, <1>14 DEF WheelInv
<1>16. ASSUME NEW v \in Timers, sleeper'[v] PROVE Pending(v)' /\ task'[v]
  <2>1. Pending(v) /\ task[v]
    BY <1>16 DEF DriverInv
  <2>2. CASE v # t
    BY <1>0, <1>2, <2>1, <2>2 DEF Types, Pending
  <2>3. CASE v = t
    BY <1>14, <2>1, <2>3
  <2> QED
    BY <2>2, <2>3
<1>17. DriverInv'
  BY <1>9, <1>16 DEF DriverInv, Idle
<1> QED
  BY <1>15, <1>17

\* The history of a timer that stays is kept.
LEMMA ForgetFacts ==
  ASSUME Types, NEW S, Forget(S)
  PROVE  /\ due' \in [Timers -> Nat] /\ expiry' \in [Timers -> Nat] /\ clamped' \in [Timers -> BOOLEAN]
         /\ \A t \in Timers : t \notin S =>
              due'[t] = due[t] /\ expiry'[t] = expiry[t] /\ clamped'[t] = clamped[t]
BY DEF Forget, Types

\* A timer leaves the wheel: remove_timer() and the drop of a handle.
LEMMA LeavesKeeps ==
  ASSUME WheelInv, DriverInv, NEW t \in Timers, NEW to \in {Elapsed, Gone},
         bucket' = [bucket EXCEPT ![t] = to], occupied' = Relinked(t, to), Forget({t}),
         task' = [task EXCEPT ![t] = FALSE], sleeper' \in [Timers -> BOOLEAN], ~sleeper'[t],
         \A u \in Timers \ {t} : sleeper'[u] = sleeper[u],
         UNCHANGED <<now, clock, nextExpiry, started, gen, waker, driver>>
  PROVE  WheelInv' /\ DriverInv'
<1>0. Types
  BY DEF WheelInv
<1>1. Types'
  BY <1>0, ForgetFacts, RelinkFacts DEF Types, clock, driver
<1>2. bucket'[t] = to /\ \A u \in Timers \ {t} : bucket'[u] = bucket[u]
  BY <1>0 DEF Types
<1>3. ASSUME NEW u \in Timers, Pending(u)'
      PROVE  /\ u # t /\ Pending(u) /\ bucket[u].off \in occupied'[bucket[u].lvl]
             /\ bucket'[u] = bucket[u] /\ expiry'[u] = expiry[u] /\ due'[u] = due[u]
             /\ clamped'[u] = clamped[u]
  <2>1. u # t
    BY <1>2, <1>3 DEF Pending
  <2>2. Pending(u) /\ bucket'[u] = bucket[u]
    BY <1>2, <1>3, <2>1 DEF Pending
  <2>3. bucket[u].off \in occupied[bucket[u].lvl]
    BY <2>2 DEF WheelInv, Linked
  <2>4. bucket[u].off \in occupied'[bucket[u].lvl]
    BY <1>0, <2>1, <2>2, <2>3, RelinkFacts
  <2>5. due'[u] = due[u] /\ expiry'[u] = expiry[u] /\ clamped'[u] = clamped[u]
    BY <1>0, <2>1, ForgetFacts
  <2> QED
    BY <2>1, <2>2, <2>4, <2>5
<1>4. WheelInv'
  <2>1. now <= now' /\ UNCHANGED <<elapsed, elapsedTime, units, nextExpiry>>
    BY <1>0 DEF clock, Types
  <2> QED
    BY <1>1, <1>3, <2>1, Fewer
<1>5. ASSUME NEW u \in Timers, sleeper'[u] PROVE Pending(u)' /\ task'[u]
  <2>1. u # t /\ sleeper[u]
    BY <1>5
  <2> QED
    BY <1>0, <1>2, <2>1 DEF DriverInv, Types, Pending
<1>6. DriverWillWake'
  <2>1. ElapsedTime' = ElapsedTime /\ UNCHANGED <<elapsed, units, nextExpiry, gen, started>>
    BY DEF clock, ElapsedTime
  <2>2. Deadline' = Deadline
    BY <2>1 DEF Deadline, ExpiryTime
  <2> QED
    BY <2>1, <2>2 DEF DriverInv, DriverWillWake, Idle, driver
<1>7. DriverInv'
  BY <1>5, <1>6 DEF DriverInv, driver
<1> QED
  BY <1>4, <1>7

\* Every operation of a handle keeps the invariant.
LEMMA TimerKeeps ==
  ASSUME WheelInv, DriverInv, NEW t \in Timers,
         \/ \E ms \in Delays : AddTimer(t, ms) \/ ResetTimer(t, ms)
         \/ AddElapsed(t) \/ RemoveTimer(t) \/ PollElapsed(t) \/ DropHandle(t)
  PROVE  WheelInv' /\ DriverInv'
<1>0. Types
  BY DEF WheelInv
<1>1. ASSUME NEW ms \in Delays, AddTimer(t, ms) \/ ResetTimer(t, ms) PROVE WheelInv' /\ DriverInv'
  <2>1. Idle /\ Arm(t, ms) /\ UNCHANGED <<now, elapsed, task, gen, sleeper>>
    BY <1>1 DEF AddTimer, ResetTimer
  <2> QED
    BY <2>1, ArmKeeps
<1>2. CASE AddElapsed(t)
  <2>1. /\ bucket[t] = Gone /\ bucket' = [bucket EXCEPT ![t] = Elapsed]
        /\ UNCHANGED <<now, clock, nextExpiry, occupied, task, started, gen, waker, driver, history>>
    BY <1>2 DEF AddElapsed
  <2>2. Types'
    BY <1>0, <2>1 DEF Types, clock, driver, history
  <2>3. \A u \in Timers : Pending(u)' <=> Pending(u)
    BY <1>0, <2>1 DEF Types, Pending
  <2>4. \A u \in Timers : Pending(u)' =>
          /\ Pending(u) /\ bucket[u].off \in occupied'[bucket[u].lvl]
          /\ bucket'[u] = bucket[u] /\ expiry'[u] = expiry[u] /\ due'[u] = due[u]
          /\ clamped'[u] = clamped[u]
    <3> SUFFICES ASSUME NEW u \in Timers, Pending(u)
                 PROVE  /\ bucket[u].off \in occupied'[bucket[u].lvl]
                        /\ bucket'[u] = bucket[u] /\ expiry'[u] = expiry[u] /\ due'[u] = due[u]
                        /\ clamped'[u] = clamped[u]
      BY <2>3
    <3>1. u # t
      BY <2>1 DEF Pending
    <3> QED
      BY <1>0, <2>1, <3>1 DEF WheelInv, Linked, Types, history
  <2>5. WheelInv'
    <3>1. now <= now' /\ UNCHANGED <<elapsed, elapsedTime, units, nextExpiry>>
      BY <1>0, <2>1 DEF clock, Types
    <3> QED
      BY <2>2, <2>4, <3>1, Fewer
  <2>6. DriverWillWake'
    <3>1. ElapsedTime' = ElapsedTime /\ UNCHANGED <<elapsed, units, nextExpiry, gen, started>>
      BY <2>1 DEF clock, ElapsedTime
    <3>2. Deadline' = Deadline
      BY <3>1 DEF Deadline, ExpiryTime
    <3> QED
      BY <2>1, <3>1, <3>2 DEF DriverInv, DriverWillWake, Idle, driver
  <2>7. DriverInv'
    BY <2>1, <2>3, <2>6 DEF DriverInv, driver, history
  <2> QED
    BY <2>5, <2>7
<1>3. CASE RemoveTimer(t)
  <2>1. /\ bucket' = [bucket EXCEPT ![t] = Elapsed] /\ occupied' = Relinked(t, Elapsed) /\ Forget({t})
        /\ task' = [task EXCEPT ![t] = FALSE] /\ sleeper' = [sleeper EXCEPT ![t] = @ /\ ~task[t]]
        /\ UNCHANGED <<now, clock, nextExpiry, started, gen, waker, driver>>
    BY <1>3 DEF RemoveTimer
  <2>2. sleeper[t] => task[t]
    BY DEF DriverInv
  <2>3. /\ sleeper' \in [Timers -> BOOLEAN] /\ ~sleeper'[t]
        /\ \A u \in Timers \ {t} : sleeper'[u] = sleeper[u]
    BY <1>0, <2>1, <2>2 DEF Types
  <2> QED
    BY <2>1, <2>3, LeavesKeeps
<1>4. CASE PollElapsed(t)
  <2>1. /\ task' = [task EXCEPT ![t] = TRUE] /\ sleeper' = [sleeper EXCEPT ![t] = TRUE] /\ Pending(t)
        /\ UNCHANGED <<now, clock, nextExpiry, occupied, bucket, started, gen, waker, driver, due,
                       expiry, clamped>>
    BY <1>4 DEF PollElapsed
  <2>2. Types'
    BY <1>0, <2>1 DEF Types, clock, driver
  <2>3. WheelInv'
    <3>1. now <= now' /\ UNCHANGED <<elapsed, elapsedTime, units>>
      BY <1>0, <2>1 DEF clock, Types
    <3> QED
      BY <2>1, <2>2, <3>1, SameWheel
  <2>4. DriverWillWake'
    <3>1. ElapsedTime' = ElapsedTime /\ UNCHANGED <<elapsed, units, nextExpiry, gen, started>>
      BY <2>1 DEF clock, ElapsedTime
    <3>2. Deadline' = Deadline
      BY <3>1 DEF Deadline, ExpiryTime
    <3> QED
      BY <2>1, <3>1, <3>2 DEF DriverInv, DriverWillWake, Idle, driver
  <2>5. ASSUME NEW u \in Timers, sleeper'[u] PROVE Pending(u)' /\ task'[u]
    BY <1>0, <2>1, <2>5 DEF Types, DriverInv, Pending
  <2>6. DriverInv'
    BY <2>1, <2>4, <2>5 DEF DriverInv, driver
  <2> QED
    BY <2>3, <2>6
<1>5. CASE DropHandle(t)
  <2>1. /\ bucket' = [bucket EXCEPT ![t] = Gone] /\ occupied' = Relinked(t, Gone) /\ Forget({t})
        /\ task' = [task EXCEPT ![t] = FALSE] /\ sleeper' = [sleeper EXCEPT ![t] = FALSE]
        /\ UNCHANGED <<now, clock, nextExpiry, started, gen, waker, driver>>
    BY <1>5 DEF DropHandle
  <2>2. /\ sleeper' \in [Timers -> BOOLEAN] /\ ~sleeper'[t]
        /\ \A u \in Timers \ {t} : sleeper'[u] = sleeper[u]
    BY <1>0, <2>1 DEF Types
  <2> QED
    BY <2>1, <2>2, LeavesKeeps
<1> QED
  BY <1>1, <1>2, <1>3, <1>4, <1>5

-----------------------------------------------------------------------------
(* The driver and its environment. *)

\* The deadline moves only with the clock.
LEMMA DeadlineKept ==
  ASSUME UNCHANGED <<elapsed, elapsedTime, units, nextExpiry>>, Clocked, nextExpiry # Never
  PROVE  Deadline' = Deadline
BY DEF Deadline, ExpiryTime, ElapsedTime, Clocked

\* The driver registers its waker and reads the time; an outdated one returns.
LEMMA PollKeeps ==
  ASSUME WheelInv, DriverInv, NEW g \in Gens, DriverPoll(g) PROVE WheelInv' /\ DriverInv'
<1>0. Types
  BY DEF WheelInv
<1>1. /\ dpc[g] = "parked" /\ Idle /\ runnable' = [runnable EXCEPT ![g] = FALSE]
      /\ IF g = gen THEN dpc' = [dpc EXCEPT ![g] = "loop"] /\ waker' = g /\ dnow' = now
         ELSE dpc' = [dpc EXCEPT ![g] = "none"] /\ UNCHANGED <<waker, dnow>>
      /\ UNCHANGED <<now, elapsed, elapsedTime, units, nextExpiry, occupied, bucket, task, started,
                     gen, armed, sleep, due, expiry, clamped, sleeper>>
  BY DEF DriverPoll, clock, wheel, history
<1>2. Types'
  BY <1>0, <1>1 DEF Types
<1>3. WheelInv'
  <2>1. now <= now'
    BY <1>0, <1>1 DEF Types
  <2> QED
    BY <1>1, <1>2, <2>1, SameWheel
<1>4. gen \in Gens /\ \A h \in Gens : h > gen => dpc'[h] = "none"
  <2>1. gen \in Gens /\ Gens \subseteq Nat /\ \A h \in Gens : h > gen => dpc[h] = "none"
    BY <1>0 DEF Types, DriverInv, Gens
  <2> QED
    BY <1>0, <1>1, <2>1 DEF Types
<1>5. CASE g = gen
  <2>1. dpc'[gen] = "loop" /\ waker' = gen /\ dpc[gen] = "parked"
    BY <1>0, <1>1, <1>5 DEF Types
  <2>2. DriverWillWake'
    BY <1>1, <2>1 DEF DriverInv, DriverWillWake, Idle
  <2> QED
    BY <1>1, <1>3, <1>4, <2>1, <2>2 DEF DriverInv, Pending
<1>6. CASE g # gen
  <2>1. dpc'[gen] = dpc[gen] /\ waker' = waker /\ runnable'[gen] = runnable[gen]
    BY <1>0, <1>1, <1>4, <1>6 DEF Types
  <2>2. nextExpiry # Never => Deadline' = Deadline
    BY <1>1, DeadlineKept DEF WheelInv
  <2>3. DriverWillWake'
    BY <1>1, <2>1, <2>2 DEF DriverInv, DriverWillWake, Idle
  <2> QED
    BY <1>1, <1>3, <1>4, <2>1, <2>3 DEF DriverInv, Pending
<1> QED
  BY <1>5, <1>6

\* The driver parks: there is nothing to wait for.
LEMMA EmptyKeeps ==
  ASSUME WheelInv, DriverInv, DriverEmpty PROVE WheelInv' /\ DriverInv'
<1>0. Types
  BY DEF WheelInv
<1>1. /\ Looping /\ nextExpiry = Never /\ dpc' = [dpc EXCEPT ![gen] = "parked"] /\ dnow' = 0
      /\ UNCHANGED <<now, elapsed, elapsedTime, units, nextExpiry, occupied, bucket, task, started,
                     gen, waker, runnable, armed, sleep, due, expiry, clamped, sleeper>>
  BY DEF DriverEmpty, clock, wheel, history
<1>2. Types'
  BY <1>0, <1>1 DEF Types
<1>3. WheelInv'
  <2>1. now <= now'
    BY <1>0, <1>1 DEF Types
  <2> QED
    BY <1>1, <1>2, <2>1, SameWheel
<1>4. dpc'[gen] = "parked" /\ gen \in Gens /\ Gens \subseteq Nat
  BY <1>0, <1>1 DEF Types, Gens
<1>5. \A h \in Gens : h > gen => dpc'[h] = "none"
  BY <1>0, <1>1, <1>4 DEF Types, DriverInv
<1>6. DriverWillWake' /\ (started => waker = gen)
  BY <1>1, <1>4 DEF DriverInv, DriverWillWake, Looping
<1> QED
  BY <1>1, <1>3, <1>4, <1>5, <1>6 DEF DriverInv, Pending

\* The driver arms its sleep for the deadline and parks, or polls it again.
LEMMA SleepKeeps ==
  ASSUME WheelInv, DriverInv, DriverSleep PROVE WheelInv' /\ DriverInv'
<1>0. Types /\ Clocked
  BY DEF WheelInv
<1> DEFINE rearmed == IF armed[gen] = Deadline THEN sleep[gen] ELSE SleepFor(Deadline - dnow)
<1>1. /\ Looping /\ nextExpiry # Never
      /\ IF rearmed.fired
         THEN /\ armed' = [armed EXCEPT ![gen] = None]
              /\ sleep' = [sleep EXCEPT ![gen] = rearmed]
              /\ UNCHANGED <<dpc, dnow>>
         ELSE /\ armed' = [armed EXCEPT ![gen] = Deadline]
              /\ sleep' = [sleep EXCEPT ![gen] = [rearmed EXCEPT !.registered = TRUE]]
              /\ dpc' = [dpc EXCEPT ![gen] = "parked"] /\ dnow' = 0
      /\ UNCHANGED <<now, elapsed, elapsedTime, units, nextExpiry, occupied, bucket, task, started,
                     gen, waker, runnable, due, expiry, clamped, sleeper>>
  BY DEF DriverSleep, clock, wheel, history
<1>2. gen \in Gens /\ Gens \subseteq Nat /\ Deadline \in Nat /\ now \in Nat /\ dnow \in Nat
  BY <1>0, <1>1, TimeFacts DEF Types, Gens
<1>3. rearmed \in Sleeps
  BY <1>0, <1>2 DEF Types, Sleeps, SleepFor
<1> HIDE DEF rearmed
<1>4. [rearmed EXCEPT !.registered = TRUE] \in Sleeps /\ [rearmed EXCEPT !.registered = TRUE].registered
  BY <1>3 DEF Sleeps
<1>5. Types'
  <2>1. armed' \in [Gens -> Int] /\ sleep' \in [Gens -> Sleeps]
    <3>0. /\ armed \in [Gens -> Int] /\ sleep \in [Gens -> Sleeps]
          /\ None \in Int /\ Deadline \in Int
      BY <1>0, <1>2 DEF Types, None
    <3>1. CASE rearmed.fired
      BY <1>1, <1>3, <3>0, <3>1
    <3>2. CASE ~rearmed.fired
      BY <1>1, <1>4, <3>0, <3>2
    <3> QED
      BY <3>1, <3>2
  <2>2. dpc' \in [Gens -> {"none", "parked", "loop"}] /\ dnow' \in Nat /\ dnow' <= now
    BY <1>0, <1>1, <1>2 DEF Types
  <2> QED
    BY <1>0, <1>1, <2>1, <2>2 DEF Types
<1>6. WheelInv'
  <2>1. now <= now'
    BY <1>1, <1>2
  <2> QED
    BY <1>1, <1>5, <2>1, SameWheel
<1>7. \A h \in Gens : h > gen => dpc'[h] = "none"
  BY <1>0, <1>1, <1>2 DEF Types, DriverInv
<1>8. waker = gen /\ started /\ (started <=> dpc[gen] # "none") /\ dpc[gen] = "loop"
  BY <1>1 DEF DriverInv, DriverWillWake, Looping
<1>9. Deadline' = Deadline
  BY <1>0, <1>1, DeadlineKept
<1>10. DriverWillWake'
  <2>1. CASE rearmed.fired
    BY <1>1, <1>8, <2>1 DEF DriverWillWake, Idle
  <2>2. CASE ~rearmed.fired
    <3>1. armed'[gen] = Deadline /\ sleep'[gen].registered /\ dpc'[gen] = "parked"
      BY <1>0, <1>1, <1>2, <1>4, <2>2 DEF Types
    <3> QED
      BY <1>1, <1>8, <1>9, <3>1 DEF DriverWillWake
  <2> QED
    BY <2>1, <2>2
<1> QED
  BY <1>1, <1>6, <1>7, <1>8, <1>10 DEF DriverInv, Pending

\* stop_wheel() empties the wheel.
LEMMA StopKeeps ==
  ASSUME Types, StopWheel
  PROVE  /\ ~started' /\ nextExpiry' = Never /\ elapsedTime' = None /\ elapsed' = 0 /\ units' = None
         /\ occupied' \in [Levels -> SUBSET (0..LvlSize - 1)]
         /\ bucket' \in [Timers -> Buckets \cup {Elapsed, Gone}] /\ task' = task
         /\ due' \in [Timers -> Nat] /\ expiry' \in [Timers -> Nat] /\ clamped' \in [Timers -> BOOLEAN]
         /\ sleeper' \in [Timers -> BOOLEAN] /\ started' \in BOOLEAN
         /\ \A t \in Timers : ~Pending(t)' /\ ~sleeper'[t]
<1>1. \A t \in Timers : bucket'[t] \in {Elapsed, Gone}
  BY DEF StopWheel, Pending, Types
<1>2. bucket' \in [Timers -> Buckets \cup {Elapsed, Gone}]
  BY DEF StopWheel, Pending, Types
<1> QED
  BY <1>1, <1>2, ForgetFacts DEF StopWheel, Pending

\* The driver task is dropped; only the current one stops the wheel.
LEMMA DropKeeps ==
  ASSUME WheelInv, DriverInv, NEW g \in Gens, DropDriver(g) PROVE WheelInv' /\ DriverInv'
<1>0. Types /\ gen \in Gens /\ Gens \subseteq Nat
  BY DEF WheelInv, Types, Gens
<1>1. /\ dpc[g] = "parked" /\ dpc' = [dpc EXCEPT ![g] = "none"] /\ Idle
      /\ UNCHANGED <<now, gen, waker, runnable, dnow, armed, sleep>>
  BY DEF DropDriver
<1>2. \A h \in Gens : h > gen => dpc'[h] = "none"
  BY <1>0, <1>1 DEF Types, DriverInv
<1>3. dpc' \in [Gens -> {"none", "parked", "loop"}]
  BY <1>0, <1>1 DEF Types
<1>4. CASE g = gen
  <2>1. StopWheel /\ dpc'[gen] = "none"
    BY <1>0, <1>1, <1>4 DEF DropDriver, Types
  <2>2. Types'
    BY <1>0, <1>1, <1>3, <2>1, StopKeeps DEF Types
  <2>3. Clocked'
    BY <2>1, <1>0, StopKeeps DEF Clocked
  <2>4. WheelInv'
    BY <1>0, <2>1, <2>2, <2>3, StopKeeps DEF WheelInv
  <2>5. DriverWillWake'
    BY <1>0, <1>1, <2>1, StopKeeps DEF DriverWillWake
  <2>6. DriverInv'
    BY <1>0, <1>1, <1>2, <2>1, <2>5, StopKeeps DEF DriverInv
  <2> QED
    BY <2>4, <2>6
<1>5. CASE g # gen
  <2>1. /\ UNCHANGED <<elapsed, elapsedTime, units, nextExpiry, occupied, bucket, task, started, due,
                       expiry, clamped, sleeper>>
        /\ dpc'[gen] = dpc[gen]
    BY <1>0, <1>1, <1>5 DEF DropDriver, clock, wheel, history, Types
  <2>2. Types'
    BY <1>0, <1>1, <1>3, <2>1 DEF Types
  <2>3. WheelInv'
    <3>1. now <= now'
      BY <1>0, <1>1 DEF Types
    <3> QED
      BY <2>1, <2>2, <3>1, SameWheel
  <2>4. nextExpiry # Never => Deadline' = Deadline
    BY <2>1, DeadlineKept DEF WheelInv
  <2>5. DriverWillWake'
    BY <1>1, <2>1, <2>4 DEF DriverInv, DriverWillWake, Idle
  <2> QED
    BY <1>1, <1>2, <2>1, <2>3, <2>5 DEF DriverInv, Pending
<1> QED
  BY <1>4, <1>5

\* A new generation starts without a driver.
LEMMA ResetKeeps ==
  ASSUME WheelInv, DriverInv, ResetWheel PROVE WheelInv' /\ DriverInv'
<1>0. Types /\ gen \in Gens /\ Gens \subseteq Nat
  BY DEF WheelInv, Types, Gens
<1>1. /\ gen' = gen + 1 /\ waker' = None /\ StopWheel /\ gen < MaxGen
      /\ UNCHANGED <<now, dpc, runnable, dnow, armed, sleep>>
  BY DEF ResetWheel, driver
<1>2. gen' \in Gens /\ gen' > gen
  BY <1>0, <1>1, WheelAssumption DEF Gens
<1>3. Types'
  BY <1>0, <1>1, <1>2, StopKeeps DEF Types
<1>4. Clocked'
  BY <1>0, <1>1, StopKeeps DEF Clocked
<1>5. WheelInv'
  BY <1>0, <1>1, <1>3, <1>4, StopKeeps DEF WheelInv
<1>6. dpc'[gen'] = "none" /\ \A h \in Gens : h > gen' => dpc'[h] = "none"
  BY <1>0, <1>1, <1>2 DEF DriverInv
<1>7. DriverWillWake'
  BY <1>0, <1>1, <1>6, StopKeeps DEF DriverWillWake
<1> QED
  BY <1>0, <1>1, <1>5, <1>6, <1>7, StopKeeps DEF DriverInv

\* Time passes.
LEMMA TickKeeps ==
  ASSUME WheelInv, DriverInv, Tick PROVE WheelInv' /\ DriverInv'
<1>0. Types
  BY DEF WheelInv
<1>1. /\ now' = now + 1
      /\ UNCHANGED <<elapsed, elapsedTime, units, nextExpiry, occupied, bucket, task, started, gen,
                     waker, dpc, runnable, dnow, armed, sleep, due, expiry, clamped, sleeper>>
  BY DEF Tick, clock, wheel, driver, history
<1>2. Types' /\ now <= now'
  BY <1>0, <1>1 DEF Types
<1>3. WheelInv'
  BY <1>1, <1>2, SameWheel
<1>4. nextExpiry # Never => Deadline' = Deadline
  BY <1>1, DeadlineKept DEF WheelInv
<1>5. DriverWillWake'
  BY <1>1, <1>4 DEF DriverInv, DriverWillWake, Idle
<1> QED
  BY <1>1, <1>3, <1>5 DEF DriverInv, Pending

\* The sleep of a driver fires and wakes it if it is registered.
LEMMA FiresKeeps ==
  ASSUME WheelInv, DriverInv, NEW g \in Gens, SleepFires(g) PROVE WheelInv' /\ DriverInv'
<1>0. Types /\ gen \in Gens
  BY DEF WheelInv, Types
<1> DEFINE f == [sleep[g] EXCEPT !.fired = TRUE, !.registered = FALSE]
<1>1. /\ sleep' = [sleep EXCEPT ![g] = f]
      /\ runnable' = [runnable EXCEPT ![g] = @ \/ sleep[g].registered]
      /\ UNCHANGED <<now, elapsed, elapsedTime, units, nextExpiry, occupied, bucket, task, started,
                     gen, waker, dpc, dnow, armed, due, expiry, clamped, sleeper>>
  <2>1. sleep' = [sleep EXCEPT ![g].fired = TRUE, ![g].registered = FALSE]
    BY DEF SleepFires
  <2>2. sleep' = [sleep EXCEPT ![g] = f]
    BY <1>0, <2>1 DEF Types
  <2> QED
    BY <2>2 DEF SleepFires, clock, wheel, history
<1>2. f \in Sleeps /\ sleep[g].registered \in BOOLEAN
  BY <1>0, ZenonT(60) DEF Types, Sleeps
<1> HIDE DEF f
<1>3. Types'
  BY <1>0, <1>1, <1>2 DEF Types
<1>4. WheelInv'
  <2>1. now <= now'
    BY <1>0, <1>1 DEF Types
  <2> QED
    BY <1>1, <1>3, <2>1, SameWheel
<1>5. nextExpiry # Never => Deadline' = Deadline
  BY <1>1, DeadlineKept DEF WheelInv
<1>6. /\ runnable[gen] => runnable'[gen]
      /\ runnable'[gen] \/ (sleep[gen].registered => sleep'[gen].registered)
  BY <1>0, <1>1, <1>2 DEF Types
<1>7. DriverWillWake'
  BY <1>1, <1>5, <1>6 DEF DriverInv, DriverWillWake, Idle
<1> QED
  BY <1>1, <1>4, <1>6, <1>7 DEF DriverInv, Pending

\* The driver drains the buckets that are due and moves the clock to the scheduled
\* time: a timer that stays keeps its instant, and the scan finds its bucket.
LEMMA ExpireKeeps ==
  ASSUME WheelInv, DriverInv, DriverExpire PROVE WheelInv' /\ DriverInv'
<1>0. Types /\ Clocked
  BY DEF WheelInv
<1> DEFINE expired == {t \in Timers : Pending(t) /\ bucket[t] \in DueBuckets(nextExpiry)}
<1>1. /\ Looping /\ nextExpiry # Never /\ Deadline <= dnow /\ elapsed' = nextExpiry
      /\ bucket' = [t \in Timers |-> IF t \in expired THEN Elapsed ELSE bucket[t]]
      /\ sleeper' = [t \in Timers |-> sleeper[t] /\ ~(t \in expired /\ task[t])]
      /\ task' = [t \in Timers |-> task[t] /\ t \notin expired]
      /\ occupied' = [l \in Levels |-> {b \in occupied[l] :
                        [lvl |-> l, off |-> b] \notin DueBuckets(nextExpiry)}]
      /\ Forget(expired)
      /\ nextExpiry' = NextPendingBucket(nextExpiry, occupied')
      /\ elapsedTime' = IF nextExpiry' = Never THEN None ELSE Deadline
      /\ UNCHANGED <<now, units, started, gen, waker, dpc, runnable, dnow, armed, sleep>>
  BY DEF DriverExpire, driver
<1>2. /\ elapsedTime \in Nat /\ units \in Nat \ {0} /\ units \in UnitSizes
      /\ nextExpiry \in Nat /\ elapsed \in Nat /\ elapsed <= nextExpiry /\ Deadline \in Nat
      /\ \A e \in Nat : elapsed <= e => ExpiryTime(e) = elapsedTime + (e - elapsed) * units
  BY <1>0, <1>1, TimeFacts
<1>3. Deadline = elapsedTime + (nextExpiry - elapsed) * units /\ Deadline <= now /\ Deadline # None
  BY <1>0, <1>1, <1>2 DEF Deadline, Types, None
<1>4. \A t \in Timers : Pending(t)' =>
        Pending(t) /\ t \notin expired /\ bucket'[t] = bucket[t] /\
        bucket[t] \notin DueBuckets(nextExpiry)
  BY <1>1 DEF Pending
<1>5. occupied' \in [Levels -> SUBSET (0..LvlSize - 1)]
  BY <1>0, <1>1 DEF Types
<1>6. /\ nextExpiry' = Never \/ (nextExpiry' \in Nat /\ nextExpiry <= nextExpiry')
      /\ \A l \in Levels : \A b \in occupied'[l] :
           nextExpiry' # Never /\ nextExpiry' <= TickOf(LevelClock(nextExpiry)[l], b) * Gran(l)
  BY <1>1, <1>2, <1>5, NextFacts
<1>7. Types'
  <2>1. nextExpiry' \in Nat \cup {Never} /\ elapsedTime' \in Nat \cup {None}
    BY <1>1, <1>2, <1>6
  <2>2. bucket' \in [Timers -> Buckets \cup {Elapsed, Gone}]
    BY <1>0, <1>1 DEF Types
  <2>3. task' \in [Timers -> BOOLEAN] /\ sleeper' \in [Timers -> BOOLEAN]
    BY <1>0, <1>1 DEF Types
  <2>4. due' \in [Timers -> Nat] /\ expiry' \in [Timers -> Nat] /\ clamped' \in [Timers -> BOOLEAN]
    BY <1>0, <1>1, ForgetFacts
  <2> HIDE DEF expired
  <2> QED
    BY <1>0, <1>1, <1>2, <1>5, <2>1, <2>2, <2>3, <2>4 DEF Types
<1>8. Clocked'
  BY <1>1, <1>2, <1>3, <1>6 DEF Clocked, None
<1>9. ASSUME NEW t \in Timers, Pending(t)' PROVE Linked(t)' /\ (~clamped'[t] => OnTime(t)')
  <2>1. /\ Pending(t) /\ bucket'[t] = bucket[t] /\ bucket[t] \notin DueBuckets(nextExpiry)
        /\ due'[t] = due[t] /\ expiry'[t] = expiry[t] /\ clamped'[t] = clamped[t]
    BY <1>0, <1>1, <1>4, <1>9, ForgetFacts
  <2>2. Linked(t) /\ (~clamped[t] => OnTime(t)) /\ bucket[t] \in Buckets /\ expiry[t] \in Nat
    BY <1>0, <2>1 DEF WheelInv, Types, Pending
  <2>3. PICK l \in Levels, n \in Nat :
          bucket[t] = Place(l, n) /\ expiry[t] = n * Gran(l) /\ expiry[t] < elapsed + LvlSize * Gran(l)
    BY <2>2 DEF Linked
  <2>4. /\ nextExpiry <= expiry[t] /\ elapsed <= expiry[t]
        /\ bucket[t].off \in occupied[bucket[t].lvl]
    BY <2>2 DEF Linked
  <2>5. bucket[t].off = n % LvlSize /\ bucket[t].lvl = l
    BY <2>3 DEF Place
  <2>6. bucket[t].off \in occupied'[bucket[t].lvl]
    <3>1. bucket[t] = [lvl |-> bucket[t].lvl, off |-> bucket[t].off] /\ bucket[t].lvl \in Levels
      BY <2>2 DEF Buckets
    <3> QED
      BY <1>1, <2>1, <2>4, <3>1
  <2>7. LvlSize * Gran(l) \in Nat /\ expiry[t] < nextExpiry + LvlSize * Gran(l)
    <3>1. LvlSize \in Nat /\ Gran(l) \in Nat
      BY LevelsAssumption, GranFacts
    <3>2. LvlSize * Gran(l) \in Nat
      BY <3>1, Times
    <3> QED
      BY <1>2, <2>2, <2>3, <3>2
  <2>8. TickOf(LevelClock(nextExpiry)[l], n % LvlSize) = n
    BY <1>2, <2>3, <2>4, <2>7, TickFacts
  <2>9. nextExpiry' # Never /\ nextExpiry' <= expiry[t]
    BY <1>6, <2>3, <2>5, <2>6, <2>8
  <2>10. Linked(t)'
    <3>1. \E k \in Levels, m \in Nat :
            /\ bucket'[t] = Place(k, m) /\ expiry'[t] = m * Gran(k)
            /\ expiry'[t] < elapsed' + LvlSize * Gran(k)
      BY <1>1, <2>1, <2>3, <2>7
    <3> QED
      BY <1>1, <2>1, <2>4, <2>6, <2>9, <3>1 DEF Linked
  <2>11. ExpiryTime(expiry[t])' = ExpiryTime(expiry[t])
    <3> DEFINE e == expiry'[t]
               a == nextExpiry - elapsed
               b == e - nextExpiry
    <3>1. e \in Nat /\ a \in Nat /\ b \in Nat /\ a + b = e - elapsed /\ e = expiry[t]
      BY <1>2, <2>1, <2>2, <2>4
    <3>2. (a + b) * units = a * units + b * units /\ a * units \in Nat /\ b * units \in Nat
      <4> HIDE DEF a, b
      <4> QED
        BY <1>2, <3>1, Times
    <3>3. (IF e > elapsed' THEN e - elapsed' ELSE 0) = b
      <4>1. elapsed' = nextExpiry /\ nextExpiry \in Nat
        BY <1>1, <1>2
      <4> QED
        BY <3>1, <4>1
    <3>4. ExpiryTime(expiry[t])' = Deadline + b * units
      BY <1>1, <1>3, <2>9, <3>3 DEF ExpiryTime, ElapsedTime
    <3>5. ExpiryTime(expiry[t]) = elapsedTime + (a + b) * units
      BY <1>2, <2>4, <3>1
    <3> HIDE DEF e, b
    <3>6. Deadline = elapsedTime + a * units
      BY <1>3
    <3> HIDE DEF a
    <3> QED
      BY <1>2, <3>1, <3>2, <3>4, <3>5, <3>6
  <2>12. ~clamped'[t] => OnTime(t)'
    BY <1>1, <2>1, <2>2, <2>11 DEF OnTime
  <2> QED
    BY <2>10, <2>12
<1>10. WheelInv'
  BY <1>7, <1>8, <1>9 DEF WheelInv
<1>11. ASSUME NEW t \in Timers, sleeper'[t] PROVE Pending(t)' /\ task'[t]
  <2>1. sleeper[t] /\ ~(t \in expired /\ task[t])
    BY <1>1, <1>11
  <2>2. Pending(t) /\ task[t] /\ t \notin expired
    BY <2>1 DEF DriverInv
  <2> QED
    BY <1>1, <2>2 DEF Pending
<1>12. DriverWillWake'
  BY <1>1 DEF DriverInv, DriverWillWake, Looping, Idle
<1>13. DriverInv'
  BY <1>1, <1>11, <1>12 DEF DriverInv
<1> QED
  BY <1>10, <1>13

\* Every step keeps the invariant.
LEMMA WheelStep ==
  ASSUME WheelInv, DriverInv, [Next]_vars PROVE WheelInv' /\ DriverInv'
<1>1. CASE \E t \in Timers : \/ \E ms \in Delays : AddTimer(t, ms) \/ ResetTimer(t, ms)
                             \/ AddElapsed(t) \/ RemoveTimer(t) \/ PollElapsed(t) \/ DropHandle(t)
  BY <1>1, TimerKeeps
<1>2. CASE DriverEmpty \/ DriverSleep \/ DriverExpire
  BY <1>2, EmptyKeeps, SleepKeeps, ExpireKeeps
<1>3. CASE \E g \in Gens : DriverPoll(g) \/ DropDriver(g) \/ SleepFires(g)
  BY <1>3, PollKeeps, DropKeeps, FiresKeeps
<1>4. CASE ResetWheel \/ Tick
  BY <1>4, ResetKeeps, TickKeeps
<1>5. CASE UNCHANGED vars
  <2>1. UNCHANGED <<now, elapsed, elapsedTime, units, nextExpiry, occupied, bucket, task, started, gen,
                    waker, dpc, runnable, dnow, armed, sleep, due, expiry, clamped, sleeper>>
    BY <1>5 DEF vars, clock, wheel, driver, history
  <2>2. Types' /\ now <= now'
    BY <2>1 DEF WheelInv, Types
  <2>3. WheelInv'
    BY <2>1, <2>2, SameWheel
  <2>4. nextExpiry # Never => Deadline' = Deadline
    BY <2>1, DeadlineKept DEF WheelInv
  <2>5. DriverWillWake'
    BY <2>1, <2>4 DEF DriverInv, DriverWillWake, Idle
  <2> QED
    BY <2>1, <2>3, <2>5 DEF DriverInv, Pending
<1> QED
  BY <1>1, <1>2, <1>3, <1>4, <1>5 DEF Next

-----------------------------------------------------------------------------
(* The theorems. *)

\* The invariant holds in every reachable state.
LEMMA WheelAlways == Spec => [](WheelInv /\ DriverInv)
<1>1. WheelInv /\ DriverInv /\ [Next]_vars => WheelInv' /\ DriverInv'
  BY WheelStep
<1> QED
  BY WheelInit, <1>1, PTL DEF Spec

\* A timer whose delay was not cut is scheduled after the instant it asked for, and
\* by at most one granularity of its level, for every configuration of the levels
\* and of the unit: calc_bucket() rounds up, execute_expired_timers() moves the clock
\* to the scheduled time, and next_pending_bucket() never skips a bucket.
THEOREM TimersOnTime == Spec => []ScheduledOnTime
<1>1. WheelInv => ScheduledOnTime
  BY DEF WheelInv, ScheduledOnTime, OnTime
<1> QED
  BY <1>1, WheelAlways, PTL

\* A task that waits for a timer has its waker in the entry of a timer that is still
\* in the wheel, and the driver of the current generation is scheduled, or sleeps
\* with its sleep armed for exactly the next deadline (poll_elapsed, remove_timer,
\* update_next_expiry, stop_wheel, TimerDriver).
THEOREM SleepersAreServed == Spec => []SleeperServed
<1>1. DriverInv => SleeperServed
  BY DEF DriverInv, SleeperServed
<1> QED
  BY <1>1, WheelAlways, PTL

\* No timer elapses early: one that execute_expired_timers() drains, and
\* whose delay was not cut, asked for an instant that has passed.  The bucket may be
\* the same in two turns of the level, but it is in use for one of them only.
NeverEarly ==
  [][\A t \in Timers : DriverExpire /\ Pending(t) /\ ~Pending(t)' /\ ~clamped[t] =>
       due[t] < now]_vars

\* The driver elapses no timer early: NeverEarly holds of every behaviour, because a
\* drained bucket holds only timers whose expiry is the deadline (DriverExpire).
THEOREM NoTimerEarly == Spec => NeverEarly
<1> DEFINE Step == \A t \in Timers : DriverExpire /\ Pending(t) /\ ~Pending(t)' /\ ~clamped[t] =>
                     due[t] < now
<1>1. ASSUME WheelInv PROVE Step
  <2> SUFFICES ASSUME NEW t \in Timers, DriverExpire, Pending(t), ~Pending(t)', ~clamped[t]
               PROVE  due[t] < now
    OBVIOUS
  <2>1. Types /\ Clocked /\ Linked(t) /\ OnTime(t)
    BY <1>1 DEF WheelInv
  <2>2. nextExpiry # Never /\ Deadline <= dnow
    BY DEF DriverExpire
  <2>3. bucket[t] \in DueBuckets(nextExpiry)
    BY DEF DriverExpire, Pending
  <2>4. elapsed \in Nat /\ nextExpiry \in Nat /\ elapsed <= nextExpiry /\ Deadline \in Nat
    BY <2>1, <2>2, TimeFacts
  <2>5. PICK l \in Levels, n \in Nat :
          bucket[t] = Place(l, n) /\ expiry[t] = n * Gran(l) /\ expiry[t] < elapsed + LvlSize * Gran(l)
    BY <2>1 DEF Linked
  <2>6. nextExpiry <= expiry[t]
    BY <2>1 DEF Linked
  <2>7. nextExpiry = expiry[t]
    BY <2>3, <2>4, <2>5, <2>6, DueOnly
  <2>8. Deadline > due[t] /\ due[t] \in Nat /\ dnow \in Nat /\ now \in Nat /\ dnow <= now
    BY <2>1, <2>7 DEF OnTime, Deadline, Types
  <2> QED
    BY <2>2, <2>4, <2>8
<1> QED
  BY <1>1, WheelAlways, PTL DEF NeverEarly

-----------------------------------------------------------------------------
(* Callback timers: the slab of arms, and the tickets of a batch. *)

Linkable == [place : Buckets, expiry : Nat]
Tickets == [key : Keys, id : Nat, arm : Nat, gen : Nat]
CallbackTypes ==
  /\ clk \in Nat /\ next \in Nat \cup {Never} /\ slot \in [Keys -> Linkable \cup {Out}]
  /\ handle \in [Keys -> Nat] /\ ids \in Nat /\ arm \in [Keys -> Nat]
  /\ pending \in [Keys -> BOOLEAN] /\ tgen \in [Keys -> Nat] /\ generation \in Nat
  /\ batch \in Seq(Tickets) /\ active \in BOOLEAN

\* The slot is in the bucket of its tick, within one turn of its level from the
\* clock c, and the deadline d is not later.
Fits(s, c, d) ==
  /\ d # Never /\ d <= s.expiry /\ c <= s.expiry
  /\ \E l \in Levels, n \in Nat :
       s.place = Place(l, n) /\ s.expiry = n * Gran(l) /\ s.expiry < c + LvlSize * Gran(l)

\* Slots in the wheel belong to a handle; identities are not given out twice.
SlabInv ==
  /\ next # Never => clk <= next
  /\ \A k \in Keys : handle[k] <= ids /\ (InWheel(k) => Alive(k) /\ Fits(slot[k], clk, next))

\* The timer of a ticket is still that of the ticket and out of the wheel, or it
\* was armed again, or it is another one.
Fresh(t) ==
  /\ t.id \in 1..ids
  /\ handle[t.key] = t.id =>
       t.arm <= arm[t.key] /\ (t.arm = arm[t.key] => ~InWheel(t.key))
TicketInv == (active => batch # <<>>) /\ \A i \in DOMAIN batch : Fresh(batch[i])

CallbackInv == CallbackTypes /\ SlabInv /\ TicketInv

LEMMA OutFacts == Out \notin Linkable /\ Out.place.lvl \notin Levels
BY LevelsNat DEF Out, Linkable, Buckets

\* The bitmaps have the bits of the slots that are in the wheel, and no others.
LEMMA OccupiedFacts ==
  ASSUME NEW sl \in [Keys -> Linkable \cup {Out}], NEW occ, occ = Occupied(sl)
  PROVE  /\ occ \in [Levels -> SUBSET (0..LvlSize - 1)]
         /\ \A k \in Keys : sl[k] # Out =>
              sl[k].place.lvl \in Levels /\ sl[k].place.off \in occ[sl[k].place.lvl]
         /\ \A l \in Levels : \A b \in occ[l] :
              \E k \in Keys : sl[k] # Out /\ sl[k].place = [lvl |-> l, off |-> b]
<1>1. \A k \in Keys : sl[k] # Out =>
        /\ sl[k] \in Linkable /\ sl[k].place \in Buckets /\ sl[k].place.lvl \in Levels
        /\ sl[k].place.off \in 0..LvlSize - 1
        /\ sl[k].place = [lvl |-> sl[k].place.lvl, off |-> sl[k].place.off]
  BY DEF Linkable, Buckets
<1>2. \A l \in Levels : occ[l] = {sl[k].place.off : k \in {j \in Keys : sl[j].place.lvl = l}}
  BY DEF Occupied
<1>3. \A l \in Levels, k \in Keys : sl[k].place.lvl = l => sl[k] # Out
  BY OutFacts
<1>4. occ = [l \in Levels |-> occ[l]]
  BY DEF Occupied
<1>5. ASSUME NEW l \in Levels, NEW b \in occ[l] PROVE b \in 0..LvlSize - 1
  <2>1. PICK k \in Keys : sl[k].place.lvl = l /\ sl[k].place.off = b
    BY <1>2
  <2> QED
    BY <1>1, <1>3, <2>1
<1>6. ASSUME NEW k \in Keys, sl[k] # Out
      PROVE  sl[k].place.lvl \in Levels /\ sl[k].place.off \in occ[sl[k].place.lvl]
  <2> DEFINE l == sl[k].place.lvl
  <2>1. l \in Levels
    BY <1>1, <1>6
  <2>2. k \in {j \in Keys : sl[j].place.lvl = l}
    OBVIOUS
  <2> HIDE DEF l
  <2>3. sl[k].place.off \in occ[l]
    BY <1>2, <2>1, <2>2
  <2> QED
    BY <2>1, <2>3 DEF l
<1>7. ASSUME NEW l \in Levels, NEW b \in occ[l]
      PROVE  \E k \in Keys : sl[k] # Out /\ sl[k].place = [lvl |-> l, off |-> b]
  <2>1. PICK k \in Keys : sl[k].place.lvl = l /\ sl[k].place.off = b
    BY <1>2
  <2> QED
    BY <1>1, <1>3, <2>1
<1> HIDE DEF Occupied
<1> QED
  BY <1>4, <1>5, <1>6, <1>7

\* The tick of a slot is the one that the scan computes from its bucket.
LEMMA FitsTick ==
  ASSUME NEW s \in Linkable, NEW start \in Nat, NEW d, Fits(s, start, d)
  PROVE  /\ s.place.lvl \in Levels
         /\ TickOf(LevelClock(start)[s.place.lvl], s.place.off) * Gran(s.place.lvl) = s.expiry
<1>1. PICK l \in Levels, n \in Nat :
        s.place = Place(l, n) /\ s.expiry = n * Gran(l) /\ s.expiry < start + LvlSize * Gran(l)
  BY DEF Fits
<1>2. s.place.lvl = l /\ s.place.off = n % LvlSize /\ start <= s.expiry
  BY <1>1 DEF Place, Fits
<1>3. TickOf(LevelClock(start)[l], n % LvlSize) = n
  BY <1>1, <1>2, TickFacts
<1> QED
  BY <1>1, <1>2, <1>3

\* The buckets that are due at the deadline are those of the slots that expire then.
LEMMA FitsDue ==
  ASSUME NEW s \in Linkable, NEW start \in Nat, NEW d \in Nat, start <= d, Fits(s, start, d)
  PROVE  s.place \in DueBuckets(d) <=> s.expiry = d
<1>1. PICK l \in Levels, n \in Nat :
        s.place = Place(l, n) /\ s.expiry = n * Gran(l) /\ s.expiry < start + LvlSize * Gran(l)
  BY DEF Fits
<1>2. d <= s.expiry
  BY DEF Fits
<1>3. s.place \in DueBuckets(d) => s.expiry = d
  BY <1>1, <1>2, DueOnly
<1>4. s.expiry = d => s.place \in DueBuckets(d)
  BY <1>1, DueFacts
<1> QED
  BY <1>3, <1>4

\* A slot stays in its place while the clock moves towards its tick.
LEMMA FitsLater ==
  ASSUME NEW s \in Linkable, NEW start \in Nat, NEW d, Fits(s, start, d), NEW later \in Nat,
         start <= later, later <= s.expiry, NEW e \in Nat, e <= s.expiry
  PROVE  Fits(s, later, e)
<1>1. PICK l \in Levels, n \in Nat :
        s.place = Place(l, n) /\ s.expiry = n * Gran(l) /\ s.expiry < start + LvlSize * Gran(l)
  BY DEF Fits
<1>2. LvlSize * Gran(l) \in Nat /\ s.expiry \in Nat /\ e # Never
  <2>1. LvlSize \in Nat /\ Gran(l) \in Nat
    BY LevelsAssumption, GranFacts
  <2> QED
    BY <2>1, Times DEF Linkable, Never
<1>3. s.expiry < later + LvlSize * Gran(l)
  BY <1>1, <1>2
<1> QED
  BY <1>1, <1>2, <1>3 DEF Fits

\* What Link() does: the slot fits, and the deadline is not later than before.
LEMMA LinkFacts ==
  ASSUME CallbackTypes, SlabInv, NEW k \in Keys, NEW delta \in Deltas, Link(k, delta)
  PROVE  /\ clk' = clk /\ next' \in Nat /\ clk <= next' /\ slot' \in [Keys -> Linkable \cup {Out}]
         /\ \A j \in Keys : j # k => slot'[j] = slot[j]
         /\ slot'[k] \in Linkable
         /\ \A j \in Keys : slot'[j] # Out => Fits(slot'[j], clk, next')
<1> DEFINE s == CalcWheelIndex(clk, delta)
<1>1. /\ slot' = [slot EXCEPT ![k] = s] /\ clk' = clk
      /\ next' = IF next = Never \/ s.expiry < next THEN s.expiry ELSE next
  BY DEF Link
<1>2. clk \in Nat /\ delta \in Nat /\ next \in Nat \cup {Never}
  BY CallbackAssumption DEF CallbackTypes
<1>3. PICK l \in Levels, n \in Nat :
        /\ s.place = Place(l, n) /\ s.expiry = n * Gran(l)
        /\ clk < s.expiry /\ s.expiry < clk + LvlSize * Gran(l)
  BY <1>2, IndexFacts
<1>4. s.expiry \in Nat /\ Place(l, n) \in Buckets
  BY <1>3, GranFacts, Times, PlaceIn
<1>5. s \in Linkable
  <2>1. \E x, y : s = [place |-> x, expiry |-> y]
    BY DEF CalcWheelIndex, CalcIndex
  <2> HIDE DEF s
  <2> QED
    BY <1>3, <1>4, <2>1 DEF Linkable
<1> HIDE DEF s
<1>6. next' \in Nat /\ clk <= next' /\ next' <= s.expiry /\ next' # Never
  BY <1>1, <1>2, <1>3, <1>4 DEF SlabInv, Never
<1>7. slot \in [Keys -> Linkable \cup {Out}]
  BY DEF CallbackTypes
<1>8. /\ slot' \in [Keys -> Linkable \cup {Out}] /\ slot'[k] = s
      /\ \A j \in Keys : j # k => slot'[j] = slot[j]
  BY <1>1, <1>5, <1>7
<1>9. Fits(s, clk, next')
  BY <1>3, <1>6, <1>2, <1>4 DEF Fits
<1>10. ASSUME NEW j \in Keys, j # k, slot'[j] # Out PROVE Fits(slot'[j], clk, next')
  <2>1. slot'[j] = slot[j] /\ slot[j] \in Linkable /\ Fits(slot[j], clk, next)
    BY <1>7, <1>8, <1>10 DEF SlabInv, InWheel
  <2>2. slot[j].expiry \in Nat /\ clk <= slot[j].expiry /\ next # Never /\ next <= slot[j].expiry
    BY <2>1 DEF Fits, Linkable
  <2>3. next' <= slot[j].expiry
    BY <1>1, <1>2, <1>4, <2>2
  <2> QED
    BY <1>2, <1>6, <2>1, <2>2, <2>3, FitsLater
<1> QED
  BY <1>1, <1>5, <1>6, <1>8, <1>9, <1>10

\* A slot that leaves the wheel leaves the others where they are.
LEMMA UnlinkFacts ==
  ASSUME CallbackTypes, NEW k \in Keys, Unlink(k)
  PROVE  /\ clk' = clk /\ next' = next /\ slot' \in [Keys -> Linkable \cup {Out}]
         /\ slot'[k] = Out /\ \A j \in Keys : j # k => slot'[j] = slot[j]
BY DEF CallbackTypes, Unlink

\* A step that leaves clock and deadline alone, takes slots out of the wheel at most,
\* and gives no handle to a slot in the wheel.
LEMMA SlabKept ==
  ASSUME CallbackTypes, SlabInv, UNCHANGED <<clk, next>>, ids <= ids', ids' \in Nat,
         \A j \in Keys : /\ handle'[j] \in {0, handle[j]} /\ slot'[j] \in {Out, slot[j]}
                         /\ handle'[j] = handle[j] \/ slot'[j] = Out
  PROVE  SlabInv'
<1>1. ASSUME NEW j \in Keys
      PROVE  handle'[j] <= ids' /\ (slot'[j] # Out => handle'[j] # 0 /\ Fits(slot'[j], clk', next'))
  <2>1. handle[j] <= ids /\ handle[j] \in Nat /\ ids \in Nat
    BY DEF SlabInv, CallbackTypes
  <2>2. handle'[j] <= ids'
    BY <2>1
  <2>3. ASSUME slot'[j] # Out PROVE handle'[j] # 0 /\ Fits(slot'[j], clk', next')
    <3>1. slot'[j] = slot[j] /\ handle'[j] = handle[j] /\ slot[j] # Out
      BY <2>3
    <3>2. handle[j] # 0 /\ Fits(slot[j], clk, next)
      BY <3>1 DEF SlabInv, InWheel, Alive
    <3>3. Fits(slot'[j], clk', next')
      BY <3>1, <3>2
    <3> QED
      BY <3>1, <3>2, <3>3
  <2> QED
    BY <2>2, <2>3
<1> QED
  BY <1>1 DEF SlabInv, InWheel, Alive

\* A step that leaves the batch alone and keeps every ticket's timer as it is, or
\* takes it out of the wheel, arms it again or gives its slot away.
LEMMA TicketsKept ==
  ASSUME CallbackTypes, TicketInv, UNCHANGED <<batch, active>>, ids <= ids', ids' \in Nat,
         \A k \in Keys :
           \/ handle'[k] = handle[k] /\ arm'[k] = arm[k] /\ slot'[k] \in {Out, slot[k]}
           \/ handle'[k] = handle[k] /\ arm'[k] = arm[k] + 1
           \/ handle'[k] = 0
           \/ handle'[k] = ids + 1
  PROVE  TicketInv'
<1>1. ASSUME NEW i \in DOMAIN batch PROVE Fresh(batch[i])'
  <2> DEFINE t == batch[i]
  <2>1. t \in Tickets
    BY DEF CallbackTypes
  <2>2. t.key \in Keys /\ t.id \in Nat /\ t.arm \in Nat /\ ids \in Nat /\ arm[t.key] \in Nat
    BY <2>1 DEF Tickets, CallbackTypes
  <2>3. Fresh(t)
    BY DEF TicketInv
  <2> HIDE DEF t
  <2>4. t.id \in 1..ids'
    BY <2>2, <2>3 DEF Fresh
  <2>5. ASSUME handle'[t.key] = t.id
        PROVE  t.arm <= arm'[t.key] /\ (t.arm = arm'[t.key] => slot'[t.key] = Out)
    <3>1. handle'[t.key] = handle[t.key]
      BY <2>2, <2>3, <2>5 DEF Fresh
    <3>2. t.arm <= arm[t.key] /\ (t.arm = arm[t.key] => slot[t.key] = Out)
      BY <2>3, <2>5, <3>1 DEF Fresh, InWheel
    <3>3. \/ arm'[t.key] = arm[t.key] /\ slot'[t.key] \in {Out, slot[t.key]}
          \/ arm'[t.key] = arm[t.key] + 1
      BY <2>2, <2>3, <2>5 DEF Fresh
    <3> QED
      BY <2>2, <3>2, <3>3
  <2>6. batch'[i] = t
    BY DEF t
  <2> QED
    BY <2>4, <2>5, <2>6 DEF Fresh, InWheel
<1> QED
  BY <1>1 DEF TicketInv

\* A timer is created in a free slot, or armed again.
LEMMA ArmsKept ==
  ASSUME CallbackInv, NEW k \in Keys, NEW delta \in Deltas, New(k, delta) \/ Reset(k, delta)
  PROVE  CallbackInv'
<1> USE DEF CallbackInv
<1>1. /\ clk' = clk /\ next' \in Nat /\ clk <= next' /\ slot' \in [Keys -> Linkable \cup {Out}]
      /\ \A j \in Keys : j # k => slot'[j] = slot[j]
      /\ slot'[k] \in Linkable
      /\ \A j \in Keys : slot'[j] # Out => Fits(slot'[j], clk, next')
  BY LinkFacts DEF New, Reset
<1>2. /\ pending' = [pending EXCEPT ![k] = TRUE] /\ tgen' = [tgen EXCEPT ![k] = generation]
      /\ UNCHANGED <<generation, batch, active>>
      /\ \/ /\ ids' = ids + 1 /\ handle' = [handle EXCEPT ![k] = ids + 1]
            /\ arm' = [arm EXCEPT ![k] = 0]
         \/ /\ handle[k] # 0 /\ UNCHANGED <<ids, handle>> /\ arm' = [arm EXCEPT ![k] = @ + 1]
  BY DEF New, Reset, Alive
<1>3. /\ ids \in Nat /\ handle \in [Keys -> Nat] /\ arm \in [Keys -> Nat]
      /\ \A j \in Keys : handle[j] <= ids /\ (slot[j] # Out => handle[j] # 0)
  BY DEF CallbackTypes, SlabInv, InWheel, Alive
<1>4. /\ ids' \in Nat /\ ids <= ids' /\ handle' \in [Keys -> Nat] /\ arm' \in [Keys -> Nat]
      /\ \A j \in Keys : j # k => handle'[j] = handle[j] /\ arm'[j] = arm[j]
      /\ handle'[k] # 0 /\ handle'[k] <= ids'
      /\ handle'[k] = ids + 1 \/ (handle'[k] = handle[k] /\ arm'[k] = arm[k] + 1)
  BY <1>2, <1>3
<1>5. CallbackTypes'
  <2>1. pending' \in [Keys -> BOOLEAN] /\ tgen' \in [Keys -> Nat]
    BY <1>2 DEF CallbackTypes
  <2> QED
    BY <1>1, <1>2, <1>4, <2>1 DEF CallbackTypes
<1>6. SlabInv'
  <2>1. \A j \in Keys : handle'[j] <= ids' /\ (slot'[j] # Out => handle'[j] # 0)
    BY <1>1, <1>3, <1>4
  <2> QED
    BY <1>1, <2>1 DEF SlabInv, InWheel, Alive
<1>7. TicketInv'
  <2>1. \A j \in Keys :
          \/ handle'[j] = handle[j] /\ arm'[j] = arm[j] /\ slot'[j] \in {Out, slot[j]}
          \/ handle'[j] = handle[j] /\ arm'[j] = arm[j] + 1
          \/ handle'[j] = 0
          \/ handle'[j] = ids + 1
    BY <1>1, <1>4
  <2> QED
    BY <1>2, <1>4, <2>1, TicketsKept
<1> QED
  BY <1>5, <1>6, <1>7

\* A timer is cancelled or dropped.
LEMMA LeavesKept ==
  ASSUME CallbackInv, NEW k \in Keys, CancelTimer(k) \/ DropTimer(k) PROVE CallbackInv'
<1> USE DEF CallbackInv
<1>1. /\ clk' = clk /\ next' = next /\ slot' \in [Keys -> Linkable \cup {Out}]
      /\ slot'[k] = Out /\ \A j \in Keys : j # k => slot'[j] = slot[j]
  BY UnlinkFacts DEF CancelTimer, DropTimer
<1>2. /\ pending' = [pending EXCEPT ![k] = FALSE]
      /\ handle' = handle \/ handle' = [handle EXCEPT ![k] = 0]
      /\ UNCHANGED <<generation, ids, arm, tgen, batch, active>>
  BY DEF CancelTimer, DropTimer
<1>3. /\ handle' \in [Keys -> Nat] /\ handle'[k] \in {0, handle[k]}
      /\ \A j \in Keys : j # k => handle'[j] = handle[j]
  BY <1>2 DEF CallbackTypes
<1>4. CallbackTypes'
  <2>1. pending' \in [Keys -> BOOLEAN]
    BY <1>2 DEF CallbackTypes
  <2> QED
    BY <1>1, <1>2, <1>3, <2>1 DEF CallbackTypes
<1>5. ids \in Nat /\ ids' = ids /\ ids <= ids'
  BY <1>2 DEF CallbackTypes
<1>6. SlabInv'
  BY <1>1, <1>3, <1>5, SlabKept
<1>7. TicketInv'
  <2>1. \A j \in Keys :
          \/ handle'[j] = handle[j] /\ arm'[j] = arm[j] /\ slot'[j] \in {Out, slot[j]}
          \/ handle'[j] = handle[j] /\ arm'[j] = arm[j] + 1
          \/ handle'[j] = 0
          \/ handle'[j] = ids + 1
    BY <1>1, <1>2, <1>3
  <2> QED
    BY <1>2, <1>5, <2>1, TicketsKept
<1> QED
  BY <1>4, <1>6, <1>7

\* The batch of Expire(): the tickets of slots that have just left the wheel.
LEMMA BatchFacts ==
  ASSUME CallbackTypes, NEW S \in SUBSET Keys, NEW order \in SetToSeqs(S), NEW q,
         q = [i \in DOMAIN order |-> Ticket(order[i])]
  PROVE  q \in Seq(Tickets) /\ \A i \in DOMAIN q : \E k \in S : q[i] = Ticket(k)
<1>1. Cardinality(S) \in Nat
  BY CallbackAssumption, FS_Subset, FS_CardinalityType
<1>2. order \in [1..Cardinality(S) -> S]
  BY DEF SetToSeqs
<1>3. \A i \in 1..Cardinality(S) : order[i] \in S
  BY <1>2
<1>4. \A k \in Keys : Ticket(k) \in Tickets
  BY DEF Ticket, Tickets, CallbackTypes
<1>5. q = [i \in 1..Cardinality(S) |-> Ticket(order[i])]
  BY <1>2
<1>6. q \in [1..Cardinality(S) -> Tickets]
  BY <1>3, <1>4, <1>5
<1>7. q \in Seq(Tickets)
  BY <1>1, <1>6, SeqDef
<1>8. \A i \in DOMAIN q : \E k \in S : q[i] = Ticket(k)
  BY <1>3, <1>5
<1> QED
  BY <1>7, <1>8

\* The clock reaches the deadline.
LEMMA ExpireKept == ASSUME CallbackInv, Expire PROVE CallbackInv'
<1> USE DEF CallbackInv
<1> DEFINE S == {k \in Armed : slot[k].place \in DueBuckets(next)}
<1>1. /\ batch = <<>> /\ ~active /\ next # Never
      /\ slot' = [k \in Keys |-> IF k \in S THEN Out ELSE slot[k]]
      /\ \E order \in SetToSeqs(S) : batch' = [i \in DOMAIN order |-> Ticket(order[i])]
      /\ clk' = next /\ next' = NextPendingBucket(next, Occupied(slot'))
      /\ UNCHANGED <<generation, handle, ids, arm, pending, tgen, active>>
  BY DEF Expire
<1>2. S \in SUBSET Keys /\ \A k \in S : slot[k] # Out
  BY DEF Armed, InWheel
<1>3. \A k \in Keys : slot[k] # Out /\ k \notin S => slot[k].place \notin DueBuckets(next)
  BY DEF Armed, InWheel
<1> HIDE DEF S
<1>4. /\ clk \in Nat /\ next \in Nat /\ clk <= next /\ slot \in [Keys -> Linkable \cup {Out}]
      /\ \A k \in Keys : handle[k] \in Nat /\ arm[k] \in Nat /\ ids \in Nat
      /\ \A k \in Keys : handle[k] <= ids
      /\ \A k \in Keys : slot[k] # Out => handle[k] # 0 /\ Fits(slot[k], clk, next)
  BY <1>1 DEF CallbackTypes, SlabInv, InWheel, Alive
<1>5. slot' \in [Keys -> Linkable \cup {Out}]
  BY <1>1, <1>4
<1> DEFINE occ == Occupied(slot')
<1>6. /\ occ \in [Levels -> SUBSET (0..LvlSize - 1)]
      /\ \A k \in Keys : slot'[k] # Out =>
           slot'[k].place.lvl \in Levels /\ slot'[k].place.off \in occ[slot'[k].place.lvl]
  BY <1>5, OccupiedFacts
<1>7. next' = NextPendingBucket(next, occ)
  BY <1>1
<1> HIDE DEF occ
<1>8. /\ next' = Never \/ (next' \in Nat /\ next <= next')
      /\ \A l \in Levels : \A b \in occ[l] :
           next' # Never /\ next' <= TickOf(LevelClock(next)[l], b) * Gran(l)
  BY <1>4, <1>6, <1>7, NextFacts
<1>9. ASSUME NEW k \in Keys, slot'[k] # Out
      PROVE  handle[k] # 0 /\ Fits(slot'[k], next, next')
  <2>1. slot'[k] = slot[k] /\ slot[k] # Out /\ k \notin S
    BY <1>1, <1>9
  <2> DEFINE s == slot[k]
  <2>2. handle[k] # 0 /\ Fits(s, clk, next) /\ s \in Linkable
    BY <1>4, <2>1
  <2>3. s.place \notin DueBuckets(next)
    BY <1>3, <2>1
  <2>4. s.place.lvl \in Levels /\ s.place.off \in occ[s.place.lvl]
    BY <1>6, <1>9, <2>1
  <2> HIDE DEF s
  <2>5. s.expiry \in Nat /\ next <= s.expiry
    BY <2>2 DEF Fits, Linkable
  <2>6. Fits(s, next, next)
    BY <1>4, <2>2, <2>5, FitsLater
  <2>7. TickOf(LevelClock(next)[s.place.lvl], s.place.off) * Gran(s.place.lvl) = s.expiry
    BY <1>4, <2>2, <2>6, FitsTick
  <2>8. next' # Never /\ next' <= s.expiry
    BY <1>8, <2>4, <2>7
  <2>9. Fits(s, next, next')
    BY <1>4, <1>8, <2>2, <2>5, <2>6, <2>8, FitsLater
  <2> QED
    BY <2>1, <2>2, <2>9 DEF s
<1>10. SlabInv'
  <2>1. next' # Never => clk' <= next'
    BY <1>1, <1>8
  <2>2. \A k \in Keys : handle'[k] <= ids' /\ (slot'[k] # Out => handle'[k] # 0)
    BY <1>1, <1>4, <1>9
  <2>3. \A k \in Keys : slot'[k] # Out => Fits(slot'[k], clk', next')
    BY <1>1, <1>9
  <2> QED
    BY <2>1, <2>2, <2>3 DEF SlabInv, InWheel, Alive
<1>11. batch' \in Seq(Tickets) /\ \A i \in DOMAIN batch' : \E k \in S : batch'[i] = Ticket(k)
  BY <1>1, <1>2, BatchFacts
<1>12. CallbackTypes'
  BY <1>1, <1>4, <1>5, <1>8, <1>11 DEF CallbackTypes
<1>13. ASSUME NEW i \in DOMAIN batch' PROVE Fresh(batch[i])'
  <2>1. PICK k \in S : batch'[i] = Ticket(k)
    BY <1>11
  <2>2. k \in Keys /\ slot'[k] = Out /\ handle[k] \in 1..ids
    BY <1>1, <1>2, <1>4, <2>1
  <2>3. batch'[i].key = k /\ batch'[i].id = handle[k] /\ batch'[i].arm = arm[k]
    BY <2>1 DEF Ticket
  <2> QED
    BY <1>1, <1>4, <2>2, <2>3 DEF Fresh, InWheel
<1>14. TicketInv'
  BY <1>1, <1>13 DEF TicketInv
<1> QED
  BY <1>10, <1>12, <1>14

\* A turn of the delivery loop, and the return of a callback.
LEMMA DeliveryKept == ASSUME CallbackInv, Deliver \/ CallbackReturns PROVE CallbackInv'
<1> USE DEF CallbackInv
<1>1. UNCHANGED <<clk, next, slot, generation, handle, ids, arm, tgen>>
  BY DEF Deliver, CallbackReturns, wheelVars
<1>2. batch # <<>> /\ batch \in Seq(Tickets)
  BY DEF Deliver, CallbackReturns, TicketInv, CallbackTypes
<1>3. Head(batch) \in Tickets /\ Tail(batch) \in Seq(Tickets)
  BY <1>2
<1>4. pending' \in [Keys -> BOOLEAN]
  BY DEF Deliver, CallbackReturns, CallbackTypes
<1>5. active' \in BOOLEAN /\ (batch' = batch \/ (batch' = Tail(batch) /\ ~active'))
  BY DEF Deliver, CallbackReturns, CallbackTypes
<1>6. CallbackTypes'
  BY <1>1, <1>2, <1>3, <1>4, <1>5 DEF CallbackTypes
<1>7. SlabInv'
  BY <1>1 DEF SlabInv, InWheel, Alive
<1>8. \A i \in DOMAIN batch' : \E j \in DOMAIN batch : batch'[i] = batch[j]
  <2>1. ASSUME NEW i \in DOMAIN Tail(batch) PROVE i + 1 \in DOMAIN batch /\ Tail(batch)[i] = batch[i + 1]
    BY <1>2
  <2> QED
    BY <1>5, <2>1
<1>9. TicketInv'
  <2>1. \A t \in Tickets : Fresh(t) => Fresh(t)'
    BY <1>1 DEF Fresh, InWheel
  <2>2. \A i \in DOMAIN batch : batch[i] \in Tickets /\ Fresh(batch[i])
    BY <1>2 DEF TicketInv
  <2>3. \A i \in DOMAIN batch' : Fresh(batch[i])'
    BY <1>1, <1>8, <2>2 DEF Fresh, InWheel
  <2> QED
    BY <1>2, <1>5, <2>3 DEF TicketInv
<1> QED
  BY <1>6, <1>7, <1>9

\* The wheel is stopped by a panic or a reset, or the driver is replaced.
LEMMA StopKept ==
  ASSUME CallbackInv, CallbackPanics \/ ResetTimers \/ DriverReplaced PROVE CallbackInv'
<1> USE DEF CallbackInv
<1>1. /\ UNCHANGED <<handle, ids, arm, tgen>> /\ generation' \in Nat /\ active' \in BOOLEAN
      /\ (batch' = <<>> /\ ~active') \/ UNCHANGED <<batch, active>>
  <2>1. generation \in Nat /\ active \in BOOLEAN
    BY DEF CallbackTypes
  <2>2. CASE CallbackPanics
    BY <2>1, <2>2 DEF CallbackPanics
  <2>3. CASE ResetTimers
    BY <2>1, <2>3 DEF ResetTimers
  <2>4. CASE DriverReplaced
    BY <2>1, <2>4 DEF DriverReplaced
  <2> QED
    BY <2>2, <2>3, <2>4
<1>2. \/ UNCHANGED <<clk, next, slot, pending>>
      \/ /\ clk' = 0 /\ next' = Never /\ slot' = [k \in Keys |-> Out]
         /\ pending' = [k \in Keys |-> FALSE]
  BY DEF CallbackPanics, ResetTimers, DriverReplaced, StopTimers, wheelVars
<1>3. /\ pending' \in [Keys -> BOOLEAN] /\ clk' \in Nat /\ next' \in Nat \cup {Never}
      /\ slot' \in [Keys -> Linkable \cup {Out}] /\ \A k \in Keys : slot'[k] \in {Out, slot[k]}
  <2>1. CASE UNCHANGED <<clk, next, slot, pending>>
    BY <2>1 DEF CallbackTypes
  <2>2. CASE /\ clk' = 0 /\ next' = Never /\ slot' = [k \in Keys |-> Out]
             /\ pending' = [k \in Keys |-> FALSE]
    BY <2>2
  <2> QED
    BY <1>2, <2>1, <2>2
<1>4. <<>> \in Seq(Tickets)
  OBVIOUS
<1>5. CallbackTypes'
  BY <1>1, <1>3, <1>4 DEF CallbackTypes
<1>6. SlabInv'
  <2>1. CASE UNCHANGED <<clk, next, slot, pending>>
    BY <1>1, <2>1 DEF SlabInv, InWheel, Alive
  <2>2. CASE next' = Never /\ slot' = [k \in Keys |-> Out]
    <3>1. \A k \in Keys : slot'[k] = Out /\ handle'[k] <= ids'
      BY <1>1, <2>2 DEF SlabInv
    <3> QED
      BY <2>2, <3>1 DEF SlabInv, InWheel
  <2> QED
    BY <1>2, <2>1, <2>2
<1>7. TicketInv'
  <2>1. CASE UNCHANGED <<batch, active>>
    <3>1. ids \in Nat /\ ids' = ids /\ ids <= ids'
      BY <1>1 DEF CallbackTypes
    <3>2. \A j \in Keys :
            handle'[j] = handle[j] /\ arm'[j] = arm[j] /\ slot'[j] \in {Out, slot[j]}
      BY <1>1, <1>3
    <3> QED
      BY <2>1, <3>1, <3>2, TicketsKept
  <2>2. CASE batch' = <<>> /\ ~active'
    BY <2>2 DEF TicketInv
  <2> QED
    BY <1>1, <2>1, <2>2
<1> QED
  BY <1>5, <1>6, <1>7

LEMMA CallbackStart == CallbackInit => CallbackInv
<1> SUFFICES ASSUME CallbackInit PROVE CallbackInv
  OBVIOUS
<1>1. clk \in Nat /\ <<>> \in Seq(Tickets)
  BY CallbackAssumption DEF CallbackInit
<1>2. CallbackTypes
  BY <1>1 DEF CallbackInit, CallbackTypes
<1>3. SlabInv /\ TicketInv
  BY DEF CallbackInit, SlabInv, TicketInv, InWheel
<1> QED
  BY <1>2, <1>3 DEF CallbackInv

\* Every step keeps the invariant.
LEMMA CallbackStep == ASSUME CallbackInv, [CallbackNext]_callbackVars PROVE CallbackInv'
<1>1. CASE \E k \in Keys, delta \in Deltas : New(k, delta) \/ Reset(k, delta)
  BY <1>1, ArmsKept
<1>2. CASE \E k \in Keys : CancelTimer(k) \/ DropTimer(k)
  BY <1>2, LeavesKept
<1>3. CASE Expire
  BY <1>3, ExpireKept
<1>4. CASE Deliver \/ CallbackReturns
  BY <1>4, DeliveryKept
<1>5. CASE CallbackPanics \/ ResetTimers \/ DriverReplaced
  BY <1>5, StopKept
<1>6. CASE UNCHANGED callbackVars
  BY <1>6 DEF callbackVars, wheelVars, CallbackInv, CallbackTypes, SlabInv, TicketInv, Fresh, InWheel,
              Alive
<1> QED
  BY <1>1, <1>2, <1>3, <1>4, <1>5, <1>6 DEF CallbackNext

\* The invariant holds in every reachable state.
LEMMA CallbackAlways == CallbackSpec => []CallbackInv
<1>1. CallbackInv /\ [CallbackNext]_callbackVars => CallbackInv'
  BY CallbackStep
<1> QED
  BY CallbackStart, <1>1, PTL DEF CallbackSpec

\* The scan of next_pending_bucket() over the bitmaps returns exactly the earliest
\* expiry of the armed callbacks, the driver's deadline is not later, and at the
\* deadline exactly the callbacks that expire then are drained, for every number of
\* levels, size of a level and ratio between levels (execute_expired_timers).
THEOREM ScanIsExact == CallbackSpec => []ScanExact
<1>1. ASSUME CallbackInv PROVE ScanExact
  <2> DEFINE expiries == {slot[k].expiry : k \in Armed}
             occ == Occupied(slot)
             scan == NextPendingBucket(clk, occ)
  <2>1. /\ clk \in Nat /\ slot \in [Keys -> Linkable \cup {Out}] /\ next \in Nat \cup {Never}
        /\ next # Never => clk <= next
    BY <1>1 DEF CallbackInv, CallbackTypes, SlabInv
  <2>2. ASSUME NEW k \in Armed
        PROVE  /\ k \in Keys /\ slot[k] # Out /\ slot[k] \in Linkable /\ slot[k].expiry \in Nat
               /\ Fits(slot[k], clk, next) /\ next # Never /\ next <= slot[k].expiry
    <3>1. k \in Keys /\ slot[k] # Out /\ slot[k] \in Linkable
      BY <2>1 DEF Armed, InWheel
    <3>2. Fits(slot[k], clk, next)
      BY <1>1, <3>1 DEF CallbackInv, SlabInv, InWheel
    <3> QED
      BY <3>1, <3>2 DEF Fits, Linkable
  <2>3. /\ occ \in [Levels -> SUBSET (0..LvlSize - 1)]
        /\ \A k \in Keys : slot[k] # Out =>
             slot[k].place.lvl \in Levels /\ slot[k].place.off \in occ[slot[k].place.lvl]
        /\ \A l \in Levels : \A b \in occ[l] :
             \E k \in Keys : slot[k] # Out /\ slot[k].place = [lvl |-> l, off |-> b]
    BY <2>1, OccupiedFacts
  <2> HIDE DEF occ
  <2>4. /\ scan = Never \/ scan \in Nat
        /\ \A l \in Levels : \A b \in occ[l] :
             scan # Never /\ scan <= TickOf(LevelClock(clk)[l], b) * Gran(l)
        /\ scan # Never =>
             \E l \in Levels : \E b \in occ[l] : scan = TickOf(LevelClock(clk)[l], b) * Gran(l)
    BY <2>1, <2>3, NextFacts
  <2> HIDE DEF scan
  <2>5. \A k \in Armed :
          TickOf(LevelClock(clk)[slot[k].place.lvl], slot[k].place.off) * Gran(slot[k].place.lvl)
            = slot[k].expiry
    BY <2>1, <2>2, FitsTick
  <2>6. \A k \in Armed : scan # Never /\ scan <= slot[k].expiry
    BY <2>2, <2>3, <2>4, <2>5
  <2>7. scan # Never => scan \in expiries
    <3> SUFFICES ASSUME scan # Never PROVE scan \in expiries
      OBVIOUS
    <3>0. PICK l \in Levels : \E b \in occ[l] : scan = TickOf(LevelClock(clk)[l], b) * Gran(l)
      BY <2>4
    <3>1. PICK b \in occ[l] : scan = TickOf(LevelClock(clk)[l], b) * Gran(l)
      BY <3>0
    <3>2. PICK k \in Keys : slot[k] # Out /\ slot[k].place = [lvl |-> l, off |-> b]
      BY <2>3, <3>1
    <3>3. k \in Armed /\ slot[k].place.lvl = l /\ slot[k].place.off = b
      BY <3>2 DEF Armed, InWheel
    <3>4. scan = slot[k].expiry
      BY <2>5, <3>1, <3>3
    <3> QED
      BY <3>3, <3>4
  <2>8. Armed = {} => scan = Never
    BY <2>7
  <2>9. Armed # {} => scan = Min(expiries) /\ next # Never /\ next <= Min(expiries)
    <3> SUFFICES ASSUME Armed # {}
                 PROVE  scan = Min(expiries) /\ next # Never /\ next <= Min(expiries)
      OBVIOUS
    <3>1. expiries \in SUBSET Nat /\ expiries # {}
      BY <2>2
    <3>2. \A e \in expiries : scan # Never /\ scan <= e /\ next # Never /\ next <= e
      BY <2>2, <2>6
    <3> HIDE DEF expiries
    <3>3. Min(expiries) \in expiries /\ \A e \in expiries : Min(expiries) <= e
      BY <3>1, MinIn
    <3>4. scan \in expiries
      BY <2>7, <3>1, <3>2
    <3> DEFINE m == Min(expiries)
    <3>5. m \in expiries /\ m <= scan /\ scan <= m /\ m \in Nat /\ scan \in Nat
      BY <3>1, <3>2, <3>3, <3>4
    <3>6. next # Never /\ next <= m
      BY <3>2, <3>5
    <3> HIDE DEF m
    <3>7. scan = m
      BY <3>5
    <3> QED
      BY <3>6, <3>7 DEF m
  <2>10. next # Never =>
           {k \in Armed : slot[k].place \in DueBuckets(next)} = {k \in Armed : slot[k].expiry = next}
    <3> SUFFICES ASSUME next # Never, NEW k \in Armed
                 PROVE  slot[k].place \in DueBuckets(next) <=> slot[k].expiry = next
      OBVIOUS
    <3> QED
      BY <2>1, <2>2, FitsDue
  <2> QED
    BY <2>8, <2>9, <2>10 DEF ScanExact, scan, occ
<1> QED
  BY <1>1, CallbackAlways, PTL

\* A callback that is invoked belongs to a timer that exists and whose last arming has
\* expired, whatever the earlier callbacks of its batch did: the ticket names the state
\* by its identity and the arming by its number, and neither is given out twice
\* (the checks of the delivery loop, TimerDriver::poll).
THEOREM DeliveryNeverStale == CallbackSpec => NoStaleDelivery
<1> DEFINE Step == ~active /\ active' =>
                     LET k == Head(batch).key
                     IN handle[k] = Head(batch).id /\ ~InWheel(k) /\ pending[k] /\ ~pending'[k]
<1>1. ASSUME CallbackInv, [CallbackNext]_callbackVars PROVE Step
  <2> SUFFICES ASSUME ~active, active'
               PROVE  LET k == Head(batch).key
                      IN handle[k] = Head(batch).id /\ ~InWheel(k) /\ pending[k] /\ ~pending'[k]
    OBVIOUS
  <2>1. Deliver
    BY <1>1 DEF CallbackNext, callbackVars, New, Reset, CancelTimer, DropTimer, Expire,
                CallbackReturns, CallbackPanics, ResetTimers, DriverReplaced
  <2> DEFINE t == Head(batch)
  <2>2. batch # <<>> /\ batch \in Seq(Tickets) /\ pending \in [Keys -> BOOLEAN]
    BY <1>1, <2>1 DEF Deliver, CallbackInv, CallbackTypes
  <2>3. 1 \in DOMAIN batch /\ t = batch[1] /\ t \in Tickets /\ t.key \in Keys
    <3>1. Len(batch) \in Nat \ {0} /\ DOMAIN batch = 1..Len(batch) /\ t = batch[1]
      BY <2>2
    <3>2. 1 \in DOMAIN batch /\ batch[1] \in Tickets
      BY <2>2, <3>1
    <3> QED
      BY <3>1, <3>2 DEF Tickets
  <2>4. Deliverable(t) /\ pending' = [pending EXCEPT ![t.key] = FALSE]
    BY <2>1 DEF Deliver
  <2>5. Fresh(t)
    BY <1>1, <2>3 DEF CallbackInv, TicketInv
  <2> HIDE DEF t
  <2>6. handle[t.key] = t.id /\ arm[t.key] = t.arm /\ pending[t.key]
    BY <2>4 DEF Deliverable
  <2>7. ~InWheel(t.key)
    BY <2>5, <2>6 DEF Fresh
  <2>8. ~pending'[t.key]
    BY <2>2, <2>3, <2>4
  <2> QED
    BY <2>6, <2>7, <2>8 DEF t
<1> QED
  BY <1>1, CallbackAlways, PTL DEF CallbackSpec, NoStaleDelivery
===============================================================================
