----------------------------- MODULE WheelLevels -----------------------------
(***************************************************************************)
(* The arithmetic of the timer wheel in ntex-util/src/time/wheel.rs: in    *)
(* which bucket a delay goes, which occupied bucket comes next, and which  *)
(* buckets are drained when the clock reaches it.                          *)
(***************************************************************************)
EXTENDS Integers, FiniteSets, FiniteSetsExt

CONSTANTS
  ClkDiv,     \* LVL_CLK_DIV: a level is this much coarser than the one before
  LvlSize,    \* LVL_SIZE: buckets of a level
  LvlDepth    \* LVL_DEPTH: levels

ASSUME LevelsAssumption ==
  ClkDiv \in Nat \ {0, 1} /\ LvlSize \in Nat \ {0, 1} /\ LvlDepth \in Nat \ {0}

Levels == 0..(LvlDepth - 1)
Buckets == [lvl : Levels, off : 0..(LvlSize - 1)]
Never == -1      \* u64::MAX

\* A level is ClkDiv times coarser than the one before.
granOf[l \in Levels] == IF l = 0 THEN 1 ELSE ClkDiv * granOf[l - 1]
Gran(l) == granOf[l]
LvlStart(l) == (LvlSize - 1) * Gran(l - 1)
TimeoutCutoff == LvlStart(LvlDepth)
TimeoutMax == TimeoutCutoff - Gran(LvlDepth - 1)

\* The first level that can represent a delay.
Level(delta) == Min({l \in Levels : delta < LvlStart(l + 1)})

Place(l, n) == [lvl |-> l, off |-> n % LvlSize]

\* Mutant: the expiry is truncated to the granularity of the level.
CalcIndexTruncated(expires, l) ==
  LET n == expires \div Gran(l)
  IN [place |-> Place(l, n), expiry |-> n * Gran(l)]

CalcIndex(expires, l) ==
  LET n == (expires + Gran(l)) \div Gran(l)
  IN [place |-> Place(l, n), expiry |-> n * Gran(l)]

\* The bucket and its expiry for a delay of delta units from the clock `start`;
\* larger delays expire at the capacity limit.
CalcWheelIndex(start, delta) ==
  IF delta < TimeoutCutoff
  THEN CalcIndex(start + delta, Level(delta))
  ELSE CalcIndex(start + TimeoutMax, LvlDepth - 1)

\* The clock of each level; a partly elapsed tick is rounded up.
LevelClock(start) ==
  LET clk[l \in Levels] ==
        IF l = 0 THEN start
        ELSE (clk[l - 1] \div ClkDiv) + (IF clk[l - 1] % ClkDiv = 0 THEN 0 ELSE 1)
  IN clk

\* Mutant: the scan of the levels stops at the first occupied one.
NextPendingFirstLevel(start, occ) ==
  LET clk == LevelClock(start)
      distance(l) == Min({(b - clk[l]) % LvlSize : b \in occ[l]})
      levels == {l \in Levels : occ[l] # {} /\ \A k \in 0..(l - 1) : occ[k] = {}}
  IN IF levels = {} THEN Never ELSE Min({(clk[l] + distance(l)) * Gran(l) : l \in levels})

\* next_pending_bucket(): a level is not looked at when a bucket of a finer one
\* comes before the next tick of the coarser one.
NextPendingBucket(start, occ) ==
  LET clk == LevelClock(start)
      distance(l) == Min({(b - clk[l]) % LvlSize : b \in occ[l]})
      conclusive(l) ==
        occ[l] # {} /\ distance(l) <= (ClkDiv - (clk[l] % ClkDiv)) % ClkDiv
      levels == {l \in Levels : occ[l] # {} /\ \A k \in 0..(l - 1) : ~conclusive(k)}
  IN IF levels = {} THEN Never ELSE Min({(clk[l] + distance(l)) * Gran(l) : l \in levels})

\* The buckets execute_expired_timers() drains at clk.
DueBuckets(clk) ==
  {Place(l, clk \div Gran(l)) : l \in {k \in Levels : clk % Gran(k) = 0}}
==============================================================================
