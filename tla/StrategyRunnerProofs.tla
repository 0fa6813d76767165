------------------------ MODULE StrategyRunnerProofs ------------------------
(***************************************************************************)
(* Lemmas about the price levels and about the trailing stop, for every    *)
(* tick size, distance and lock step.                                      *)
(***************************************************************************)
EXTENDS StrategyRunner, TLAPS

\* Multiplication by a sign is linear: what the arithmetic solver needs.
LEMMA SignValues ==
  ASSUME NEW side \in Side
  PROVE  /\ side = "LONG" => Sign(side) = 1
         /\ side # "LONG" => Sign(side) = -1
         /\ Sign(side) \in Int
BY DEF Sign, Side

\* Floor division by a positive number, as the arithmetic solver can use it.
LEMMA DivisionBounds ==
  ASSUME NEW a \in Int, NEW b \in Nat \ {0}
  PROVE  /\ a \div b \in Int
         /\ (a \div b) * b <= a
         /\ a < (a \div b + 1) * b
         /\ a >= 0 => a \div b \in Nat
OBVIOUS

\* Rounding to a tick returns an integer price.
LEMMA RoundToTickType ==
  ASSUME NEW price \in Int
  PROVE  RoundToTick(price) \in Int
<1>1. price \div TickSize \in Int
  BY LevelsAssumption
<1>2. (price \div TickSize) * TickSize \in Int /\ (price \div TickSize + 1) * TickSize \in Int
  BY <1>1, LevelsAssumption
<1> QED
  BY <1>2 DEF RoundToTick

\* The levels of a leg are prices.
LEMMA BuildOrderLevelsType ==
  ASSUME NEW anchor \in Int
  PROVE  BuildOrderLevels(anchor) \in [Side -> Level]
<1> SUFFICES ASSUME NEW side \in Side PROVE LegLevels(anchor, side) \in Level
  BY DEF BuildOrderLevels
<1> DEFINE entry == RoundToTick(anchor + Sign(side) * TriggerDist)
<1>1. entry \in Int
  BY SignValues, RoundToTickType, LevelsAssumption
<1> HIDE DEF entry
<1>2. RoundToTick(entry - Sign(side) * SlDist) \in Int
  BY <1>1, SignValues, RoundToTickType, LevelsAssumption
<1>3. RoundToTick(entry + Sign(side) * TpDist) \in Int
  BY <1>1, SignValues, RoundToTickType, LevelsAssumption
<1> QED
  BY <1>1, <1>2, <1>3 DEF LegLevels, Level, entry

\* A position opened at a leg's levels is a position.
LEMMA OpenPositionType ==
  ASSUME NEW side \in Side, NEW entry \in Int, NEW level \in Level, NEW qty \in Nat
  PROVE  OpenPosition(side, entry, level, qty) \in Position
BY DEF OpenPosition, Position, Level

\* Points are points.
LEMMA FavorableType ==
  ASSUME NEW pos \in Position, NEW price \in Int
  PROVE  Favorable(pos, price) \in Int
BY SignValues DEF Favorable, Position

\* The lock index and the stop it buys are integers.
LEMMA LockTypes ==
  ASSUME NEW pos \in Position, NEW best \in Int
  PROVE  LockIndex(best) \in Int /\ LockedStop(pos, LockIndex(best)) \in Int
<1>1. best \div LockStep \in Int
  BY RunnerAssumption
<1>2. LockIndex(best) \in Int
  BY <1>1, RunnerAssumption DEF LockIndex
<1>3. LockStep * LockIndex(best) \in Int
  BY <1>2, RunnerAssumption
<1>4. Sign(pos.side) * (LockStep * LockIndex(best)) \in Int
  BY <1>3, SignValues DEF Position
<1> QED
  BY <1>2, <1>4 DEF LockedStop, Position

\* Trailing keeps a position a position, of the same side, entry, quantity
\* and target; only the stop and the runner's own bookkeeping may change.
LEMMA UpdateTrailingType ==
  ASSUME NEW pos \in Position, NEW close \in Int
  PROVE  LET new == UpdateTrailing(pos, close)
         IN  /\ new \in Position
             /\ new.side = pos.side /\ new.entry = pos.entry
             /\ new.qty = pos.qty /\ new.tp = pos.tp
<1> DEFINE fav  == Favorable(pos, close)
           best == IF fav > pos.best THEN fav ELSE pos.best
           idx  == LockIndex(best)
<1>1. fav \in Int
  BY FavorableType
<1>2. best \in Int
  BY <1>1 DEF Position
<1>3. idx \in Int /\ LockedStop(pos, idx) \in Int
  BY <1>2, LockTypes
<1> HIDE DEF fav, best, idx
<1>4. CASE fav < LockStep
  <2>1. UpdateTrailing(pos, close) = pos
    BY <1>1, <1>4, RunnerAssumption DEF UpdateTrailing, fav
  <2> QED
    BY <2>1
<1>5. CASE fav >= LockStep /\ idx <= pos.lock
  <2>1. UpdateTrailing(pos, close) = [pos EXCEPT !.best = best]
    BY <1>1, <1>3, <1>5, RunnerAssumption DEF UpdateTrailing, fav, best, idx, Position
  <2> QED
    BY <2>1, <1>2 DEF Position
<1>6. CASE fav >= LockStep /\ idx > pos.lock
  <2>1. UpdateTrailing(pos, close)
          = [pos EXCEPT !.best = best, !.lock = idx, !.sl = LockedStop(pos, idx)]
    BY <1>1, <1>3, <1>6, RunnerAssumption DEF UpdateTrailing, fav, best, idx, Position
  <2> QED
    BY <2>1, <1>2, <1>3 DEF Position
<1> QED
  BY <1>1, <1>3, <1>4, <1>5, <1>6, RunnerAssumption DEF Position

-----------------------------------------------------------------------------
(* Rounding *)

\* Multiplication by a natural number is monotone.
LEMMA TimesMonotone ==
  ASSUME NEW a \in Int, NEW b \in Int, NEW c \in Nat, a <= b
  PROVE  a * c <= b * c
<1>1. b = a + (b - a) /\ b - a \in Nat
  OBVIOUS
<1>2. (b - a) * c >= 0
  BY <1>1
<1>3. b * c = a * c + (b - a) * c
  OBVIOUS
<1> QED BY <1>2, <1>3

\* Rounding to a tick moves a price by half a tick at most, to a multiple.
LEMMA RoundToTickNear ==
  ASSUME NEW price \in Int
  PROVE  /\ 2 * RoundToTick(price) <= 2 * price + TickSize
         /\ 2 * RoundToTick(price) >= 2 * price - TickSize
         /\ \E k \in Int : RoundToTick(price) = k * TickSize
<1> DEFINE q    == price \div TickSize
           rest == price % TickSize
<1>1. TickSize \in Nat \ {0} /\ q \in Int /\ rest \in Int
  BY LevelsAssumption
<1>2. price = q * TickSize + rest /\ 0 <= rest /\ rest < TickSize
  <2>1. \A n \in Nat \ {0} : /\ price = (price \div n) * n + (price % n)
                              /\ 0 <= price % n /\ price % n < n
    OBVIOUS
  <2> QED BY <1>1, <2>1
<1>3. (q + 1) * TickSize = q * TickSize + TickSize /\ q * TickSize \in Int
  BY <1>1
<1>4. RoundToTick(price) = q * TickSize \/ RoundToTick(price) = (q + 1) * TickSize
  BY DEF RoundToTick
<1>5. CASE 2 * rest > TickSize \/ (2 * rest = TickSize /\ q % 2 = 1)
  <2>1. RoundToTick(price) = (q + 1) * TickSize
    BY <1>5 DEF RoundToTick
  <2>2. q + 1 \in Int
    BY <1>1
  <2> HIDE DEF q, rest
  <2>3. 2 * rest >= TickSize
    BY <1>1, <1>5
  <2>4. /\ 2 * RoundToTick(price) <= 2 * price + TickSize
        /\ 2 * RoundToTick(price) >= 2 * price - TickSize
    BY <1>1, <1>2, <1>3, <2>1, <2>3
  <2> QED BY <2>1, <2>2, <2>4
<1>6. CASE ~(2 * rest > TickSize \/ (2 * rest = TickSize /\ q % 2 = 1))
  <2>1. RoundToTick(price) = q * TickSize
    BY <1>6 DEF RoundToTick
  <2> HIDE DEF q, rest
  <2>2. 2 * rest <= TickSize
    BY <1>1, <1>6
  <2>3. /\ 2 * RoundToTick(price) <= 2 * price + TickSize
        /\ 2 * RoundToTick(price) >= 2 * price - TickSize
    BY <1>1, <1>2, <1>3, <2>1, <2>2
  <2> QED BY <1>1, <2>1, <2>3
<1> QED BY <1>5, <1>6

\* Rounding does not jump over a price that is on a tick.
LEMMA RoundToTickKeepsSide ==
  ASSUME NEW price \in Int, NEW k \in Int
  PROVE  /\ price <= k * TickSize => RoundToTick(price) <= k * TickSize
         /\ price >= k * TickSize => RoundToTick(price) >= k * TickSize
<1>1. TickSize \in Nat \ {0} /\ k * TickSize \in Int
  BY LevelsAssumption
<1>2. PICK j \in Int : RoundToTick(price) = j * TickSize
  BY RoundToTickNear
<1>3. /\ 2 * (j * TickSize) <= 2 * price + TickSize
      /\ 2 * (j * TickSize) >= 2 * price - TickSize
      /\ j * TickSize \in Int
  BY <1>1, <1>2, RoundToTickNear
<1>4. ASSUME price <= k * TickSize
      PROVE  j * TickSize <= k * TickSize
  <2>1. SUFFICES ASSUME j > k PROVE FALSE
    <3>1. CASE j <= k
      BY <1>1, <3>1, TimesMonotone
    <3>2. CASE j > k
      BY <2>1, <3>2
    <3> QED BY <3>1, <3>2
  <2>2. (k + 1) * TickSize <= j * TickSize
    BY <1>1, <2>1, TimesMonotone
  <2>3. (k + 1) * TickSize = k * TickSize + TickSize
    BY <1>1
  <2> QED BY <1>1, <1>3, <1>4, <2>2, <2>3
<1>5. ASSUME price >= k * TickSize
      PROVE  j * TickSize >= k * TickSize
  <2>1. SUFFICES ASSUME j < k PROVE FALSE
    <3>1. CASE j >= k
      BY <1>1, <3>1, TimesMonotone
    <3>2. CASE j < k
      BY <2>1, <3>2
    <3> QED BY <3>1, <3>2
  <2>2. (j + 1) * TickSize <= k * TickSize
    BY <1>1, <2>1, TimesMonotone
  <2>3. (j + 1) * TickSize = j * TickSize + TickSize
    BY <1>1
  <2> QED BY <1>1, <1>3, <1>5, <2>2, <2>3
<1> QED BY <1>2, <1>4, <1>5

\* The stop of a leg lies behind its entry, by SlDist and half a tick at
\* most, and its target does not lie behind it.
LEMMA LegLevelsFacts ==
  ASSUME NEW anchor \in Int, NEW side \in Side
  PROVE  LET level == LegLevels(anchor, side)
         IN  /\ level \in Level
             /\ Sign(side) * (level.entry - level.sl) >= 0
             /\ 2 * (Sign(side) * (level.entry - level.sl)) <= 2 * SlDist + TickSize
             /\ Sign(side) * (level.tp - level.entry) >= 0
<1> DEFINE raw   == anchor + Sign(side) * TriggerDist
           entry == RoundToTick(raw)
           sl    == RoundToTick(entry - Sign(side) * SlDist)
           tp    == RoundToTick(entry + Sign(side) * TpDist)
<1>1. TickSize \in Nat /\ SlDist \in Nat /\ TpDist \in Nat /\ TriggerDist \in Nat
  BY LevelsAssumption
<1>2. raw \in Int
  BY <1>1, SignValues
<1>3. entry \in Int
  BY <1>2, RoundToTickType
<1>4. PICK k \in Int : entry = k * TickSize
  BY <1>2, RoundToTickNear
<1> HIDE DEF raw, entry
<1>5. entry - Sign(side) * SlDist \in Int /\ entry + Sign(side) * TpDist \in Int
  BY <1>1, <1>3, SignValues
<1>6. sl \in Int /\ tp \in Int
  BY <1>5, RoundToTickType
<1>7. /\ 2 * sl <= 2 * (entry - Sign(side) * SlDist) + TickSize
      /\ 2 * sl >= 2 * (entry - Sign(side) * SlDist) - TickSize
  BY <1>5, RoundToTickNear
<1>8. /\ entry - Sign(side) * SlDist <= entry => sl <= entry
      /\ entry - Sign(side) * SlDist >= entry => sl >= entry
      /\ entry + Sign(side) * TpDist <= entry => tp <= entry
      /\ entry + Sign(side) * TpDist >= entry => tp >= entry
  BY <1>4, <1>5, RoundToTickKeepsSide
<1> HIDE DEF sl, tp
<1>9. CASE side = "LONG"
  <2>1. Sign(side) = 1
    BY <1>9, SignValues
  <2> QED BY <1>1, <1>3, <1>6, <1>7, <1>8, <2>1 DEF LegLevels, Level, raw, entry, sl, tp
<1>10. CASE side # "LONG"
  <2>1. Sign(side) = -1
    BY <1>10, SignValues
  <2> QED BY <1>1, <1>3, <1>6, <1>7, <1>8, <2>1 DEF LegLevels, Level, raw, entry, sl, tp
<1> QED BY <1>9, <1>10

-----------------------------------------------------------------------------
(* Trailing *)

\* A stop still lies behind the entry, or where its lock step has put it.
StopBought(pos) ==
  \/ pos.lock = -1 /\ Sign(pos.side) * (pos.entry - pos.sl) >= 0
  \/ pos.lock >= 0 /\ pos.sl = LockedStop(pos, pos.lock)

\* The lock step is the one that the best close has bought.
LockCurrent(pos) ==
  pos.lock = IF pos.best < LockStep THEN -1 ELSE LockIndex(pos.best)

\* Floor division is monotone.
LEMMA DivisionMonotone ==
  ASSUME NEW a \in Int, NEW b \in Int, a <= b, NEW c \in Nat \ {0}
  PROVE  a \div c <= b \div c
<1> DEFINE p == a \div c
           q == b \div c
<1>1. p \in Int /\ q \in Int /\ p * c <= a /\ b < (q + 1) * c
  BY DivisionBounds
<1> HIDE DEF p, q
<1>2. p * c \in Int /\ (q + 1) * c \in Int
  BY <1>1
<1> SUFFICES ASSUME q + 1 <= p PROVE FALSE
  BY <1>1 DEF p, q
<1>3. (q + 1) * c <= p * c
  BY <1>1, TimesMonotone
<1> QED BY <1>1, <1>2, <1>3

\* A lock index is -1 at least, and the profit it locks lies a step behind
\* the move that bought it.
LEMMA LockIndexFacts ==
  ASSUME NEW best \in Int, best >= LockStep
  PROVE  /\ LockIndex(best) \in Int /\ LockIndex(best) >= -1
         /\ LockStep * LockIndex(best) \in Int
         /\ LockStep * LockIndex(best) <= best - LockStep
<1> DEFINE q   == best \div LockStep
           idx == LockIndex(best)
<1>1. LockStep \in Nat \ {0} /\ LockStepsCount \in Nat
  BY RunnerAssumption
<1>2. q \in Int /\ q * LockStep <= best /\ best < (q + 1) * LockStep
  BY <1>1, DivisionBounds
<1>3. idx = IF q < LockStepsCount THEN q - 1 ELSE LockStepsCount - 1
  BY DEF LockIndex
<1> HIDE DEF q, idx
<1>4. q >= 1
  <2> SUFFICES ASSUME q + 1 <= 1 PROVE FALSE
    BY <1>2
  <2>1. (q + 1) * LockStep <= 1 * LockStep
    BY <1>1, <1>2, TimesMonotone
  <2> QED BY <1>1, <1>2, <2>1
<1>5. idx \in Int /\ idx >= -1 /\ idx <= q - 1
  BY <1>1, <1>2, <1>3, <1>4
<1>6. idx * LockStep <= (q - 1) * LockStep
  BY <1>1, <1>2, <1>5, TimesMonotone
<1>7. (q - 1) * LockStep = q * LockStep - LockStep /\ idx * LockStep = LockStep * idx
  BY <1>1, <1>2, <1>5
<1>8. LockStep * idx \in Int /\ q * LockStep \in Int
  BY <1>1, <1>2, <1>5
<1> QED BY <1>1, <1>2, <1>5, <1>6, <1>7, <1>8 DEF idx

\* A larger move buys no smaller lock index.
LEMMA LockIndexMonotone ==
  ASSUME NEW a \in Int, NEW b \in Int, a <= b
  PROVE  LockIndex(a) <= LockIndex(b)
<1>1. LockStep \in Nat \ {0} /\ LockStepsCount \in Nat
  BY RunnerAssumption
<1>2. a \div LockStep \in Int /\ b \div LockStep \in Int /\ a \div LockStep <= b \div LockStep
  BY <1>1, DivisionMonotone
<1> QED BY <1>1, <1>2 DEF LockIndex

\* UpdateTrailing by cases, with its best move and lock index named.
LEMMA TrailingCases ==
  ASSUME NEW pos \in Position, NEW close \in Int
  PROVE  LET fav  == Favorable(pos, close)
             best == IF fav > pos.best THEN fav ELSE pos.best
             idx  == LockIndex(best)
             new  == UpdateTrailing(pos, close)
         IN  /\ fav \in Int /\ best \in Int /\ idx \in Int
             /\ fav < LockStep => new = pos
             /\ fav >= LockStep /\ idx <= pos.lock => new = [pos EXCEPT !.best = best]
             /\ fav >= LockStep /\ idx > pos.lock =>
                  new = [pos EXCEPT !.best = best, !.lock = idx,
                                    !.sl = LockedStop(pos, idx)]
<1> DEFINE fav  == Favorable(pos, close)
           best == IF fav > pos.best THEN fav ELSE pos.best
           idx  == LockIndex(best)
<1>1. fav \in Int
  BY FavorableType
<1>2. best \in Int
  BY <1>1 DEF Position
<1>3. idx \in Int
  BY <1>2, LockTypes
<1>4. fav < LockStep => UpdateTrailing(pos, close) = pos
  BY <1>1, RunnerAssumption DEF UpdateTrailing
<1>5. fav >= LockStep /\ idx <= pos.lock =>
        UpdateTrailing(pos, close) = [pos EXCEPT !.best = best]
  <2> HIDE DEF fav, best, idx
  <2> QED BY <1>1, <1>3, RunnerAssumption DEF UpdateTrailing, fav, best, idx, Position
<1>6. fav >= LockStep /\ idx > pos.lock =>
        UpdateTrailing(pos, close)
          = [pos EXCEPT !.best = best, !.lock = idx, !.sl = LockedStop(pos, idx)]
  <2> HIDE DEF fav, best, idx
  <2> QED BY <1>1, <1>3, RunnerAssumption DEF UpdateTrailing, fav, best, idx, Position
<1> QED BY <1>1, <1>2, <1>3, <1>4, <1>5, <1>6

\* A stop that moves moves towards profit, stays a lock step behind the close
\* that moved it, and is again where its lock step has put it.
LEMMA TrailingFacts ==
  ASSUME NEW pos \in Position, NEW close \in Int, StopBought(pos), LockCurrent(pos)
  PROVE  LET new == UpdateTrailing(pos, close)
         IN  /\ StopBought(new) /\ LockCurrent(new)
             /\ new.best = pos.best \/ new.best = Favorable(pos, close)
             /\ new.sl # pos.sl => /\ Sign(pos.side) * (new.sl - pos.sl) > 0
                                   /\ Sign(pos.side) * (close - new.sl) >= LockStep
<1> DEFINE fav  == Favorable(pos, close)
           best == IF fav > pos.best THEN fav ELSE pos.best
           idx  == LockIndex(best)
           new  == UpdateTrailing(pos, close)
<1>1. /\ fav \in Int /\ best \in Int /\ idx \in Int
      /\ fav < LockStep => new = pos
      /\ fav >= LockStep /\ idx <= pos.lock => new = [pos EXCEPT !.best = best]
      /\ fav >= LockStep /\ idx > pos.lock =>
           new = [pos EXCEPT !.best = best, !.lock = idx, !.sl = LockedStop(pos, idx)]
  BY TrailingCases
<1>2. LockStep \in Nat \ {0}
  BY RunnerAssumption
<1>3. /\ pos.lock \in Int /\ pos.best \in Int /\ pos.side \in Side
      /\ pos.entry \in Int /\ pos.sl \in Int
  BY DEF Position
<1>4. best = fav \/ best = pos.best
  OBVIOUS
<1>5. pos.best <= best /\ fav <= best
  BY <1>1, <1>3
<1>6. pos.best >= LockStep => pos.lock <= idx
  BY <1>1, <1>2, <1>3, <1>5, LockIndexMonotone DEF LockCurrent
<1>7. fav >= LockStep => idx >= -1 /\ LockStep * idx \in Int /\ LockStep * idx <= best - LockStep
  BY <1>1, <1>2, <1>5, LockIndexFacts
<1>8. CASE fav < LockStep
  BY <1>1, <1>8
<1>9. CASE fav >= LockStep /\ idx <= pos.lock
  <2>1. new = [pos EXCEPT !.best = best]
    BY <1>1, <1>9
  <2>2. new.lock = pos.lock /\ new.sl = pos.sl /\ new.side = pos.side
        /\ new.entry = pos.entry /\ new.best = best
    BY <2>1 DEF Position
  <2>3. pos.lock = idx
    BY <1>1, <1>2, <1>3, <1>6, <1>7, <1>9 DEF LockCurrent
  <2>4. LockCurrent(new)
    BY <1>1, <1>2, <1>5, <1>9, <2>2, <2>3 DEF LockCurrent
  <2>5. StopBought(new)
    BY <2>2 DEF StopBought, LockedStop
  <2> HIDE DEF new, fav, best
  <2>6. new.best = pos.best \/ new.best = fav
    BY <1>4, <2>2
  <2> QED BY <2>2, <2>4, <2>5, <2>6 DEF new, fav
<1>10. CASE fav >= LockStep /\ idx > pos.lock
  <2>1. new = [pos EXCEPT !.best = best, !.lock = idx, !.sl = LockedStop(pos, idx)]
    BY <1>1, <1>10
  <2>2. new.lock = idx /\ new.sl = LockedStop(pos, idx) /\ new.side = pos.side
        /\ new.entry = pos.entry /\ new.best = best
    BY <2>1 DEF Position
  <2>3. LockCurrent(new)
    BY <1>1, <1>2, <1>5, <1>10, <2>2 DEF LockCurrent
  <2>4. pos.lock >= -1
    BY <1>3 DEF StopBought
  <2>5. idx >= 0
    BY <1>1, <1>3, <1>10, <2>4
  <2>6. StopBought(new)
    BY <2>2, <2>5 DEF StopBought, LockedStop
  <2>7. best = fav
    <3> SUFFICES ASSUME best = pos.best PROVE FALSE
      BY <1>4
    <3>1. pos.lock = idx
      BY <1>1, <1>2, <1>3, <1>5, <1>10 DEF LockCurrent
    <3> QED BY <1>1, <1>10, <3>1
  <2> HIDE DEF new, fav, best, idx
  <2>8. new.best = fav
    BY <2>2, <2>7
  <2>9. /\ LockStep * idx \in Int /\ LockStep * idx >= 0
        /\ LockStep * idx <= fav - LockStep
    BY <1>1, <1>2, <1>7, <1>10, <2>5, <2>7
  <2>10. new.sl = pos.entry + Sign(pos.side) * (LockStep * idx)
    BY <2>2 DEF LockedStop
  <2>11. fav = Sign(pos.side) * (close - pos.entry)
    BY DEF fav, Favorable
  <2>12. Sign(pos.side) * (close - new.sl) >= LockStep
    BY <1>1, <1>2, <1>3, <2>9, <2>10, <2>11, SignValues
  <2>13. ASSUME new.sl # pos.sl
         PROVE  Sign(pos.side) * (new.sl - pos.sl) > 0
    <3>1. CASE pos.lock = -1
      <4>1. Sign(pos.side) * (pos.entry - pos.sl) >= 0
        BY <3>1 DEF StopBought
      <4> QED BY <1>3, <2>9, <2>10, <2>13, <4>1, SignValues
    <3>2. CASE pos.lock >= 0
      <4>1. pos.sl = pos.entry + Sign(pos.side) * (LockStep * pos.lock)
        BY <1>3, <3>2 DEF StopBought, LockedStop
      <4>2. (pos.lock + 1) * LockStep <= idx * LockStep
        BY <1>1, <1>2, <1>3, <1>10, TimesMonotone
      <4>3. /\ (pos.lock + 1) * LockStep = LockStep * pos.lock + LockStep
            /\ idx * LockStep = LockStep * idx
            /\ LockStep * pos.lock \in Int
        BY <1>1, <1>2, <1>3
      <4>4. LockStep * idx > LockStep * pos.lock
        BY <1>2, <2>9, <4>2, <4>3
      <4>5. CASE pos.side = "LONG"
        BY <1>3, <2>9, <2>10, <4>1, <4>3, <4>4, <4>5, SignValues
      <4>6. CASE pos.side # "LONG"
        BY <1>3, <2>9, <2>10, <4>1, <4>3, <4>4, <4>6, SignValues
      <4> QED BY <4>5, <4>6
    <3> QED BY <1>3, <2>4, <3>1, <3>2
  <2> QED BY <2>3, <2>6, <2>8, <2>12, <2>13 DEF new, fav
<1> HIDE DEF fav, idx
<1> QED BY <1>1, <1>2, <1>3, <1>8, <1>9, <1>10
=============================================================================
