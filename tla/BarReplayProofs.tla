-------------------------- MODULE BarReplayProofs --------------------------
(***************************************************************************)
(* What every replay of bars keeps, whatever the bars: how much a trade    *)
(* may lose, that what a lock step bought stays, that the file holds what  *)
(* a restart needs, that the counters are true, that both engines agree    *)
(* up to the first exit of a session, and what drawdown is reported.       *)
(***************************************************************************)
EXTENDS BarReplay, StrategyRunnerProofs, FiniteSetTheorems

-----------------------------------------------------------------------------
(* Positions and trades *)

\* Points that pos would give back at its stop.
Risk(pos) == Sign(pos.side) * (pos.entry - pos.sl)

\* A position as the runner leaves it: its stop and its lock step are bought
\* by its best close, which has not reached the target; before that the stop
\* is at risk by the stop distance and half a tick of rounding.
Sound(pos) ==
  /\ pos \in Position
  /\ StopBought(pos) /\ LockCurrent(pos)
  /\ pos.best <= Favorable(pos, pos.tp)
  /\ Favorable(pos, pos.tp) >= 0
  /\ pos.lock = -1 => Risk(pos) > 0 /\ 2 * Risk(pos) <= 2 * SlDist + TickSize

\* The same of a trade.
SoundTrade(trade) ==
  /\ trade \in TradeRecord
  /\ 2 * Points(trade) >= -(2 * SlDist + TickSize)
  /\ trade.lock >= 0 => Points(trade) >= LockStep * trade.lock
  /\ trade.reason = "TRAIL" => trade.lock >= 0

\* A row of the stream.
Row == [low : Nat, close : Nat, high : Nat, day : Nat, tod : Nat]

InRange(row) == row.low <= row.close /\ row.close <= row.high

\* The stop of a fresh position lies behind its entry, and near it.
LEMMA StopDistance ==
  ASSUME NEW anchor \in Int, NEW side \in Side
  PROVE  LET level == BuildOrderLevels(anchor)[side]
             risk  == Sign(side) * (level.entry - level.sl)
         IN  /\ level \in Level
             /\ risk > 0 /\ 2 * risk <= 2 * SlDist + TickSize
             /\ Sign(side) * (level.tp - level.entry) >= 0
<1> DEFINE entry == RoundToTick(anchor + Sign(side) * TriggerDist)
           raw   == entry - Sign(side) * SlDist
           level == LegLevels(anchor, side)
<1>1. BuildOrderLevels(anchor)[side] = level
  BY DEF BuildOrderLevels
<1>2. /\ level \in Level /\ Sign(side) * (level.tp - level.entry) >= 0
      /\ 2 * (Sign(side) * (level.entry - level.sl)) <= 2 * SlDist + TickSize
  BY LegLevelsFacts
<1>3. level.entry = entry /\ level.sl = RoundToTick(raw)
  BY DEF LegLevels
<1>4. TickSize \in Nat \ {0} /\ SlDist \in Nat /\ TriggerDist \in Nat
  BY LevelsAssumption
<1>5. entry \in Int
  BY <1>4, SignValues, RoundToTickType
<1> HIDE DEF entry, level
<1>6. raw \in Int
  BY <1>4, <1>5, SignValues
<1>7. /\ 2 * level.sl <= 2 * raw + TickSize /\ 2 * level.sl >= 2 * raw - TickSize
      /\ level.sl \in Int
  BY <1>3, <1>6, RoundToTickNear, RoundToTickType
<1>8. Sign(side) * (entry - level.sl) > 0
  BY <1>4, <1>5, <1>6, <1>7, SignValues, StopApartAssumption
<1> QED BY <1>1, <1>2, <1>3, <1>8

\* What an entry opens is sound.
LEMMA EntrySound ==
  ASSUME NEW anchor \in Int, NEW side \in Side, NEW qty \in Nat
  PROVE  LET level == BuildOrderLevels(anchor)[side]
         IN  Sound(OpenPosition(side, level.entry, level, qty))
<1> DEFINE level == BuildOrderLevels(anchor)[side]
           pos   == OpenPosition(side, level.entry, level, qty)
<1>1. /\ level \in Level
      /\ Sign(side) * (level.entry - level.sl) > 0
      /\ 2 * (Sign(side) * (level.entry - level.sl)) <= 2 * SlDist + TickSize
      /\ Sign(side) * (level.tp - level.entry) >= 0
  BY StopDistance
<1> HIDE DEF level
<1>2. level.entry \in Int /\ level.sl \in Int /\ level.tp \in Int
  BY <1>1 DEF Level
<1>3. pos \in Position
  BY <1>1, <1>2, OpenPositionType
<1>4. /\ pos.side = side /\ pos.entry = level.entry /\ pos.sl = level.sl
      /\ pos.tp = level.tp /\ pos.lock = -1 /\ pos.best = 0
  BY DEF OpenPosition
<1> HIDE DEF pos
<1>5. StopBought(pos)
  BY <1>1, <1>2, <1>4, SignValues DEF StopBought
<1>6. LockCurrent(pos)
  BY <1>4, RunnerAssumption DEF LockCurrent
<1> QED BY <1>1, <1>3, <1>4, <1>5, <1>6 DEF Sound, Favorable, Risk, pos, level

\* A bar that leaves a position open trails it soundly, and a stop that stays
\* leaves nothing but the best move to differ.
LEMMA HoldSound ==
  ASSUME NEW pos, Sound(pos), NEW row \in Row, InRange(row), ExitOf(pos, row) = {}
  PROVE  LET new == UpdateTrailing(pos, row.close)
         IN  /\ Sound(new)
             /\ new.sl = pos.sl => [new EXCEPT !.best = 0] = [pos EXCEPT !.best = 0]
<1> DEFINE new == UpdateTrailing(pos, row.close)
           fav == Favorable(pos, row.close)
<1>1. /\ pos \in Position /\ row.close \in Int /\ row.low \in Int /\ row.high \in Int
      /\ row.low <= row.close /\ row.close <= row.high
  BY DEF Sound, Row, InRange
<1>2. /\ pos.lock \in Int /\ pos.best \in Int /\ pos.side \in Side /\ pos.tp \in Int
      /\ pos.entry \in Int /\ pos.sl \in Int
  BY <1>1 DEF Position
<1>3. ~TpHit(pos, row)
  BY DEF ExitOf
<1>4. fav <= Favorable(pos, pos.tp)
  BY <1>1, <1>2, <1>3, SignValues DEF TpHit, Favorable
<1>5. /\ new \in Position /\ new.side = pos.side /\ new.entry = pos.entry
      /\ new.qty = pos.qty /\ new.tp = pos.tp
  BY <1>1, UpdateTrailingType
<1>6. /\ StopBought(new) /\ LockCurrent(new)
      /\ new.best = pos.best \/ new.best = fav
  BY <1>1, TrailingFacts DEF Sound
<1>7. /\ new.best <= Favorable(new, new.tp) /\ Favorable(new, new.tp) >= 0
  BY <1>4, <1>5, <1>6 DEF Sound, Favorable
<1>8. \/ new.lock = pos.lock /\ new.sl = pos.sl
      \/ new.lock > pos.lock /\ new.lock \in Int /\ new.sl = LockedStop(pos, new.lock)
  <2> DEFINE best == IF fav > pos.best THEN fav ELSE pos.best
             idx  == LockIndex(best)
  <2>1. /\ fav \in Int /\ idx \in Int
        /\ fav < LockStep => new = pos
        /\ fav >= LockStep /\ idx <= pos.lock => new = [pos EXCEPT !.best = best]
        /\ fav >= LockStep /\ idx > pos.lock =>
             new = [pos EXCEPT !.best = best, !.lock = idx, !.sl = LockedStop(pos, idx)]
    BY <1>1, TrailingCases
  <2> HIDE DEF new, fav, best, idx
  <2>2. CASE fav < LockStep
    BY <2>1, <2>2
  <2>3. CASE fav >= LockStep /\ idx <= pos.lock
    BY <1>1, <2>1, <2>3 DEF Position
  <2>4. CASE fav >= LockStep /\ idx > pos.lock
    BY <1>1, <2>1, <2>4 DEF Position
  <2> QED BY <1>2, <2>1, <2>2, <2>3, <2>4, RunnerAssumption
<1> HIDE DEF new, fav
<1>9. pos.lock >= -1 /\ new.lock \in Int
  BY <1>2, <1>5 DEF Sound, StopBought, Position
<1>10. new.lock = -1 => Risk(new) > 0 /\ 2 * Risk(new) <= 2 * SlDist + TickSize
  BY <1>2, <1>5, <1>8, <1>9 DEF Sound, Risk
<1>11. ASSUME new.sl = pos.sl
       PROVE  new.lock = pos.lock
  <2> SUFFICES ASSUME new.lock > pos.lock, new.sl = LockedStop(pos, new.lock)
               PROVE  FALSE
    BY <1>8
  <2>1. LockStep \in Nat \ {0}
    BY RunnerAssumption
  <2>2. new.lock >= 0 /\ pos.lock + 1 <= new.lock
    BY <1>2, <1>9
  <2>3. LockStep * new.lock \in Int /\ LockStep * new.lock >= 0
    BY <1>9, <2>1, <2>2
  <2>4. pos.sl = pos.entry + Sign(pos.side) * (LockStep * new.lock)
    BY <1>11 DEF LockedStop
  <2>5. CASE pos.lock = -1
    <3>1. Risk(pos) > 0
      BY <2>5 DEF Sound
    <3> QED BY <1>2, <2>3, <2>4, <3>1, SignValues DEF Risk
  <2>6. CASE pos.lock >= 0
    <3>1. pos.sl = pos.entry + Sign(pos.side) * (LockStep * pos.lock)
      BY <1>2, <2>6 DEF Sound, StopBought, LockedStop
    <3>2. (pos.lock + 1) * LockStep <= new.lock * LockStep
      BY <1>2, <1>9, <2>1, <2>2, TimesMonotone
    <3>3. /\ (pos.lock + 1) * LockStep = LockStep * pos.lock + LockStep
          /\ new.lock * LockStep = LockStep * new.lock
          /\ LockStep * pos.lock \in Int
      BY <1>2, <1>9, <2>1
    <3>4. LockStep * pos.lock < LockStep * new.lock
      BY <2>1, <2>3, <3>2, <3>3
    <3> QED BY <1>2, <2>3, <2>4, <3>1, <3>3, <3>4, SignValues
  <2> QED BY <1>2, <1>9, <2>5, <2>6
<1>12. ASSUME new.sl = pos.sl
       PROVE  [new EXCEPT !.best = 0] = [pos EXCEPT !.best = 0]
  <2>1. new.lock = pos.lock
    BY <1>11, <1>12
  <2> QED BY <1>1, <1>5, <1>12, <2>1 DEF Position
<1> QED BY <1>5, <1>6, <1>7, <1>10, <1>12 DEF Sound, new

\* What an exit books is sound.
LEMMA ExitSound ==
  ASSUME NEW pos, Sound(pos), NEW row \in Row, InRange(row), NEW s \in Symbols,
         NEW exit \in ExitOf(pos, row)
  PROVE  SoundTrade(Trade(s, pos, exit, row))
<1> DEFINE trade == Trade(s, pos, exit, row)
           kept  == LockStep * pos.lock
<1>1. /\ pos \in Position /\ row.close \in Int /\ row.low \in Int /\ row.high \in Int
      /\ row.low <= row.close /\ row.close <= row.high
      /\ row.day \in Nat /\ row.tod \in Nat
  BY DEF Sound, Row, InRange
<1>2. /\ pos.lock \in Int /\ pos.best \in Int /\ pos.side \in Side /\ pos.tp \in Int
      /\ pos.entry \in Int /\ pos.sl \in Int /\ pos.qty \in Nat
  BY <1>1 DEF Position
<1>3. LockStep \in Nat \ {0} /\ SlDist \in Nat /\ TickSize \in Nat
  BY RunnerAssumption, LevelsAssumption
<1>4. kept \in Int /\ (pos.lock >= 0 => kept >= 0)
  BY <1>2, <1>3
<1>5. /\ pos.lock >= 0 => pos.sl = pos.entry + Sign(pos.side) * kept
      /\ pos.lock >= -1
  BY <1>2 DEF Sound, StopBought, LockedStop
<1>6. /\ trade.sym = s /\ trade.side = pos.side /\ trade.entry = pos.entry
      /\ trade.qty = pos.qty /\ trade.lock = pos.lock /\ trade.price = exit.price
      /\ trade.reason = exit.reason /\ trade.day = row.day /\ trade.tod = row.tod
  BY DEF Trade
<1>7. Points(trade) = Favorable(pos, exit.price)
  BY <1>6 DEF Points, Favorable
<1> HIDE DEF kept
<1>8. /\ Favorable(pos, pos.sl) \in Int
      /\ pos.lock >= 0 => Favorable(pos, pos.sl) = kept
      /\ 2 * Favorable(pos, pos.sl) >= -(2 * SlDist + TickSize)
  <2>1. CASE pos.lock >= 0
    BY <1>2, <1>3, <1>4, <1>5, <2>1, SignValues DEF Favorable
  <2>2. CASE pos.lock = -1
    <3>1. 2 * Risk(pos) <= 2 * SlDist + TickSize
      BY <2>2 DEF Sound
    <3> QED BY <1>2, <1>3, <2>2, <3>1, SignValues DEF Favorable, Risk
  <2> QED BY <1>2, <1>5, <2>1, <2>2
<1>9. /\ exit.price \in Int
      /\ exit.reason \in {"SL", "TRAIL", "TP", "SQUARE_OFF"}
      /\ exit.reason = "TRAIL" => pos.lock >= 0
      /\ 2 * Points(trade) >= -(2 * SlDist + TickSize)
      /\ pos.lock >= 0 => Points(trade) >= kept
  <2> HIDE DEF trade
  <2>1. CASE SlHit(pos, row)
    <3>1. exit = [price |-> pos.sl, reason |-> SlReason(pos)]
      BY <2>1 DEF ExitOf
    <3>2. (SlReason(pos) = "TRAIL" /\ pos.lock >= 0) \/ SlReason(pos) = "SL"
      BY DEF SlReason
    <3> QED BY <1>2, <1>4, <1>7, <1>8, <3>1, <3>2
  <2>2. CASE ~SlHit(pos, row) /\ TpHit(pos, row)
    <3>1. exit = [price |-> pos.tp, reason |-> "TP"]
      BY <2>2 DEF ExitOf
    <3>2. pos.lock >= 0 => kept <= pos.best
      <4>1. pos.lock >= 0 => pos.best >= LockStep /\ pos.lock = LockIndex(pos.best)
        BY <1>2, <1>3 DEF Sound, LockCurrent
      <4>2. pos.lock >= 0 => kept <= pos.best - LockStep
        BY <1>2, <4>1, LockIndexFacts DEF kept
      <4> QED BY <1>2, <1>3, <1>4, <4>2
    <3>3. pos.best <= Favorable(pos, pos.tp) /\ Favorable(pos, pos.tp) >= 0
          /\ Favorable(pos, pos.tp) \in Int
      BY <1>1, <1>2, FavorableType DEF Sound
    <3>4. Points(trade) = Favorable(pos, pos.tp) /\ exit.price = pos.tp /\ exit.reason = "TP"
      BY <1>7, <3>1
    <3> QED BY <1>2, <1>3, <1>4, <3>2, <3>3, <3>4
  <2>3. CASE ~SlHit(pos, row) /\ ~TpHit(pos, row)
    <3>1. exit = [price |-> row.close, reason |-> "SQUARE_OFF"]
      BY <2>3 DEF ExitOf
    <3>2. Favorable(pos, row.close) >= Favorable(pos, pos.sl)
          /\ Favorable(pos, row.close) \in Int
      BY <1>1, <1>2, <2>3, SignValues DEF SlHit, Favorable
    <3>3. Points(trade) = Favorable(pos, row.close) /\ exit.price = row.close
          /\ exit.reason = "SQUARE_OFF"
      BY <1>7, <3>1
    <3> QED BY <1>1, <1>2, <1>3, <1>4, <1>8, <3>2, <3>3
  <2> QED BY <2>1, <2>2, <2>3
<1>10. trade \in TradeRecord
  BY <1>1, <1>2, <1>9 DEF trade, Trade, TradeRecord
<1> HIDE DEF trade
<1> QED BY <1>6, <1>9, <1>10 DEF SoundTrade, trade, kept

-----------------------------------------------------------------------------
(* The drawdown *)

\* A tracker whose peak is the highest of its equities, and whose drawdown is
\* the worst fall among them.
Drawn(tracker) ==
  LET moments == 0 .. Len(tracker.curve)
  IN  /\ tracker \in Tracker
      /\ tracker.cumulative = Equity(tracker, Len(tracker.curve))
      /\ \A i \in moments : Equity(tracker, i) <= tracker.peak
      /\ \E i \in moments : Equity(tracker, i) = tracker.peak
      /\ IsWorstDrop(tracker)

LEMMA NewTrackerDrawn == Drawn(NewTracker)
<1>1. /\ NewTracker.curve = <<>> /\ Len(NewTracker.curve) = 0 /\ NewTracker.cumulative = 0
      /\ NewTracker.peak = 0 /\ NewTracker.worst = 0
  BY DEF NewTracker
<1>2. NewTracker \in Tracker
  BY DEF NewTracker, Tracker
<1>3. \A i \in 0 .. 0 : i = 0
  OBVIOUS
<1> QED BY <1>1, <1>2, <1>3 DEF Drawn, IsWorstDrop, Equity

\* Recording a trade keeps the drawdown the worst fall.
LEMMA RecordDrawn ==
  ASSUME NEW tracker, Drawn(tracker), NEW net \in Int
  PROVE  Drawn(Record(tracker, net))
<1> DEFINE new  == Record(tracker, net)
           n    == Len(tracker.curve)
           last == tracker.cumulative + net
           drop == new.peak - last
<1>1. /\ tracker.cumulative \in Int /\ tracker.peak \in Int /\ tracker.worst \in Int
      /\ tracker.curve \in Seq(Int) /\ n \in Nat /\ DOMAIN tracker.curve = 1 .. n
  BY DEF Drawn, Tracker
<1>2. /\ new.cumulative = last /\ new.curve = Append(tracker.curve, last)
      /\ new.peak = IF last > tracker.peak THEN last ELSE tracker.peak
      /\ new.worst = IF drop > tracker.worst THEN drop ELSE tracker.worst
      /\ new = [cumulative |-> new.cumulative, peak |-> new.peak, worst |-> new.worst,
                curve |-> new.curve]
  BY DEF Record
<1>3. /\ Len(new.curve) = n + 1 /\ new.curve \in Seq(Int)
      /\ new.curve[n + 1] = last /\ \A i \in 1 .. n : new.curve[i] = tracker.curve[i]
  BY <1>1, <1>2
<1>4. last \in Int /\ new.peak \in Int /\ new.worst \in Int /\ drop \in Int
  BY <1>1, <1>2
<1>5. new \in Tracker
  <2>1. new.cumulative \in Int
    BY <1>2, <1>4
  <2> HIDE DEF new
  <2> QED BY <1>2, <1>3, <1>4, <2>1 DEF Tracker
<1> DEFINE old(i) == Equity(tracker, i)
           eq(i)  == Equity(new, i)
<1>6. /\ eq(n + 1) = last
      /\ \A i \in 0 .. n : eq(i) = old(i) /\ old(i) \in Int
  BY <1>1, <1>3 DEF Equity
<1>7. /\ \A i \in 0 .. n : old(i) <= tracker.peak
      /\ \E i \in 0 .. n : old(i) = tracker.peak
      /\ \A i, j \in 0 .. n : i <= j => old(i) - old(j) <= tracker.worst
      /\ \E i, j \in 0 .. n : i <= j /\ old(i) - old(j) = tracker.worst
  BY DEF Drawn, IsWorstDrop
<1>8. /\ \A i \in 0 .. n + 1 : (i \in 0 .. n) \/ i = n + 1
      /\ n + 1 \in 0 .. n + 1
      /\ \A i \in 0 .. n : i \in 0 .. n + 1 /\ i <= n + 1 /\ ~(n + 1 <= i)
  BY <1>1
<1> HIDE DEF old, eq, new, last, n
<1>9. \A i \in 0 .. n + 1 : eq(i) <= new.peak
  <2>1. tracker.peak <= new.peak /\ last <= new.peak
    BY <1>1, <1>2, <1>4
  <2>2. ASSUME NEW i \in 0 .. n PROVE eq(i) <= new.peak
    <3>1. eq(i) \in Int /\ eq(i) <= tracker.peak
      BY <1>6, <1>7
    <3> QED BY <1>1, <1>4, <2>1, <3>1
  <2> QED BY <1>6, <1>8, <2>1, <2>2
<1>10. \E i \in 0 .. n + 1 : eq(i) = new.peak
  <2>1. CASE last > tracker.peak
    BY <1>2, <1>6, <1>8, <2>1
  <2>2. CASE ~(last > tracker.peak)
    BY <1>2, <1>6, <1>7, <1>8, <2>2
  <2> QED BY <2>1, <2>2
<1>11. \A i, j \in 0 .. n + 1 : i <= j => eq(i) - eq(j) <= new.worst
  <2> SUFFICES ASSUME NEW i \in 0 .. n + 1, NEW j \in 0 .. n + 1, i <= j
               PROVE  eq(i) - eq(j) <= new.worst
    OBVIOUS
  <2>1. eq(i) \in Int /\ eq(i) <= new.peak
    BY <1>4, <1>6, <1>8, <1>9
  <2>2. CASE j = n + 1
    BY <1>1, <1>2, <1>4, <1>6, <2>1, <2>2
  <2>3. CASE j \in 0 .. n
    <3>1. i \in 0 .. n
      BY <1>8, <2>3
    <3>2. eq(i) - eq(j) <= tracker.worst
      BY <1>6, <1>7, <2>3, <3>1
    <3>3. eq(j) \in Int
      BY <1>6, <2>3
    <3> QED BY <1>1, <1>2, <1>4, <2>1, <3>2, <3>3
  <2> QED BY <1>8, <2>2, <2>3
<1>12. \E i, j \in 0 .. n + 1 : i <= j /\ eq(i) - eq(j) = new.worst
  <2>1. CASE drop > tracker.worst
    <3>1. PICK i \in 0 .. n + 1 : eq(i) = new.peak
      BY <1>10
    <3>2. i <= n + 1 /\ eq(i) - eq(n + 1) = new.worst
      BY <1>1, <1>2, <1>6, <1>8, <2>1, <3>1
    <3> QED BY <1>8, <3>2
  <2>2. CASE ~(drop > tracker.worst)
    <3>1. PICK i \in 0 .. n, j \in 0 .. n : i <= j /\ old(i) - old(j) = tracker.worst
      BY <1>7
    <3>2. new.worst = tracker.worst
      BY <1>2, <2>2
    <3> QED BY <1>6, <1>8, <3>1, <3>2
  <2> QED BY <2>1, <2>2
<1>13. IsWorstDrop(new)
  BY <1>3, <1>11, <1>12 DEF IsWorstDrop, eq, n
<1>14. Len(new.curve) = n + 1
  BY <1>3 DEF n
<1> QED BY <1>2, <1>5, <1>6, <1>9, <1>10, <1>13, <1>14 DEF Drawn, eq, new

-----------------------------------------------------------------------------
(* The invariant of both engines' positions and trades *)

Sane ==
  /\ TypeOK
  /\ \A s \in Symbols : \E anchor \in Int : levels[s] = BuildOrderLevels(anchor)
  /\ \A s \in DOMAIN positions : Sound(positions[s])
  /\ \A s \in DOMAIN btPosition : Sound(btPosition[s])
  /\ \A trade \in closed \cup btTrades : SoundTrade(trade)
  /\ \A s \in BtSymbols : Drawn(btEquity[s])
  /\ FileIsRecoverable

\* A delivery hands one row of today to both engines.
LEMMA DeliverFacts ==
  ASSUME Sane, NEW s \in Symbols, Deliver(s)
  PROVE  /\ \E row \in Row :
              /\ InRange(row) /\ row.day = day /\ row.tod = seen[s] + 1
              /\ OnBar(s, levels[s], row) /\ SessionBar(s, levels[s], row)
              /\ apart' = IF TurnedAway(s, row) THEN apart \cup {s} ELSE apart
         /\ seen' = [seen EXCEPT ![s] = seen[s] + 1] /\ day' = day /\ levels' = levels
<1>1. PICK bar \in Bar :
        LET row == At(bar, seen[s] + 1)
        IN  /\ OnBar(s, levels[s], row) /\ SessionBar(s, levels[s], row)
            /\ apart' = IF TurnedAway(s, row) THEN apart \cup {s} ELSE apart
  BY DEF Deliver
<1> DEFINE row == At(bar, seen[s] + 1)
<1>2. seen[s] \in Nat /\ day \in Nat
  BY DEF Sane, TypeOK
<1>3. /\ bar.low \in Nat /\ bar.close \in Nat /\ bar.high \in Nat
      /\ bar.low <= bar.close /\ bar.close <= bar.high
  BY ReplayAssumption DEF Bar
<1>4. /\ row.low = bar.low /\ row.close = bar.close /\ row.high = bar.high
      /\ row.day = day /\ row.tod = seen[s] + 1
  BY DEF At
<1>5. row \in Row
  BY <1>2, <1>3 DEF At, Row
<1>6. UNCHANGED <<day, levels>> /\ seen' = [seen EXCEPT ![s] = seen[s] + 1]
  BY DEF Deliver
<1> HIDE DEF row
<1> QED BY <1>1, <1>3, <1>4, <1>5, <1>6 DEF InRange, row

\* An entry of either engine opens a sound position.
LEMMA OpensSound ==
  ASSUME Sane, NEW s \in Symbols, NEW side \in Side, NEW qty \in Nat
  PROVE  Sound(OpenPosition(side, levels[s][side].entry, levels[s][side], qty))
<1>1. PICK anchor \in Int : levels[s] = BuildOrderLevels(anchor)
  BY DEF Sane
<1> QED BY <1>1, EntrySound

\* A bar enters on a side, and on one side only.
LEMMA EntryFacts ==
  ASSUME NEW l, NEW row
  PROVE  /\ EntrySides(l, row) \subseteq Side
         /\ \A a, b \in EntrySides(l, row) : a = b
BY DEF EntrySides, Side

\* A bar gives a position one exit at most.
LEMMA ExitFacts ==
  ASSUME NEW pos, NEW row
  PROVE  \A a, b \in ExitOf(pos, row) : a = b
BY DEF ExitOf

\* The PAPER engine keeps its part of the invariant.
LEMMA EngineStep ==
  ASSUME Sane, NEW s \in Symbols, NEW row \in Row, InRange(row), OnBar(s, levels[s], row)
  PROVE  /\ EngineTypeOK'
         /\ \A t \in DOMAIN positions' : Sound(positions'[t])
         /\ \A trade \in closed' : SoundTrade(trade)
         /\ FileIsRecoverable'
<1> USE DEF Sane
<1>1. /\ IsDict(positions, Symbols, Position) /\ closed \subseteq TradeRecord
      /\ counters \in Counters /\ RolledCounters(row) \in Counters
  BY DEF TypeOK, EngineTypeOK, RolledCounters, Counters, Row
<1>2. ASSUME IsDict(positions', Symbols, Position), closed' \subseteq TradeRecord,
             counters' \in Counters, Persist
      PROVE  EngineTypeOK' /\ FileIsRecoverable'
  BY <1>2 DEF EngineTypeOK, Persist, FileIsRecoverable
<1>3. CASE Reject(s, row)
  <2>1. UNCHANGED <<positions, closed>> /\ Persist
    BY <1>3 DEF Reject
  <2>2. counters' \in Counters
    BY <1>1, <1>3 DEF Reject, Counters
  <2> QED BY <1>1, <1>2, <2>1, <2>2
<1>4. CASE Enter(s, levels[s], row)
  <2>1. PICK side \in EntrySides(levels[s], row) :
          positions' = Put(positions, s, OpenPosition(side, levels[s][side].entry,
                                                      levels[s][side], Quantity))
    BY <1>4 DEF Enter
  <2> DEFINE pos == OpenPosition(side, levels[s][side].entry, levels[s][side], Quantity)
  <2>2. Sound(pos)
    BY EntryFacts, OpensSound, EngineAssumption
  <2> HIDE DEF pos
  <2>3. IsDict(positions', Symbols, Position) /\ \A t \in DOMAIN positions' : Sound(positions'[t])
    BY <1>1, <2>1, <2>2 DEF Put, IsDict, Sound, pos
  <2>4. counters' \in Counters /\ closed' = closed /\ Persist
    BY <1>1, <1>4 DEF Enter
  <2> QED BY <1>1, <1>2, <2>3, <2>4
<1>5. CASE StayFlat(s, levels[s], row)
  <2>1. UNCHANGED <<positions, closed, file>> /\ counters' \in Counters
    BY <1>1, <1>5 DEF StayFlat
  <2> QED BY <2>1 DEF TypeOK, EngineTypeOK, FileIsRecoverable
<1>6. CASE Exit(s, row)
  <2>1. PICK exit \in ExitOf(positions[s], row) :
          /\ closed' = closed \cup {Trade(s, positions[s], exit, row)}
          /\ counters' = [RolledCounters(row) EXCEPT
                            !.pnl = @ + Points(Trade(s, positions[s], exit, row))
                                          * Trade(s, positions[s], exit, row).qty,
                            !.trades = @ + 1]
    BY <1>6 DEF Exit
  <2>2. s \in DOMAIN positions /\ positions' = Del(positions, s) /\ Persist
    BY <1>6 DEF Exit
  <2> DEFINE trade == Trade(s, positions[s], exit, row)
  <2>3. SoundTrade(trade)
    BY <2>2, ExitSound
  <2> HIDE DEF trade
  <2>4. Points(trade) * trade.qty \in Int
    <3>1. trade \in TradeRecord
      BY <2>3 DEF SoundTrade
    <3>2. trade.qty \in Nat /\ Points(trade) \in Int
      BY <3>1, SignValues DEF TradeRecord, Points
    <3> QED BY <3>2
  <2>5. counters' \in Counters
    <3>1. counters' = [RolledCounters(row) EXCEPT !.pnl = @ + Points(trade) * trade.qty,
                                                  !.trades = @ + 1]
      BY <2>1 DEF trade
    <3> DEFINE now  == RolledCounters(row)
               gain == Points(trade) * trade.qty
    <3>2. /\ now = [day |-> now.day, pnl |-> now.pnl, trades |-> now.trades,
                    rejections |-> now.rejections]
          /\ now.day \in Nat /\ now.pnl \in Int /\ now.trades \in Nat
          /\ now.rejections \in Nat /\ gain \in Int
      BY <1>1, <2>4 DEF Counters
    <3> HIDE DEF now, gain
    <3>3. counters' = [day |-> now.day, pnl |-> now.pnl + gain, trades |-> now.trades + 1,
                       rejections |-> now.rejections]
      BY <3>1, <3>2 DEF now, gain
    <3> QED BY <3>2, <3>3 DEF Counters
  <2>6. IsDict(positions', Symbols, Position) /\ \A t \in DOMAIN positions' : Sound(positions'[t])
    BY <1>1, <2>2 DEF Del, IsDict
  <2>7. closed' \subseteq TradeRecord /\ \A t \in closed' : SoundTrade(t)
    BY <1>1, <2>1, <2>3 DEF SoundTrade, trade
  <2> QED BY <1>2, <2>2, <2>5, <2>6, <2>7
<1>7. CASE Hold(s, row)
  <2> DEFINE old == positions[s]
             new == UpdateTrailing(old, row.close)
  <2>1. /\ s \in DOMAIN positions /\ ExitOf(old, row) = {}
        /\ positions' = Put(positions, s, new)
        /\ counters' \in Counters /\ closed' = closed
        /\ IF positions'[s].sl # old.sl THEN Persist ELSE UNCHANGED file
    BY <1>1, <1>7 DEF Hold
  <2>2. Sound(new) /\ (new.sl = old.sl => [new EXCEPT !.best = 0] = [old EXCEPT !.best = 0])
    BY <2>1, HoldSound
  <2> HIDE DEF new
  <2>3. /\ DOMAIN positions' = DOMAIN positions /\ positions'[s] = new
        /\ \A t \in DOMAIN positions : t # s => positions'[t] = positions[t]
    BY <2>1 DEF Put
  <2>4. IsDict(positions', Symbols, Position) /\ \A t \in DOMAIN positions' : Sound(positions'[t])
    BY <1>1, <2>1, <2>2, <2>3 DEF Put, IsDict, Sound
  <2>5. CASE Persist
    BY <1>1, <1>2, <2>1, <2>4, <2>5
  <2>6. CASE UNCHANGED file /\ new.sl = old.sl
    <3>1. EngineTypeOK'
      BY <1>1, <2>1, <2>4, <2>6 DEF TypeOK, EngineTypeOK
    <3>2. \A t \in DOMAIN positions :
            [file.positions[t] EXCEPT !.best = 0] = [positions[t] EXCEPT !.best = 0]
      BY DEF FileIsRecoverable
    <3>3. \A t \in DOMAIN positions :
            [file.positions[t] EXCEPT !.best = 0] = [positions'[t] EXCEPT !.best = 0]
      BY <2>2, <2>3, <2>6, <3>2
    <3> QED BY <2>1, <2>3, <2>4, <2>6, <3>1, <3>3 DEF FileIsRecoverable
  <2> QED BY <2>1, <2>3, <2>4, <2>5, <2>6
<1> QED BY <1>3, <1>4, <1>5, <1>6, <1>7 DEF OnBar

\* A trade's net is a whole amount.
LEMMA NetType ==
  ASSUME NEW trade \in TradeRecord
  PROVE  Net(trade) \in Int
<1>1. /\ trade.side \in Side /\ trade.price \in Int /\ trade.entry \in Int
      /\ trade.qty \in Int
  BY DEF TradeRecord
<1>2. Points(trade) \in Int
  BY <1>1, SignValues DEF Points
<1> QED BY <1>1, <1>2, BacktestAssumption DEF Net

\* The BACKTEST engine keeps its part.
LEMMA BacktestStep ==
  ASSUME Sane, NEW s \in Symbols, NEW row \in Row, InRange(row),
         SessionBar(s, levels[s], row)
  PROVE  /\ IsDict(btPosition', Symbols, Position)
         /\ btTrades' \subseteq TradeRecord
         /\ \A t \in DOMAIN btPosition' : Sound(btPosition'[t])
         /\ \A trade \in btTrades' : SoundTrade(trade)
         /\ btEquity' \in [BtSymbols -> Tracker]
         /\ \A t \in BtSymbols : Drawn(btEquity'[t])
<1> USE DEF Sane
<1>0. /\ btEquity \in [BtSymbols -> Tracker]
      /\ btEquity' = btEquity =>
           /\ btEquity' \in [BtSymbols -> Tracker]
           /\ \A t \in BtSymbols : Drawn(btEquity'[t])
  BY DEF TypeOK
<1>1. IsDict(btPosition, Symbols, Position) /\ btTrades \subseteq TradeRecord
  BY DEF TypeOK
<1>2. CASE UNCHANGED backtest
  BY <1>0, <1>1, <1>2 DEF backtest
<1>3. ASSUME NEW pos, Sound(pos), btPosition' = Put(btPosition, s, pos), btTrades' = btTrades
      PROVE  /\ IsDict(btPosition', Symbols, Position)
             /\ \A t \in DOMAIN btPosition' : Sound(btPosition'[t])
  BY <1>1, <1>3 DEF Put, IsDict, Sound
<1>4. CASE s \notin DOMAIN btPosition /\ ~(UNCHANGED backtest)
  <2>1. PICK side \in EntrySides(levels[s], row) :
          btPosition' = Put(btPosition, s, OpenPosition(side, levels[s][side].entry,
                                                        levels[s][side], BtQuantity))
    BY <1>4 DEF SessionBar, backtest
  <2>2. Sound(OpenPosition(side, levels[s][side].entry, levels[s][side], BtQuantity))
    BY EntryFacts, OpensSound, BacktestAssumption
  <2>3. btTrades' = btTrades /\ btEquity' = btEquity
    BY <1>4 DEF SessionBar, backtest
  <2> QED BY <1>0, <1>1, <1>3, <2>1, <2>2, <2>3
<1>5. CASE /\ s \in DOMAIN btPosition /\ ExitOf(btPosition[s], row) = {}
           /\ ~(UNCHANGED backtest)
  <2>1. /\ btPosition' = Put(btPosition, s, UpdateTrailing(btPosition[s], row.close))
        /\ btTrades' = btTrades /\ btEquity' = btEquity
    BY <1>5 DEF SessionBar, backtest
  <2>2. Sound(UpdateTrailing(btPosition[s], row.close))
    BY <1>5, HoldSound
  <2> QED BY <1>0, <1>1, <1>3, <1>5, <2>1, <2>2
<1>6. CASE /\ s \in DOMAIN btPosition /\ ExitOf(btPosition[s], row) # {}
           /\ ~(UNCHANGED backtest)
  <2>1. PICK exit \in ExitOf(btPosition[s], row) :
          LET trade == Trade(s, btPosition[s], exit, row)
          IN  /\ btTrades' = btTrades \cup {trade}
              /\ btEquity' = [btEquity EXCEPT ![s] = Record(btEquity[s], Net(trade))]
              /\ btPosition' = Del(btPosition, s)
    BY <1>6 DEF SessionBar, backtest, Summarize
  <2> DEFINE trade == Trade(s, btPosition[s], exit, row)
  <2>2. SoundTrade(trade)
    BY <1>6, ExitSound
  <2>3. trade \in TradeRecord
    BY <2>2 DEF SoundTrade
  <2>4. IsDict(btPosition', Symbols, Position) /\ \A t \in DOMAIN btPosition' : Sound(btPosition'[t])
    BY <1>1, <2>1 DEF Del, IsDict
  <2> HIDE DEF trade
  <2>5. Net(trade) \in Int
    BY <2>3, NetType
  <2>6. /\ btEquity' = [btEquity EXCEPT ![s] = Record(btEquity[s], Net(trade))]
        /\ btTrades' = btTrades \cup {trade}
    BY <2>1 DEF trade
  <2>7. ASSUME NEW t \in BtSymbols PROVE Drawn(btEquity'[t])
    <3>1. t = s => Drawn(Record(btEquity[s], Net(trade)))
      BY <2>5, RecordDrawn
    <3>2. btEquity'[t] = IF t = s THEN Record(btEquity[s], Net(trade)) ELSE btEquity[t]
      BY <1>0, <2>6
    <3> QED BY <3>1, <3>2
  <2>8. btEquity' \in [BtSymbols -> Tracker]
    <3>1. \A t \in BtSymbols : btEquity'[t] \in Tracker
      BY <2>7 DEF Drawn
    <3>2. btEquity' = [t \in BtSymbols |-> btEquity'[t]]
      BY <1>0, <2>6
    <3> QED BY <3>1, <3>2
  <2> QED BY <1>1, <2>2, <2>3, <2>4, <2>6, <2>7, <2>8
<1> QED BY <1>2, <1>4, <1>5, <1>6

LEMMA SaneInit == Init => Sane
<1> SUFFICES ASSUME Init PROVE Sane
  OBVIOUS
<1>1. /\ positions = EmptyDict /\ closed = {} /\ btPosition = EmptyDict /\ btTrades = {}
      /\ counters = [day |-> 0, pnl |-> 0, trades |-> 0, rejections |-> 0]
      /\ file = [positions |-> positions, closed |-> closed, counters |-> counters]
      /\ day = 0 /\ seen = LastBar /\ levels = [s \in Symbols |-> BuildOrderLevels(0)]
      /\ apart = {} /\ btEquity = [s \in BtSymbols |-> NewTracker]
  BY DEF Init, EngineInit, BacktestInit
<1>0. NewTracker \in Tracker /\ \A s \in BtSymbols : Drawn(btEquity[s])
  BY <1>1, NewTrackerDrawn DEF Drawn
<1>2. DOMAIN EmptyDict = {} /\ IsDict(EmptyDict, Symbols, Position)
  BY DEF EmptyDict, IsDict
<1>3. counters \in Counters
  BY <1>1 DEF Counters
<1>4. /\ file.positions = positions /\ file.closed = closed /\ file.counters = counters
  BY <1>1
<1>5. EngineTypeOK
  BY <1>1, <1>2, <1>3, <1>4 DEF EngineTypeOK
<1>6. BuildOrderLevels(0) \in [Side -> Level]
  BY BuildOrderLevelsType
<1>7. TypeOK
  BY <1>0, <1>1, <1>2, <1>5, <1>6, ReplayAssumption DEF TypeOK
<1>8. FileIsRecoverable
  BY <1>1, <1>2, <1>4 DEF FileIsRecoverable
<1> QED BY <1>0, <1>1, <1>2, <1>7, <1>8 DEF Sane

LEMMA SaneStep ==
  ASSUME Sane, [Next]_vars
  PROVE  Sane'
<1>1. ASSUME NEW s \in Symbols, Deliver(s)
      PROVE  Sane'
  <2>1. PICK row \in Row :
          /\ InRange(row) /\ OnBar(s, levels[s], row) /\ SessionBar(s, levels[s], row)
          /\ apart' = IF TurnedAway(s, row) THEN apart \cup {s} ELSE apart
    BY <1>1, DeliverFacts
  <2>3. /\ EngineTypeOK'
        /\ \A t \in DOMAIN positions' : Sound(positions'[t])
        /\ \A trade \in closed' : SoundTrade(trade)
        /\ FileIsRecoverable'
    BY <2>1, EngineStep
  <2>4. /\ IsDict(btPosition', Symbols, Position)
        /\ btTrades' \subseteq TradeRecord
        /\ \A t \in DOMAIN btPosition' : Sound(btPosition'[t])
        /\ \A trade \in btTrades' : SoundTrade(trade)
        /\ btEquity' \in [BtSymbols -> Tracker]
        /\ \A t \in BtSymbols : Drawn(btEquity'[t])
    BY <2>1, BacktestStep
  <2>5. /\ seen' = [seen EXCEPT ![s] = seen[s] + 1] /\ day' = day /\ levels' = levels
    BY <1>1, DeliverFacts
  <2>6. seen' \in [Symbols -> Nat] /\ apart' \subseteq Symbols
    BY <2>1, <2>5 DEF Sane, TypeOK
  <2>7. TypeOK'
    BY <2>3, <2>4, <2>5, <2>6 DEF Sane, TypeOK
  <2> QED BY <2>3, <2>4, <2>5, <2>7 DEF Sane
<1>2. CASE NextSession
  <2>1. /\ day' = day + 1 /\ seen' = [s \in Symbols |-> 0] /\ apart' = DOMAIN positions
        /\ btPosition' = EmptyDict /\ btTrades' = btTrades /\ btEquity' = btEquity
        /\ UNCHANGED engine
    BY <1>2 DEF NextSession, StartSession
  <2>2. PICK open \in [Symbols -> Opens] :
          levels' = [s \in Symbols |-> BuildOrderLevels(open[s])]
    BY <1>2 DEF NextSession
  <2>3. \A s \in Symbols : open[s] \in Int /\ levels'[s] = BuildOrderLevels(open[s])
    <3>1. \A s \in Symbols : open[s] \in Nat
      BY ReplayAssumption
    <3> QED BY <2>2, <3>1
  <2>4. levels' \in [Symbols -> [Side -> Level]]
    BY <2>2, <2>3, BuildOrderLevelsType
  <2>5. DOMAIN EmptyDict = {} /\ IsDict(EmptyDict, Symbols, Position)
    BY DEF EmptyDict, IsDict
  <2>6. EngineTypeOK' /\ FileIsRecoverable'
    BY <2>1 DEF Sane, TypeOK, EngineTypeOK, FileIsRecoverable, engine
  <2>7. TypeOK'
    BY <2>1, <2>4, <2>5, <2>6 DEF Sane, TypeOK, EngineTypeOK, IsDict
  <2> QED BY <2>1, <2>3, <2>5, <2>6, <2>7 DEF Sane, engine
<1>3. CASE UNCHANGED vars
  BY <1>3
     DEF Sane, TypeOK, EngineTypeOK, FileIsRecoverable, vars, engine, backtest
<1> QED BY <1>1, <1>2, <1>3 DEF Next

\* The invariant of positions, trades, levels and file.
THEOREM Sanity == Spec => []Sane
BY SaneInit, SaneStep, PTL DEF Spec

\* Type correctness.
THEOREM TypeCorrect == Spec => []TypeOK
<1>1. Sane => TypeOK
  BY DEF Sane
<1> QED BY <1>1, Sanity, PTL

\* No trade loses more than the stop distance and half a tick.
THEOREM LossIsBounded == Spec => []LossBounded
<1>1. Sane => LossBounded
  BY DEF Sane, SoundTrade, LossBounded
<1> QED BY <1>1, Sanity, PTL

\* What a lock step bought is never given back.
THEOREM ProfitIsKept == Spec => []LockedProfitKept
<1>1. Sane => LockedProfitKept
  BY DEF Sane, SoundTrade, LockedProfitKept
<1> QED BY <1>1, Sanity, PTL

\* The file holds every closed trade and every stop in force.
THEOREM Recoverable == Spec => []FileIsRecoverable
<1>1. Sane => FileIsRecoverable
  BY DEF Sane
<1> QED BY <1>1, Sanity, PTL

\* The drawdown a backtest reports is the worst fall of its equity.
THEOREM DrawdownIsTrue == Spec => []DrawdownIsWorst
<1>1. Sane => DrawdownIsWorst
  BY DEF Sane, Drawn, DrawdownIsWorst
<1> QED BY <1>1, Sanity, PTL

\* The lock step is the one the best close has bought.
THEOREM LockStepCurrent == Spec => []LockIsCurrent
<1>1. Sane => LockIsCurrent
  BY DEF Sane, Sound, LockCurrent, LockIsCurrent
<1> QED BY <1>1, Sanity, PTL

-----------------------------------------------------------------------------
(* The sum over a set of trades *)

\* What a trade adds to day_pnl.
Pnl(trade) == Points(trade) * trade.qty

\* One element of T, as the fold over sets picks it.
Pick(T) == CHOOSE x \in T : TRUE

LEMMA PnlType ==
  ASSUME NEW trade \in TradeRecord
  PROVE  Pnl(trade) \in Int
<1>1. trade.qty \in Nat /\ Points(trade) \in Int
  BY DEF TradeRecord, Points, Sign, Side
<1> QED BY <1>1 DEF Pnl

\* g sums up every subset of S.
IsSum(g, S) ==
  g = [T \in SUBSET S |-> IF T = {} THEN 0 ELSE Pnl(Pick(T)) + g[T \ {Pick(T)}]]

SumOf(S) == (CHOOSE g : IsSum(g, S))[S]

\* Induction over the subsets of a finite set: if some are bad, one of them has
\* no bad subset but itself.
LEMMA SmallestBad ==
  ASSUME NEW S, IsFiniteSet(S), NEW Bad \in SUBSET (SUBSET S), Bad # {}
  PROVE  \E T \in Bad : \A U \in Bad : U \subseteq T => U = T
<1>1. IsWellFoundedOn(StrictSubsetOrdering(S), SUBSET S)
  BY FS_StrictSubsetOrderingWellFounded, FS_FiniteSubsetsOfFinite
<1>2. PICK T \in Bad : \A U \in Bad : ~(<<U, T>> \in StrictSubsetOrdering(S))
  BY <1>1, WFMin
<1> QED BY <1>2 DEF StrictSubsetOrdering

LEMMA PickIn ==
  ASSUME NEW T, T # {}
  PROVE  Pick(T) \in T
BY DEF Pick

\* Sums of different sets agree on what both cover.
LEMMA SumsAgree ==
  ASSUME NEW S, IsFiniteSet(S), NEW g, IsSum(g, S), NEW U \in SUBSET S, NEW h, IsSum(h, U)
  PROVE  \A T \in SUBSET U : g[T] = h[T]
<1> DEFINE Bad == {T \in SUBSET U : g[T] # h[T]}
<1> SUFFICES ASSUME Bad # {} PROVE FALSE
  OBVIOUS
<1>1. PICK T \in Bad : \A V \in Bad : V \subseteq T => V = T
  <2>1. IsFiniteSet(U)
    BY FS_Subset
  <2>2. Bad \in SUBSET (SUBSET U)
    OBVIOUS
  <2> HIDE DEF Bad
  <2> QED BY <2>1, <2>2, SmallestBad
<1>2. T \in SUBSET U /\ T \in SUBSET S /\ g[T] # h[T]
  OBVIOUS
<1>3. CASE T = {}
  BY <1>2, <1>3 DEF IsSum
<1>4. CASE T # {}
  <2> DEFINE rest == T \ {Pick(T)}
  <2>1. rest \in SUBSET U /\ rest # T /\ rest \subseteq T
    BY <1>2, <1>4, PickIn
  <2>2. g[rest] = h[rest]
    BY <1>1, <2>1
  <2>3. g[T] = Pnl(Pick(T)) + g[rest] /\ h[T] = Pnl(Pick(T)) + h[rest]
    BY <1>2, <1>4 DEF IsSum
  <2> QED BY <1>2, <2>2, <2>3
<1> QED BY <1>3, <1>4

\* Every finite set has its sum.
LEMMA SumExists ==
  ASSUME NEW S, IsFiniteSet(S)
  PROVE  \E g : IsSum(g, S)
<1> DEFINE Bad == {T \in SUBSET S : ~ \E g : IsSum(g, T)}
<1> SUFFICES ASSUME Bad # {} PROVE FALSE
  OBVIOUS
<1>1. PICK T \in Bad : \A U \in Bad : U \subseteq T => U = T
  <2>1. Bad \in SUBSET (SUBSET S)
    OBVIOUS
  <2> HIDE DEF Bad
  <2> QED BY <2>1, SmallestBad
<1>2. T \in SUBSET S /\ ~ \E g : IsSum(g, T)
  OBVIOUS
<1>3. ASSUME NEW U \in SUBSET T, U # T
      PROVE  /\ IsFiniteSet(U)
             /\ IsSum(CHOOSE g : IsSum(g, U), U)
  <2>1. \E g : IsSum(g, U)
    BY <1>1, <1>3
  <2> QED BY <1>2, <2>1, FS_Subset
<1> DEFINE h == [U \in SUBSET T |->
                   IF U = {} THEN 0 ELSE Pnl(Pick(U)) + SumOf(U \ {Pick(U)})]
<1>4. ASSUME NEW U \in SUBSET T, U # T
      PROVE  h[U] = SumOf(U)
  <2> DEFINE g == CHOOSE g : IsSum(g, U)
             rest == U \ {Pick(U)}
  <2>1. SumOf(U) = g[U]
    BY DEF SumOf
  <2>2. IsFiniteSet(U) /\ IsSum(g, U)
    BY <1>3, <1>4
  <2>3. CASE U = {}
    BY <2>1, <2>2, <2>3 DEF IsSum
  <2>4. CASE U # {}
    <3>1. rest \in SUBSET U /\ rest \in SUBSET T /\ rest # T
      BY <1>4
    <3>2. g[U] = Pnl(Pick(U)) + g[rest]
      BY <2>2, <2>4 DEF IsSum
    <3>3. g[rest] = SumOf(rest)
      <4>1. IsSum(CHOOSE f : IsSum(f, rest), rest)
        BY <1>3, <3>1
      <4> QED BY <2>2, <3>1, <4>1, SumsAgree DEF SumOf
    <3> QED BY <2>1, <2>4, <3>2, <3>3
  <2> QED BY <2>3, <2>4
<1>5. h = [U \in SUBSET T |-> IF U = {} THEN 0 ELSE Pnl(Pick(U)) + h[U \ {Pick(U)}]]
  <2>1. ASSUME NEW U \in SUBSET T, U # {}
        PROVE  SumOf(U \ {Pick(U)}) = h[U \ {Pick(U)}]
    <3>1. U \ {Pick(U)} \in SUBSET T /\ U \ {Pick(U)} # T
      BY <2>1, PickIn
    <3> QED BY <1>4, <3>1
  <2> QED BY <2>1
<1>6. IsSum(h, T)
  BY <1>5 DEF IsSum
<1> QED BY <1>2, <1>6

\* The equation of the fold.
LEMMA SumEquation ==
  ASSUME NEW S, IsFiniteSet(S)
  PROVE  SumOf(S) = IF S = {} THEN 0 ELSE Pnl(Pick(S)) + SumOf(S \ {Pick(S)})
<1> DEFINE g == CHOOSE g : IsSum(g, S)
           rest == S \ {Pick(S)}
           h == CHOOSE h : IsSum(h, rest)
<1>1. IsSum(g, S)
  BY SumExists
<1>2. IsFiniteSet(rest) /\ rest \in SUBSET S
  BY FS_Subset
<1>3. IsSum(h, rest)
  BY <1>2, SumExists
<1>4. g[rest] = h[rest]
  BY <1>1, <1>2, <1>3, SumsAgree
<1>5. SumOf(S) = g[S] /\ SumOf(rest) = h[rest]
  BY DEF SumOf
<1>6. g[S] = IF S = {} THEN 0 ELSE Pnl(Pick(S)) + g[rest]
  BY <1>1 DEF IsSum
<1> QED BY <1>4, <1>5, <1>6

\* A sum of whole amounts is one.
LEMMA SumType ==
  ASSUME NEW S, IsFiniteSet(S), \A x \in S : Pnl(x) \in Int
  PROVE  SumOf(S) \in Int
<1> DEFINE Bad == {T \in SUBSET S : SumOf(T) \notin Int}
<1> SUFFICES ASSUME Bad # {} PROVE FALSE
  OBVIOUS
<1>1. PICK T \in Bad : \A U \in Bad : U \subseteq T => U = T
  <2>1. Bad \in SUBSET (SUBSET S)
    OBVIOUS
  <2> HIDE DEF Bad
  <2> QED BY <2>1, SmallestBad
<1>2. T \in SUBSET S /\ SumOf(T) \notin Int /\ IsFiniteSet(T)
  BY FS_Subset
<1>3. T # {}
  BY <1>2, SumEquation
<1> DEFINE rest == T \ {Pick(T)}
<1>4. SumOf(T) = Pnl(Pick(T)) + SumOf(rest) /\ Pick(T) \in T
  BY <1>2, <1>3, SumEquation, PickIn
<1>5. SumOf(rest) \in Int
  BY <1>1, <1>2, <1>4
<1> QED BY <1>2, <1>4, <1>5

\* Any element may be taken out first.
LEMMA SumRemove ==
  ASSUME NEW S, IsFiniteSet(S), \A x \in S : Pnl(x) \in Int
  PROVE  \A x \in S : SumOf(S) = Pnl(x) + SumOf(S \ {x})
<1> DEFINE Bad == {T \in SUBSET S : \E x \in T : SumOf(T) # Pnl(x) + SumOf(T \ {x})}
<1> SUFFICES ASSUME Bad # {} PROVE FALSE
  OBVIOUS
<1>1. PICK T \in Bad : \A U \in Bad : U \subseteq T => U = T
  <2>1. Bad \in SUBSET (SUBSET S)
    OBVIOUS
  <2> HIDE DEF Bad
  <2> QED BY <2>1, SmallestBad
<1>2. PICK x \in T : SumOf(T) # Pnl(x) + SumOf(T \ {x})
  OBVIOUS
<1>3. T \in SUBSET S /\ IsFiniteSet(T)
  BY FS_Subset
<1> DEFINE y == Pick(T)
<1>4. y \in T /\ SumOf(T) = Pnl(y) + SumOf(T \ {y})
  BY <1>2, <1>3, SumEquation, PickIn
<1> HIDE DEF y
<1>5. y # x
  BY <1>2, <1>4
<1>6. SumOf(T \ {y}) = Pnl(x) + SumOf((T \ {y}) \ {x})
  BY <1>1, <1>2, <1>3, <1>4, <1>5
<1>7. SumOf(T \ {x}) = Pnl(y) + SumOf((T \ {x}) \ {y})
  BY <1>1, <1>2, <1>3, <1>4, <1>5
<1>8. (T \ {y}) \ {x} = (T \ {x}) \ {y}
  OBVIOUS
<1>9. SumOf((T \ {x}) \ {y}) \in Int /\ Pnl(x) \in Int /\ Pnl(y) \in Int
  <2>1. IsFiniteSet((T \ {x}) \ {y}) /\ \A z \in (T \ {x}) \ {y} : Pnl(z) \in Int
    BY <1>3, FS_Subset
  <2> QED BY <1>2, <1>3, <1>4, <2>1, SumType
<1> QED BY <1>2, <1>4, <1>6, <1>7, <1>8, <1>9

\* A new trade adds what it brings.
LEMMA SumAdd ==
  ASSUME NEW S, IsFiniteSet(S), NEW x, x \notin S, \A y \in S \cup {x} : Pnl(y) \in Int
  PROVE  SumOf(S \cup {x}) = SumOf(S) + Pnl(x) /\ SumOf(S) \in Int
<1>1. IsFiniteSet(S \cup {x}) /\ (S \cup {x}) \ {x} = S
  BY FS_AddElement
<1>2. SumOf(S \cup {x}) = Pnl(x) + SumOf(S)
  BY <1>1, SumRemove
<1>3. SumOf(S) \in Int
  BY SumType
<1> QED BY <1>2, <1>3

\* Which is the fold that the property is stated with.
LEMMA SumIsFold ==
  ASSUME NEW S
  PROVE  MapThenSumSet(LAMBDA trade : Points(trade) * trade.qty, S) = SumOf(S)
BY DEF MapThenSumSet, MapThenFoldSet, SumOf, IsSum, Pick, Pnl

-----------------------------------------------------------------------------
(* The day's trades are counted *)

Today(day1) == {trade \in closed : trade.day = day1}

\* Trades are booked under rows that have been delivered, none ahead of the
\* counters' day.
Booked ==
  /\ counters.day <= day
  /\ \A trade \in closed : trade.day <= counters.day
  /\ \A trade \in closed \cup btTrades :
       trade.day <= day /\ (trade.day = day => trade.tod <= seen[trade.sym])

\* day_trades is the number of today's trades, and the cap bounds it together
\* with the open positions, which may still close.
Counted ==
  /\ IsFiniteSet(Today(counters.day))
  /\ counters.trades = Cardinality(Today(counters.day))
  /\ CapOvershoot

\* The rows of a step, and the trades they book.
LEMMA BookedStep ==
  ASSUME Sane, Booked, [Next]_vars
  PROVE  Booked'
<1>1. ASSUME NEW s \in Symbols, Deliver(s)
      PROVE  Booked'
  <2>1. PICK row \in Row :
          /\ row.day = day /\ row.tod = seen[s] + 1
          /\ OnBar(s, levels[s], row) /\ SessionBar(s, levels[s], row)
    BY <1>1, DeliverFacts
  <2>3. /\ seen' = [seen EXCEPT ![s] = seen[s] + 1] /\ day' = day
        /\ seen \in [Symbols -> Nat] /\ day \in Nat
    BY <1>1, DeliverFacts DEF Sane, TypeOK
  <2>4. \A t \in Symbols : seen'[t] >= seen[t]
    BY <2>3
  <2>5. \A pos, exit : LET trade == Trade(s, pos, exit, row)
                      IN  trade.sym = s /\ trade.day = day /\ trade.tod = seen'[s]
    BY <2>1, <2>3 DEF Trade
  <2>6. /\ \A trade \in closed' :
             \/ trade \in closed
             \/ trade.sym = s /\ trade.day = day /\ trade.tod = seen'[s]
        /\ counters'.day = day
    <3>1. RolledCounters(row).day = day
      BY <2>1 DEF RolledCounters
    <3>2. CASE Exit(s, row)
      <4>1. PICK exit \in ExitOf(positions[s], row) :
              /\ closed' = closed \cup {Trade(s, positions[s], exit, row)}
              /\ counters' = [RolledCounters(row) EXCEPT
                                !.pnl = @ + Points(Trade(s, positions[s], exit, row))
                                              * Trade(s, positions[s], exit, row).qty,
                                !.trades = @ + 1]
        BY <3>2 DEF Exit
      <4>2. RolledCounters(row) \in Counters
        BY <2>1, <2>3 DEF RolledCounters, Counters, Sane, TypeOK, EngineTypeOK
      <4>3. counters'.day = day
        BY <3>1, <4>1, <4>2 DEF Counters
      <4> QED BY <2>5, <4>1, <4>3
    <3>3. CASE ~Exit(s, row)
      <4>1. closed' = closed
        BY <2>1, <3>3 DEF OnBar, Reject, Enter, StayFlat, Hold
      <4>2. counters' = RolledCounters(row)
            \/ counters' = [RolledCounters(row) EXCEPT !.rejections = @ + 1]
        BY <2>1, <3>3 DEF OnBar, Reject, Enter, StayFlat, Hold
      <4>3. RolledCounters(row) \in Counters
        BY <2>1, <2>3 DEF RolledCounters, Counters, Sane, TypeOK, EngineTypeOK
      <4>4. counters'.day = day
        BY <3>1, <4>2, <4>3 DEF Counters
      <4> QED BY <4>1, <4>4
    <3> QED BY <3>2, <3>3
  <2>7. \A trade \in btTrades' :
          \/ trade \in btTrades
          \/ trade.sym = s /\ trade.day = day /\ trade.tod = seen'[s]
    <3>1. CASE btTrades' # btTrades
      <4>1. PICK exit : btTrades' = btTrades \cup {Trade(s, btPosition[s], exit, row)}
        BY <2>1, <3>1 DEF SessionBar, backtest
      <4> QED BY <2>5, <4>1
    <3> QED BY <3>1
  <2>8. \A trade \in closed \cup btTrades : /\ trade.sym \in Symbols /\ trade.day \in Nat
                                           /\ trade.tod \in Nat
    BY DEF Sane, TypeOK, EngineTypeOK, TradeRecord
  <2>9. \A trade \in closed \cup btTrades :
          trade.day <= day /\ (trade.day = day => trade.tod <= seen'[trade.sym])
    BY <2>3, <2>4, <2>8 DEF Booked
  <2>10. seen'[s] \in Nat
    BY <2>3
  <2> QED BY <2>3, <2>6, <2>7, <2>9, <2>10 DEF Booked
<1>2. CASE NextSession
  <2>1. /\ day' = day + 1 /\ UNCHANGED <<closed, counters, btTrades>>
    BY <1>2 DEF NextSession, StartSession, engine
  <2>2. /\ day \in Nat /\ counters.day \in Nat
        /\ \A trade \in closed \cup btTrades : trade.day \in Nat
    BY DEF Sane, TypeOK, EngineTypeOK, TradeRecord, Counters
  <2> QED BY <2>1, <2>2 DEF Booked
<1>3. CASE UNCHANGED vars
  BY <1>3 DEF Booked, vars, engine, backtest
<1> QED BY <1>1, <1>2, <1>3 DEF Next

\* A bar books one new trade for its symbol and closes its position, or books
\* none; and the counters move along.
LEMMA BarBooks ==
  ASSUME Sane, Booked, NEW s \in Symbols, NEW row \in Row, row.day = day,
         row.tod = seen[s] + 1, OnBar(s, levels[s], row)
  PROVE  /\ counters'.day = day
         /\ RolledCounters(row).trades \in Nat
         /\ \/ /\ \E trade : /\ closed' = closed \cup {trade} /\ trade \notin closed
                             /\ trade.day = day
                             /\ counters'.pnl = RolledCounters(row).pnl + Pnl(trade)
               /\ s \in DOMAIN positions /\ DOMAIN positions' = DOMAIN positions \ {s}
               /\ counters'.trades = RolledCounters(row).trades + 1
            \/ /\ closed' = closed
               /\ counters'.trades = RolledCounters(row).trades
               /\ counters'.pnl = RolledCounters(row).pnl
               /\ \/ DOMAIN positions' = DOMAIN positions
                  \/ EntryAllowed(row) /\ DOMAIN positions' = DOMAIN positions \cup {s}
<1> DEFINE now == RolledCounters(row)
<1>1. now \in Counters /\ now.day = day
  BY DEF RolledCounters, Counters, Sane, TypeOK, EngineTypeOK, Row
<1>2. now.trades \in Nat
  BY <1>1 DEF Counters
<1> HIDE DEF now
<1>3. CASE Exit(s, row)
  <2>1. PICK exit \in ExitOf(positions[s], row) :
          LET trade == Trade(s, positions[s], exit, row)
          IN  /\ closed' = closed \cup {trade}
              /\ counters' = [now EXCEPT !.pnl = @ + Points(trade) * trade.qty,
                                         !.trades = @ + 1]
    BY <1>3 DEF Exit, now
  <2> DEFINE trade == Trade(s, positions[s], exit, row)
  <2>2. trade.sym = s /\ trade.day = day /\ trade.tod = seen[s] + 1
    BY DEF Trade
  <2>3. closed' = closed \cup {trade}
    BY <2>1
  <2>4. /\ counters'.day = day /\ counters'.trades = now.trades + 1
        /\ counters'.pnl = now.pnl + Pnl(trade)
    BY <1>1, <2>1 DEF Counters, Pnl
  <2> HIDE DEF trade
  <2>5. trade \notin closed
    <3>1. seen[s] \in Nat
      BY DEF Sane, TypeOK
    <3> QED BY <2>2, <3>1 DEF Booked
  <2>6. s \in DOMAIN positions /\ DOMAIN positions' = DOMAIN positions \ {s}
    BY <1>3 DEF Exit, Del
  <2> QED BY <1>2, <2>2, <2>3, <2>4, <2>5, <2>6 DEF now
<1>4. CASE Reject(s, row) \/ StayFlat(s, levels[s], row) \/ Hold(s, row)
  <2>1. /\ closed' = closed
        /\ counters' = now \/ counters' = [now EXCEPT !.rejections = @ + 1]
    BY <1>4 DEF Reject, StayFlat, Hold, now
  <2>2. counters'.day = day /\ counters'.trades = now.trades /\ counters'.pnl = now.pnl
    BY <1>1, <2>1 DEF Counters
  <2>3. DOMAIN positions' = DOMAIN positions
    BY <1>4 DEF Reject, StayFlat, Hold, Put
  <2> QED BY <1>2, <2>1, <2>2, <2>3 DEF now
<1>5. CASE Enter(s, levels[s], row)
  <2>1. closed' = closed /\ counters' = now /\ EntryAllowed(row)
    BY <1>5 DEF Enter, now
  <2>2. DOMAIN positions' = DOMAIN positions \cup {s}
    BY <1>5 DEF Enter, Put
  <2> QED BY <1>1, <1>2, <2>1, <2>2 DEF now
<1> QED BY <1>3, <1>4, <1>5 DEF OnBar

\* Open positions are as many as there are symbols, at most.
LEMMA OpenPositions ==
  ASSUME NEW S \in SUBSET Symbols
  PROVE  /\ IsFiniteSet(S) /\ Cardinality(S) \in Nat /\ Cardinality(Symbols) \in Nat
         /\ Cardinality(S) <= Cardinality(Symbols)
BY ReplayAssumption, FS_Subset, FS_CardinalityType

LEMMA CountedStep ==
  ASSUME Sane, Booked, Counted, [Next]_vars
  PROVE  Counted'
<1> DEFINE open == Cardinality(DOMAIN positions)
           all  == Cardinality(Symbols)
           n    == Cardinality(Today(counters.day))
<1>1. /\ DOMAIN positions \in SUBSET Symbols /\ counters.day \in Nat /\ day \in Nat
      /\ MaxTradesPerDay \in Nat
  BY EngineAssumption DEF Sane, TypeOK, EngineTypeOK, IsDict, Counters
<1>2. n \in Nat /\ n = counters.trades /\ (MaxTradesPerDay > 0 => n + open < MaxTradesPerDay + all)
  BY FS_CardinalityType DEF Counted, CapOvershoot, Today
<1>3. ASSUME NEW s \in Symbols, Deliver(s)
      PROVE  Counted'
  <2>1. PICK row \in Row : row.day = day /\ row.tod = seen[s] + 1 /\ OnBar(s, levels[s], row)
    BY <1>3, DeliverFacts
  <2> DEFINE before == Today(day)
             after  == {trade \in closed' : trade.day = day}
             k      == RolledCounters(row).trades
  <2>2. IsFiniteSet(before) /\ k = Cardinality(before) /\ k \in Nat
        /\ (MaxTradesPerDay > 0 => k + open < MaxTradesPerDay + all)
    <3>1. CASE counters.day = day
      BY <1>2, <2>1, <3>1 DEF RolledCounters, Counted
    <3>2. CASE counters.day # day
      <4>1. before = {}
        <5>1. counters.day < day
          BY <1>1, <3>2 DEF Booked
        <5>2. \A trade \in closed : trade.day \in Nat /\ trade.day <= counters.day
          BY DEF Booked, Sane, TypeOK, EngineTypeOK, TradeRecord
        <5>3. \A trade \in closed : trade.day # day
          BY <1>1, <5>1, <5>2
        <5> QED BY <5>3 DEF Today
      <4>2. k = 0
        BY <2>1, <3>2 DEF RolledCounters
      <4>3. open \in Nat /\ all \in Nat /\ open <= all
        BY <1>1, OpenPositions
      <4>4. Cardinality(before) = 0 /\ IsFiniteSet(before)
        BY <4>1, FS_EmptySet
      <4> QED BY <1>1, <4>2, <4>3, <4>4
    <3> QED BY <3>1, <3>2
  <2>3. counters'.day = day
    BY <2>1, BarBooks
  <2>4. ASSUME IsFiniteSet(after), counters'.trades = Cardinality(after),
               MaxTradesPerDay > 0 =>
                 Cardinality(after) + Cardinality(DOMAIN positions') < MaxTradesPerDay + all
        PROVE  Counted'
    BY <2>3, <2>4 DEF Counted, CapOvershoot, Today
  <2>5. CASE /\ \E trade : closed' = closed \cup {trade} /\ trade \notin closed /\ trade.day = day
             /\ s \in DOMAIN positions /\ DOMAIN positions' = DOMAIN positions \ {s}
             /\ counters'.trades = k + 1
    <3>1. PICK trade : closed' = closed \cup {trade} /\ trade \notin closed /\ trade.day = day
      BY <2>5
    <3>2. after = before \cup {trade} /\ trade \notin before
      BY <3>1 DEF Today
    <3>3. IsFiniteSet(after) /\ Cardinality(after) = k + 1
      BY <2>2, <3>2, FS_AddElement
    <3>4. Cardinality(DOMAIN positions') = open - 1
      BY <1>1, <2>5, OpenPositions, FS_RemoveElement
    <3>5. open \in Nat /\ all \in Nat
      BY <1>1, OpenPositions
    <3> HIDE DEF after, open, all, k
    <3> QED BY <1>1, <2>2, <2>4, <2>5, <3>3, <3>4, <3>5
  <2>6. CASE closed' = closed /\ counters'.trades = k
    <3>1. after = before
      BY <2>6 DEF Today
    <3>2. CASE DOMAIN positions' = DOMAIN positions
      BY <2>2, <2>4, <2>6, <3>1, <3>2
    <3>3. CASE EntryAllowed(row) /\ DOMAIN positions' = DOMAIN positions \cup {s}
      <4>1. k < MaxTradesPerDay
        BY <3>3 DEF EntryAllowed
      <4>2. /\ Cardinality(DOMAIN positions') \in Nat /\ all \in Nat
            /\ Cardinality(DOMAIN positions') <= all
        BY <1>1, <3>3, OpenPositions
      <4> HIDE DEF after, all, k
      <4> QED BY <1>1, <2>2, <2>4, <2>6, <3>1, <4>1, <4>2
    <3> QED BY <2>1, <2>5, <2>6, <3>2, <3>3, BarBooks
  <2> QED BY <2>1, <2>5, <2>6, BarBooks
<1>4. CASE NextSession
  BY <1>4 DEF NextSession, engine, Counted, CapOvershoot, Today
<1>5. CASE UNCHANGED vars
  BY <1>5 DEF vars, engine, Counted, CapOvershoot, Today
<1> QED BY <1>3, <1>4, <1>5 DEF Next

\* The trades of a day are counted, each once.
THEOREM TradesCounted == Spec => [](Booked /\ Counted)
<1>1. Init => Booked /\ Counted
  <2> SUFFICES ASSUME Init PROVE Booked /\ Counted
    OBVIOUS
  <2>1. /\ closed = {} /\ btTrades = {} /\ counters.day = 0 /\ counters.trades = 0 /\ day = 0
        /\ DOMAIN positions = {}
    BY DEF Init, EngineInit, BacktestInit, EmptyDict
  <2>2. {trade \in closed : trade.day = counters.day} = {}
    BY <2>1
  <2>3. IsFiniteSet({}) /\ Cardinality({}) = 0
    BY FS_EmptySet
  <2>4. Cardinality(Symbols) \in Nat /\ MaxTradesPerDay \in Nat
    BY ReplayAssumption, FS_CardinalityType, EngineAssumption
  <2>5. CapOvershoot
    BY <2>1, <2>2, <2>3, <2>4 DEF CapOvershoot
  <2>6. Booked
    BY <2>1 DEF Booked
  <2>7. Today(counters.day) = {}
    BY <2>1 DEF Today
  <2> QED BY <2>1, <2>3, <2>5, <2>6, <2>7 DEF Counted
<1>2. Sane /\ Booked /\ Counted /\ [Next]_vars => Booked' /\ Counted'
  BY BookedStep, CountedStep
<1> QED BY <1>1, <1>2, Sanity, PTL DEF Spec

\* The trades of a day exceed the cap by less than one per symbol.
THEOREM CapIsOvershotByLess == Spec => []CapOvershoot
<1>1. Counted => CapOvershoot
  BY DEF Counted
<1> QED BY <1>1, TradesCounted, PTL

\* day_pnl is the sum of today's trades.
Summed == counters.pnl = SumOf(Today(counters.day))

LEMMA SummedStep ==
  ASSUME Sane, Sane', Booked, Counted, Summed, [Next]_vars
  PROVE  Summed'
<1>1. ASSUME NEW s \in Symbols, Deliver(s)
      PROVE  Summed'
  <2>1. PICK row \in Row : row.day = day /\ row.tod = seen[s] + 1 /\ OnBar(s, levels[s], row)
    BY <1>1, DeliverFacts
  <2> DEFINE before == Today(day)
             after  == {trade \in closed' : trade.day = day}
             now    == RolledCounters(row)
  <2>2. IsFiniteSet(before) /\ now.pnl = SumOf(before)
    <3>1. CASE counters.day = day
      BY <2>1, <3>1 DEF RolledCounters, Counted, Summed
    <3>2. CASE counters.day # day
      <4>1. before = {}
        <5>1. /\ counters.day \in Nat /\ day \in Nat /\ counters.day <= day
              /\ \A trade \in closed : trade.day \in Nat /\ trade.day <= counters.day
          BY DEF Booked, Sane, TypeOK, EngineTypeOK, TradeRecord, Counters
        <5> QED BY <3>2, <5>1 DEF Today
      <4>2. now.pnl = 0
        BY <2>1, <3>2 DEF RolledCounters
      <4> QED BY <4>1, <4>2, SumEquation, FS_EmptySet
    <3> QED BY <3>1, <3>2
  <2>3. counters'.day = day
    BY <2>1, BarBooks
  <2>4. ASSUME counters'.pnl = SumOf(after)
        PROVE  Summed'
    BY <2>3, <2>4 DEF Summed, Today
  <2>5. CASE \E trade : /\ closed' = closed \cup {trade} /\ trade \notin closed
                       /\ trade.day = day
                       /\ counters'.pnl = now.pnl + Pnl(trade)
    <3>1. PICK trade : /\ closed' = closed \cup {trade} /\ trade \notin closed
                       /\ trade.day = day
                       /\ counters'.pnl = now.pnl + Pnl(trade)
      BY <2>5
    <3>2. after = before \cup {trade} /\ trade \notin before
      BY <3>1 DEF Today
    <3>3. \A x \in after : Pnl(x) \in Int
      <4>1. after \subseteq TradeRecord
        BY DEF Sane, TypeOK, EngineTypeOK
      <4> HIDE DEF after
      <4> QED BY <4>1, PnlType
    <3> HIDE DEF after, before, now
    <3>4. SumOf(after) = SumOf(before) + Pnl(trade)
      BY <2>2, <3>2, <3>3, SumAdd
    <3> QED BY <2>2, <2>4, <3>1, <3>4
  <2>6. CASE closed' = closed /\ counters'.pnl = now.pnl
    <3>1. after = before
      BY <2>6 DEF Today
    <3> QED BY <2>2, <2>4, <2>6, <3>1
  <2> QED BY <2>1, <2>5, <2>6, BarBooks
<1>2. CASE NextSession
  BY <1>2 DEF NextSession, engine, Summed, Today
<1>3. CASE UNCHANGED vars
  BY <1>3 DEF vars, engine, Summed, Today
<1> QED BY <1>1, <1>2, <1>3 DEF Next

\* day_trades and day_pnl are the number and the sum of today's trades, over
\* day rolls, exits and rejections.
THEOREM CountersAreTrue == Spec => []CountersMatchToday
<1>1. Init => Summed
  <2> SUFFICES ASSUME Init PROVE Summed
    OBVIOUS
  <2>1. closed = {} /\ counters.pnl = 0
    BY DEF Init, EngineInit
  <2>2. Today(counters.day) = {}
    BY <2>1 DEF Today
  <2> QED BY <2>1, <2>2, SumEquation, FS_EmptySet DEF Summed
<1>2. Sane /\ Sane' /\ Booked /\ Counted /\ Summed /\ [Next]_vars => Summed'
  BY SummedStep
<1>3. Counted /\ Summed => CountersMatchToday
  BY SumIsFold DEF Counted, Summed, CountersMatchToday, Today
<1> QED BY <1>1, <1>2, <1>3, Sanity, TradesCounted, PTL DEF Spec

-----------------------------------------------------------------------------
(* Parity *)

\* Both engines hold the same position of s and have not left one yet; or the
\* one trade of BACKTEST is the first of PAPER.
SameSoFar(s) ==
  \/ /\ TradesOf(closed, s) = {} /\ TradesOf(btTrades, s) = {}
     /\ s \in DOMAIN positions <=> s \in DOMAIN btPosition
     /\ s \in DOMAIN positions => positions[s] = btPosition[s]
  \/ \E trade \in TradesOf(closed, s) :
       /\ TradesOf(btTrades, s) = {trade}
       /\ \A other \in TradesOf(closed, s) : other = trade \/ trade.tod < other.tod

Parity == \A s \in Symbols \ apart : SameSoFar(s)

\* Which implies what is checked.
LEMMA SameFirst ==
  ASSUME Sane, NEW s \in Symbols, SameSoFar(s)
  PROVE  /\ FirstOf(closed, s) = FirstOf(btTrades, s)
         /\ FirstOf(closed, s) = {} =>
              /\ s \in DOMAIN positions <=> s \in DOMAIN btPosition
              /\ s \in DOMAIN positions => positions[s] = btPosition[s]
<1>1. CASE TradesOf(closed, s) = {}
  BY <1>1 DEF SameSoFar, FirstOf
<1>2. CASE \E trade \in TradesOf(closed, s) :
             /\ TradesOf(btTrades, s) = {trade}
             /\ \A other \in TradesOf(closed, s) : other = trade \/ trade.tod < other.tod
  <2>1. PICK trade \in TradesOf(closed, s) :
          /\ TradesOf(btTrades, s) = {trade}
          /\ \A other \in TradesOf(closed, s) : other = trade \/ trade.tod < other.tod
    BY <1>2
  <2>2. \A other \in TradesOf(closed, s) : other.tod \in Nat
    BY DEF TradesOf, Sane, TypeOK, EngineTypeOK, TradeRecord
  <2>3. FirstOf(btTrades, s) = {trade}
    BY <2>1, <2>2 DEF FirstOf
  <2>4. FirstOf(closed, s) = {trade}
    BY <2>1, <2>2 DEF FirstOf
  <2> QED BY <2>3, <2>4
<1> QED BY <1>1, <1>2 DEF SameSoFar

\* A bar of one symbol leaves the others alone.
LEMMA OthersKept ==
  ASSUME NEW r \in Symbols, NEW row, OnBar(r, levels[r], row), SessionBar(r, levels[r], row),
         NEW s \in Symbols, s # r, day' = day
  PROVE  /\ TradesOf(closed, s)' = TradesOf(closed, s)
         /\ TradesOf(btTrades, s)' = TradesOf(btTrades, s)
         /\ s \in DOMAIN positions' <=> s \in DOMAIN positions
         /\ s \in DOMAIN positions => positions'[s] = positions[s]
         /\ s \in DOMAIN btPosition' <=> s \in DOMAIN btPosition
         /\ s \in DOMAIN btPosition => btPosition'[s] = btPosition[s]
<1>1. \A pos, exit : Trade(r, pos, exit, row).sym # s
  BY DEF Trade
<1>2. closed' = closed \/ \E trade : closed' = closed \cup {trade} /\ trade.sym # s
  BY <1>1 DEF OnBar, Reject, Enter, StayFlat, Exit, Hold
<1>3. btTrades' = btTrades \/ \E trade : btTrades' = btTrades \cup {trade} /\ trade.sym # s
  BY <1>1 DEF SessionBar, backtest
<1>4. /\ TradesOf(closed, s)' = TradesOf(closed, s)
      /\ TradesOf(btTrades, s)' = TradesOf(btTrades, s)
  BY <1>2, <1>3 DEF TradesOf
<1>5. \/ positions' = positions \/ positions' = Del(positions, r)
      \/ \E pos : positions' = Put(positions, r, pos)
  BY DEF OnBar, Reject, Enter, StayFlat, Exit, Hold
<1>6. \/ btPosition' = btPosition \/ btPosition' = Del(btPosition, r)
      \/ \E pos : btPosition' = Put(btPosition, r, pos)
  BY DEF SessionBar, backtest
<1> QED BY <1>4, <1>5, <1>6 DEF Put, Del

\* Up to the first exit the two engines do the same.
LEMMA TogetherStep ==
  ASSUME Sane, Booked, NEW s \in Symbols, NEW row \in Row, row.day = day, day' = day,
         OnBar(s, levels[s], row), SessionBar(s, levels[s], row), ~TurnedAway(s, row),
         TradesOf(closed, s) = {}, TradesOf(btTrades, s) = {},
         s \in DOMAIN positions <=> s \in DOMAIN btPosition,
         s \in DOMAIN positions => positions[s] = btPosition[s]
  PROVE  SameSoFar(s)'
<1>1. ~SessionOver(s, row.day)
  BY DEF SessionOver, TradesOf
<1>2. CASE s \notin DOMAIN positions
  <2>1. EntryAllowed(row)
    BY <1>2 DEF TurnedAway
  <2>2. closed' = closed /\ btTrades' = btTrades
    BY <1>1, <1>2 DEF OnBar, Reject, Enter, StayFlat, Exit, Hold, SessionBar, backtest
  <2>3. TradesOf(closed, s)' = {} /\ TradesOf(btTrades, s)' = {}
    BY <2>2 DEF TradesOf
  <2>4. CASE EntrySides(levels[s], row) = {}
    <3>1. positions' = positions
      BY <1>2, <2>1, <2>4 DEF OnBar, Reject, Enter, StayFlat, Exit, Hold
    <3>2. btPosition' = btPosition
      BY <1>1, <1>2, <2>4 DEF SessionBar, backtest
    <3> QED BY <1>2, <2>3, <3>1, <3>2 DEF SameSoFar
  <2>5. CASE EntrySides(levels[s], row) # {}
    <3>1. PICK side \in EntrySides(levels[s], row) :
            positions' = Put(positions, s, OpenPosition(side, levels[s][side].entry,
                                                        levels[s][side], Quantity))
      BY <1>2, <2>1, <2>5 DEF OnBar, Reject, Enter, StayFlat, Exit, Hold
    <3>2. PICK btSide \in EntrySides(levels[s], row) :
            btPosition' = Put(btPosition, s, OpenPosition(btSide, levels[s][btSide].entry,
                                                          levels[s][btSide], BtQuantity))
      BY <1>1, <1>2, <2>5 DEF SessionBar, backtest
    <3>3. side = btSide
      BY EntryFacts
    <3>4. /\ s \in DOMAIN positions' /\ s \in DOMAIN btPosition'
          /\ positions'[s] = btPosition'[s]
      BY <3>1, <3>2, <3>3, SameQuantityAssumption DEF Put
    <3> QED BY <2>3, <3>4 DEF SameSoFar
  <2> QED BY <2>4, <2>5
<1>3. CASE s \in DOMAIN positions
  <2> DEFINE pos == positions[s]
  <2>1. s \in DOMAIN btPosition /\ btPosition[s] = pos
    BY <1>3
  <2>2. CASE ExitOf(pos, row) = {}
    <3>1. positions' = Put(positions, s, UpdateTrailing(pos, row.close)) /\ closed' = closed
      BY <1>3, <2>2 DEF OnBar, Reject, Enter, StayFlat, Exit, Hold
    <3>2. btPosition' = Put(btPosition, s, UpdateTrailing(pos, row.close)) /\ btTrades' = btTrades
      BY <1>1, <2>1, <2>2 DEF SessionBar
    <3>3. TradesOf(closed, s)' = {} /\ TradesOf(btTrades, s)' = {}
      BY <3>1, <3>2 DEF TradesOf
    <3>4. /\ s \in DOMAIN positions' /\ s \in DOMAIN btPosition'
          /\ positions'[s] = btPosition'[s]
      BY <3>1, <3>2 DEF Put
    <3> QED BY <3>3, <3>4 DEF SameSoFar
  <2>3. CASE ExitOf(pos, row) # {}
    <3>1. PICK exit \in ExitOf(pos, row) : closed' = closed \cup {Trade(s, pos, exit, row)}
      BY <1>3, <2>3 DEF OnBar, Reject, Enter, StayFlat, Exit, Hold
    <3>2. PICK btExit \in ExitOf(pos, row) :
            btTrades' = btTrades \cup {Trade(s, pos, btExit, row)}
      BY <1>1, <2>1, <2>3 DEF SessionBar
    <3>3. exit = btExit
      BY ExitFacts
    <3> DEFINE trade == Trade(s, pos, exit, row)
    <3>4. trade.sym = s /\ trade.day = day
      BY DEF Trade
    <3> HIDE DEF trade
    <3>5. TradesOf(closed, s)' = {trade} /\ TradesOf(btTrades, s)' = {trade}
      BY <3>1, <3>2, <3>3, <3>4 DEF TradesOf, trade
    <3> QED BY <3>5 DEF SameSoFar
  <2> QED BY <2>2, <2>3
<1> QED BY <1>2, <1>3

\* After it BACKTEST is done with the session, and PAPER's trades come later.
LEMMA ApartStep ==
  ASSUME Sane, Booked, NEW s \in Symbols, NEW row \in Row, row.day = day, day' = day,
         row.tod = seen[s] + 1,
         OnBar(s, levels[s], row), SessionBar(s, levels[s], row),
         NEW trade \in TradesOf(closed, s), TradesOf(btTrades, s) = {trade},
         \A other \in TradesOf(closed, s) : other = trade \/ trade.tod < other.tod
  PROVE  SameSoFar(s)'
<1>1. SessionOver(s, row.day)
  BY DEF SessionOver, TradesOf
<1>2. TradesOf(btTrades, s)' = {trade}
  BY <1>1 DEF SessionBar, backtest, TradesOf
<1>3. trade.tod <= seen[s] /\ seen[s] \in Nat /\ trade.tod \in Nat
  BY DEF Booked, TradesOf, Sane, TypeOK, EngineTypeOK, TradeRecord
<1>4. closed' = closed \/ \E exit : closed' = closed \cup {Trade(s, positions[s], exit, row)}
  BY DEF OnBar, Reject, Enter, StayFlat, Exit, Hold
<1>5. \A exit : Trade(s, positions[s], exit, row).tod = seen[s] + 1
  BY DEF Trade
<1>6. trade \in TradesOf(closed, s)'
  BY <1>4 DEF TradesOf
<1>7. \A other \in TradesOf(closed, s)' : other = trade \/ trade.tod < other.tod
  <2> SUFFICES ASSUME NEW other \in TradesOf(closed, s)' PROVE other = trade \/ trade.tod < other.tod
    OBVIOUS
  <2>1. other \in TradesOf(closed, s) \/ \E exit : other = Trade(s, positions[s], exit, row)
    BY <1>4 DEF TradesOf
  <2> QED BY <1>3, <1>5, <2>1
<1> QED BY <1>2, <1>6, <1>7 DEF SameSoFar

LEMMA ParityStep ==
  ASSUME Sane, Booked, Parity, [Next]_vars
  PROVE  Parity'
<1>1. ASSUME NEW r \in Symbols, Deliver(r)
      PROVE  Parity'
  <2>1. PICK row \in Row :
          /\ row.day = day /\ row.tod = seen[r] + 1
          /\ OnBar(r, levels[r], row) /\ SessionBar(r, levels[r], row)
          /\ apart' = IF TurnedAway(r, row) THEN apart \cup {r} ELSE apart
    BY <1>1, DeliverFacts
  <2>2. day' = day
    BY <1>1, DeliverFacts
  <2>3. ASSUME NEW s \in Symbols \ apart', s # r
        PROVE  SameSoFar(s)'
    <3>1. SameSoFar(s)
      BY <2>1, <2>3 DEF Parity
    <3>2. /\ TradesOf(closed, s)' = TradesOf(closed, s)
          /\ TradesOf(btTrades, s)' = TradesOf(btTrades, s)
          /\ s \in DOMAIN positions' <=> s \in DOMAIN positions
          /\ s \in DOMAIN positions => positions'[s] = positions[s]
          /\ s \in DOMAIN btPosition' <=> s \in DOMAIN btPosition
          /\ s \in DOMAIN btPosition => btPosition'[s] = btPosition[s]
      BY <2>1, <2>2, <2>3, OthersKept
    <3> QED BY <3>1, <3>2 DEF SameSoFar
  <2>4. ASSUME r \notin apart'
        PROVE  SameSoFar(r)'
    <3>1. ~TurnedAway(r, row) /\ SameSoFar(r)
      BY <2>1, <2>4 DEF Parity
    <3>2. CASE /\ TradesOf(closed, r) = {} /\ TradesOf(btTrades, r) = {}
               /\ r \in DOMAIN positions <=> r \in DOMAIN btPosition
               /\ r \in DOMAIN positions => positions[r] = btPosition[r]
      BY <2>1, <2>2, <3>1, <3>2, TogetherStep
    <3>3. CASE \E trade \in TradesOf(closed, r) :
                 /\ TradesOf(btTrades, r) = {trade}
                 /\ \A other \in TradesOf(closed, r) : other = trade \/ trade.tod < other.tod
      BY <2>1, <2>2, <3>3, ApartStep
    <3> QED BY <3>1, <3>2, <3>3 DEF SameSoFar
  <2>5. ASSUME NEW s \in Symbols \ apart'
        PROVE  SameSoFar(s)'
    BY <2>3, <2>4, <2>5
  <2> QED BY <2>5 DEF Parity
<1>2. CASE NextSession
  <2>1. /\ day' = day + 1 /\ apart' = DOMAIN positions /\ UNCHANGED engine
        /\ btPosition' = EmptyDict /\ btTrades' = btTrades
    BY <1>2 DEF NextSession, StartSession
  <2>2. /\ day \in Nat
        /\ \A trade \in closed \cup btTrades : trade.day \in Nat /\ trade.day <= day
    BY DEF Booked, Sane, TypeOK, EngineTypeOK, TradeRecord
  <2>3. ASSUME NEW s \in Symbols \ apart'
        PROVE  SameSoFar(s)'
    <3>1. TradesOf(closed, s)' = {} /\ TradesOf(btTrades, s)' = {}
      BY <2>1, <2>2 DEF TradesOf, engine
    <3>2. s \notin DOMAIN positions' /\ s \notin DOMAIN btPosition'
      BY <2>1, <2>3 DEF engine, EmptyDict
    <3> QED BY <3>1, <3>2 DEF SameSoFar
  <2> QED BY <2>3 DEF Parity
<1>3. CASE UNCHANGED vars
  BY <1>3 DEF Parity, SameSoFar, TradesOf, vars, engine, backtest
<1> QED BY <1>1, <1>2, <1>3 DEF Next

\* In a session that PAPER begins flat and is let into, the two engines agree
\* bar for bar up to the first exit, and on that trade.
THEOREM SessionsAgree == Spec => []SameSession
<1>1. Init => Parity
  BY DEF Init, EngineInit, BacktestInit, EmptyDict, Parity, SameSoFar, TradesOf
<1>2. Sane /\ Booked /\ Parity /\ [Next]_vars => Parity'
  BY ParityStep
<1>3. Sane /\ Parity => SameSession
  BY SameFirst DEF Parity, SameSession
<1> QED BY <1>1, <1>2, <1>3, Sanity, TradesCounted, PTL DEF Spec
=============================================================================
