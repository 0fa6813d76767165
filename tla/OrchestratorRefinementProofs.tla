-------------------- MODULE OrchestratorRefinementProofs --------------------
(***************************************************************************)
(* The Orchestrator implements the OCO bracket, and what that needs beyond *)
(* the invariant of OrchestratorProofs: where a pair's levels and a        *)
(* position's stop come from, and that one process places one pair.  And   *)
(* what follows from it: the trailing stop, the anchors, that tracked      *)
(* pairs are live and that every fill is accounted for.                    *)
(***************************************************************************)
EXTENDS OrchestratorProofs, OrchestratorRefinement, FiniteSetTheorems

-----------------------------------------------------------------------------
(* The strengthening *)

\* A tracked pair's levels are those of some anchor.
LevelsOnAnchor ==
  \A s \in DOMAIN pairs : \E anchor \in Int : pairs[s].levels = BuildOrderLevels(anchor)

\* A position's stop is the initial one or the one its lock step has bought,
\* and its lock step the one its best close has bought.
StopsBought ==
  \A s \in DOMAIN positions : StopBought(positions[s]) /\ LockCurrent(positions[s])

\* Why a process does not place twice: a symbol that it has placed for has its
\* pair or its position still, or it is too late to place.
PlacedOnce ==
  crashes = 0 =>
    \A s \in Symbols :
      /\ issued[s] <= 1
      /\ issued[s] > 0 => \/ s \in DOMAIN pairs \cup DOMAIN positions
                          \/ clock.tod >= NoNewTradeAfter

\* A pair with a leg at rest names two orders of its symbol.  (A pair that was
\* reloaded has none at rest: its ids may name orders of others by now.)
LegsShareSymbol ==
  \A i \in OpenOrders(orders) : \A side \in Side :
    LET peer == pairs[orders[i].sym].leg[side]
    IN  peer \in DOMAIN orders /\ orders[peer].sym = orders[i].sym

Bracketed == Safe /\ LevelsOnAnchor /\ StopsBought /\ PlacedOnce /\ LegsShareSymbol

-----------------------------------------------------------------------------
(* Levels, quotes and fills *)

\* The long leg's trigger lies above the short leg's.
LEMMA LegsApart ==
  ASSUME NEW anchor \in Int
  PROVE  BuildOrderLevels(anchor)["LONG"].entry > BuildOrderLevels(anchor)["SHORT"].entry
<1> DEFINE long  == RoundToTick(anchor + TriggerDist)
           short == RoundToTick(anchor - TriggerDist)
<1>1. TriggerDist \in Nat /\ TickSize \in Nat
  BY LevelsAssumption
<1>2. anchor + Sign("LONG") * TriggerDist = anchor + TriggerDist
      /\ anchor + Sign("SHORT") * TriggerDist = anchor - TriggerDist
  BY <1>1 DEF Sign
<1>3. BuildOrderLevels(anchor)["LONG"].entry = long
      /\ BuildOrderLevels(anchor)["SHORT"].entry = short
  BY <1>2 DEF BuildOrderLevels, LegLevels, Side
<1>4. long \in Int /\ short \in Int
  BY <1>1, RoundToTickType
<1>5. 2 * long >= 2 * (anchor + TriggerDist) - TickSize
      /\ 2 * short <= 2 * (anchor - TriggerDist) + TickSize
  BY <1>1, RoundToTickNear
<1> HIDE DEF long, short
<1> QED BY <1>1, <1>3, <1>4, <1>5, LegsApartAssumption

\* Hence a quote crosses one leg of a pair at most: the one reported first.
LEMMA OneFill ==
  ASSUME TypeOK, RestingOrdersArePaired, LevelsOnAnchor, NEW s \in Symbols, NEW ltp \in Nat,
         Crossed(orders, s, ltp) # {}
  PROVE  Crossed(orders, s, ltp) = {First(Crossed(orders, s, ltp))}
<1> DEFINE fills == Crossed(orders, s, ltp)
<1>1. s \in DOMAIN pairs /\ First(fills) \in fills
  BY FillsAreLegs
<1>2. \A i \in fills : /\ i = pairs[s].leg[orders[i].side]
                       /\ orders[i].trigger = pairs[s].levels[orders[i].side].entry
                       /\ orders[i] \in Order(Symbols)
  BY <1>1, FillsAreLegs
<1>3. PICK anchor \in Int : pairs[s].levels = BuildOrderLevels(anchor)
  BY <1>1 DEF LevelsOnAnchor
<1>4. pairs[s].levels["LONG"].entry > pairs[s].levels["SHORT"].entry
  BY <1>3, LegsApart
<1>5. /\ pairs[s].levels["LONG"].entry \in Int /\ pairs[s].levels["SHORT"].entry \in Int
  <2>1. pairs[s] \in Pair
    BY <1>1 DEF TypeOK, IsDict
  <2>2. pairs[s].levels["LONG"] \in Level /\ pairs[s].levels["SHORT"] \in Level
    BY <2>1 DEF Pair, Side
  <2> QED BY <2>2 DEF Level
<1>6. ASSUME NEW i \in fills, NEW j \in fills PROVE orders[i].side = orders[j].side
  <2>1. orders[i].side \in Side /\ orders[j].side \in Side
    BY <1>2 DEF Order
  <2>2. \A k \in fills : /\ orders[k].side = "LONG" => ltp >= orders[k].trigger
                         /\ orders[k].side # "LONG" => ltp <= orders[k].trigger
    BY DEF Crossed
  <2> QED BY <1>2, <1>4, <1>5, <2>1, <2>2 DEF Side
<1> QED BY <1>1, <1>2, <1>6

\* Cancelling fills nothing, a tick fills what it crosses.
LEMMA FilledIdsFacts ==
  ASSUME NEW ids, NEW s, NEW ltp, NEW ords \in Seq(Order(Symbols))
  PROVE  /\ FilledIds(CancelOrders(ords, ids)) = FilledIds(ords)
         /\ FilledIds(FilledOrders(ords, s, ltp)) = FilledIds(ords) \cup Crossed(ords, s, ltp)
<1>1. \A i \in DOMAIN ords : ords[i] \in Order(Symbols)
  OBVIOUS
<1>2. FilledIds(CancelOrders(ords, ids)) = FilledIds(ords)
  BY <1>1 DEF FilledIds, CancelOrders, OpenOrders, Order
<1>3. FilledIds(FilledOrders(ords, s, ltp)) = FilledIds(ords) \cup Crossed(ords, s, ltp)
  BY <1>1 DEF FilledIds, FilledOrders, Crossed, OpenOrders, Order
<1> QED BY <1>2, <1>3

-----------------------------------------------------------------------------
(* The strengthening is inductive *)

LEMMA LevelsOnAnchorStep ==
  ASSUME Safe, LevelsOnAnchor, [Next]_vars
  PROVE  LevelsOnAnchor'
<1> USE DEF Safe
<1>1. ASSUME \A s \in DOMAIN pairs' : s \in DOMAIN pairs /\ pairs'[s] = pairs[s]
      PROVE  LevelsOnAnchor'
  BY <1>1 DEF LevelsOnAnchor
<1>2. CASE Restart
  BY <1>2 DEF Restart, DiskMirrorsPairs, LevelsOnAnchor
<1>3. CASE HandlePaperFills
  <2>1. CASE Crossed(orders, tick.sym, tick.ltp) = {}
    BY <1>1, <1>3, <2>1, NoFillFacts
  <2>2. CASE Crossed(orders, tick.sym, tick.ltp) # {}
    <3>1. pairs' = Del(pairs, tick.sym)
      BY <1>3, <2>2, FillFacts DEF OnOrderFill
    <3> QED BY <1>1, <3>1 DEF Del
  <2> QED BY <2>1, <2>2
<1>4. CASE MaybePlaceOcoPair
  <2> DEFINE s == tick.sym
  <2>1. CASE MayPlacePair(s)
    <3>1. pairs' = Put(pairs, s, NewPair(s, Len(orders)))
      BY <1>4, <2>1 DEF MaybePlaceOcoPair, PlacePair
    <3>2. anchors.px[s] \in Int
      BY <2>1 DEF MayPlacePair, TypeOK, IsAnchorRecord, IsDict
    <3>3. NewPair(s, Len(orders)).levels = BuildOrderLevels(anchors.px[s])
      BY DEF NewPair
    <3> QED BY <3>1, <3>2, <3>3 DEF Put, LevelsOnAnchor
  <2>2. CASE ~MayPlacePair(s)
    BY <1>1, <1>4, <2>2 DEF MaybePlaceOcoPair
  <2> QED BY <2>1, <2>2
<1>5. CASE PreSquareoffSweep
  BY <1>1, <1>5, EmptyDictType DEF PreSquareoffSweep
<1>6. CASE \/ \E s \in Symbols, ltp \in Prices : OnTick(s, ltp)
           \/ UpdateRollingBar \/ MaybeCaptureAnchor \/ SquareOffAtClose
           \/ AdvanceClock \/ SetPaused \/ UNCHANGED vars
  BY <1>1, <1>6
     DEF OnTick, UpdateRollingBar, MaybeCaptureAnchor, SquareOffAtClose, AdvanceClock,
         SetPaused, vars, memory
<1> QED
  BY <1>2, <1>3, <1>4, <1>5, <1>6 DEF Next, TickOf, Handle

\* The one method that changes a position that stays: the trailing stop.
LEMMA TrailingStep ==
  ASSUME Safe, StopsBought, NEW s \in Symbols, NEW ltp \in Prices, OnTick(s, ltp)
  PROVE  /\ DOMAIN positions' = DOMAIN positions
         /\ \A t \in DOMAIN positions :
              /\ StopBought(positions'[t]) /\ LockCurrent(positions'[t])
              /\ positions'[t].sl # positions[t].sl =>
                   /\ t = s /\ BarClosesOnPosition(s)
                   /\ Sign(positions[t].side) * (positions'[t].sl - positions[t].sl) > 0
                   /\ Sign(positions[t].side) * (bars[t].close - positions'[t].sl) >= LockStep
<1>1. CASE BarClosesOnPosition(s)
  <2> DEFINE old == positions[s]
             new == UpdateTrailing(old, bars[s].close)
  <2>1. /\ s \in DOMAIN positions /\ old \in Position /\ bars[s].close \in Int
    BY <1>1 DEF Safe, BarClosesOnPosition, TypeOK, IsDict, Bar
  <2>2. StopBought(old) /\ LockCurrent(old)
    BY <2>1 DEF StopsBought
  <2>3. /\ StopBought(new) /\ LockCurrent(new)
        /\ new.sl # old.sl => /\ Sign(old.side) * (new.sl - old.sl) > 0
                              /\ Sign(old.side) * (bars[s].close - new.sl) >= LockStep
    BY <2>1, <2>2, TrailingFacts
  <2>4. positions' = Put(positions, s, new)
    BY <1>1 DEF OnTick
  <2> HIDE DEF new
  <2>5. /\ DOMAIN positions' = DOMAIN positions /\ positions'[s] = new
        /\ \A t \in DOMAIN positions : t # s => positions'[t] = positions[t]
    BY <2>1, <2>4 DEF Put
  <2> QED BY <1>1, <2>3, <2>5 DEF StopsBought
<1>2. CASE ~BarClosesOnPosition(s)
  BY <1>2 DEF OnTick, StopsBought
<1> QED BY <1>1, <1>2

\* What a fill opens has the stop and the target of its leg, behind and ahead
\* of its trigger.
LEMMA OpenedPosition ==
  ASSUME Safe, LevelsOnAnchor, HandlePaperFills, Crossed(orders, tick.sym, tick.ltp) # {}
  PROVE  LET s     == tick.sym
             id    == First(Crossed(orders, s, tick.ltp))
             side  == orders[id].side
             level == pairs[s].levels[side]
             pos   == OpenPosition(side, orders[id].trigger, level, pairs[s].qty)
         IN  /\ positions' = Put(positions, s, pos) /\ s \notin DOMAIN positions
             /\ pos \in Position
             /\ StopBought(pos) /\ LockCurrent(pos)
             /\ Sign(side) * (pos.entry - pos.sl) >= 0
             /\ Sign(side) * (pos.tp - pos.entry) >= 0
<1> DEFINE s     == tick.sym
           id    == First(Crossed(orders, s, tick.ltp))
           side  == orders[id].side
           level == pairs[s].levels[side]
           pos   == OpenPosition(side, orders[id].trigger, level, pairs[s].qty)
<1>1. /\ s \in DOMAIN pairs /\ pairs[s] \in Pair /\ side \in Side /\ level \in Level
      /\ orders[id].trigger \in Int /\ orders[id].trigger = level.entry
      /\ positions' = Put(positions, s, pos)
  BY FillFacts DEF Safe, OnOrderFill
<1>2. PICK anchor \in Int : pairs[s].levels = BuildOrderLevels(anchor)
  BY <1>1 DEF LevelsOnAnchor
<1>3. level = LegLevels(anchor, side)
  BY <1>1, <1>2 DEF BuildOrderLevels
<1>4. Sign(side) * (level.entry - level.sl) >= 0 /\ Sign(side) * (level.tp - level.entry) >= 0
  BY <1>1, <1>3, LegLevelsFacts
<1>5. pairs[s].qty \in Nat
  BY <1>1 DEF Pair
<1>6. s \notin DOMAIN positions
  BY <1>1 DEF Safe, ExposedOnce
<1>7. pos \in Position
  BY <1>1, <1>5, OpenPositionType
<1>8. /\ pos.side = side /\ pos.entry = level.entry /\ pos.sl = level.sl
      /\ pos.tp = level.tp /\ pos.lock = -1 /\ pos.best = 0
  BY <1>1 DEF OpenPosition
<1> HIDE DEF pos, level
<1>9. StopBought(pos)
  BY <1>4, <1>8 DEF StopBought
<1>10. LockCurrent(pos)
  BY <1>8, RunnerAssumption DEF LockCurrent
<1> QED BY <1>1, <1>4, <1>6, <1>7, <1>8, <1>9, <1>10 DEF pos, level

LEMMA StopsBoughtStep ==
  ASSUME Safe, LevelsOnAnchor, StopsBought, [Next]_vars
  PROVE  StopsBought'
<1> USE DEF Safe
<1>1. ASSUME \A s \in DOMAIN positions' : s \in DOMAIN positions /\ positions'[s] = positions[s]
      PROVE  StopsBought'
  BY <1>1 DEF StopsBought
<1>2. CASE Restart
  BY <1>1, <1>2, EmptyDictType DEF Restart
<1>3. CASE HandlePaperFills
  <2>1. CASE Crossed(orders, tick.sym, tick.ltp) = {}
    BY <1>1, <1>3, <2>1, NoFillFacts
  <2>2. CASE Crossed(orders, tick.sym, tick.ltp) # {}
    <3>1. PICK pos : /\ positions' = Put(positions, tick.sym, pos)
                     /\ StopBought(pos) /\ LockCurrent(pos)
      BY <1>3, <2>2, OpenedPosition
    <3> QED BY <3>1 DEF Put, StopsBought
  <2> QED BY <2>1, <2>2
<1>4. CASE SquareOffAtClose
  BY <1>1, <1>4 DEF SquareOffAtClose, Del
<1>5. CASE \E s \in Symbols, ltp \in Prices : OnTick(s, ltp)
  BY <1>5, TrailingStep DEF StopsBought
<1>6. CASE \/ UpdateRollingBar \/ MaybeCaptureAnchor \/ MaybePlaceOcoPair
           \/ PreSquareoffSweep \/ AdvanceClock \/ SetPaused \/ UNCHANGED vars
  BY <1>1, <1>6
     DEF UpdateRollingBar, MaybeCaptureAnchor, MaybePlaceOcoPair, PreSquareoffSweep,
         AdvanceClock, SetPaused, vars, memory
<1> QED
  BY <1>2, <1>3, <1>4, <1>5, <1>6 DEF Next, TickOf, Handle

\* A process that has placed for a symbol does not place for it again.
LEMMA PlacedOnceStep ==
  ASSUME Safe, PlacedOnce, [Next]_vars
  PROVE  PlacedOnce'
<1> USE DEF Safe
<1>1. /\ clock.tod \in Nat /\ NoNewTradeAfter \in Nat /\ crashes \in Nat
      /\ SquareOffTime \in Nat /\ PreSquareoffBuffer \in Nat
      /\ issued \in [Symbols -> Nat]
  BY RunnerAssumption, OrchestratorAssumption DEF TypeOK, Moment
<1>2. /\ clock.tod >= SquareOffTime - PreSquareoffBuffer => clock.tod >= NoNewTradeAfter
      /\ clock.tod >= SquareOffTime => clock.tod >= NoNewTradeAfter
  BY <1>1, DayOrderAssumption
<1>3. ASSUME UNCHANGED <<issued, crashes, clock>>,
             \/ clock.tod >= NoNewTradeAfter
             \/ DOMAIN pairs \cup DOMAIN positions \subseteq DOMAIN pairs' \cup DOMAIN positions'
      PROVE  PlacedOnce'
  BY <1>3 DEF PlacedOnce
<1>4. CASE Restart
  <2>1. crashes' # 0
    BY <1>1, <1>4 DEF Restart
  <2> QED BY <2>1 DEF PlacedOnce
<1>5. CASE AdvanceClock
  <2>1. UNCHANGED <<crashes, pairs, positions>>
    BY <1>5 DEF AdvanceClock, memory
  <2>2. CASE NextSlot
    <3>1. issued' = issued /\ clock'.tod = clock.tod + 1
      BY <2>2 DEF NextSlot, TypeOK, Moment
    <3>2. clock.tod >= NoNewTradeAfter => clock'.tod >= NoNewTradeAfter
      BY <1>1, <3>1
    <3> QED BY <2>1, <3>1, <3>2 DEF PlacedOnce
  <2>3. CASE NextDay
    <3>1. issued' = [s \in Symbols |-> 0]
      BY <2>3 DEF NextDay
    <3> QED BY <3>1 DEF PlacedOnce
  <2> QED BY <1>5, <2>2, <2>3 DEF AdvanceClock
<1>6. CASE \E s \in Symbols, ltp \in Prices : OnTick(s, ltp)
  <2>1. PICK s \in Symbols, ltp \in Prices : OnTick(s, ltp)
    BY <1>6
  <2>2. DOMAIN positions' = DOMAIN positions
    BY <2>1 DEF OnTick, BarClosesOnPosition, Put
  <2> QED BY <1>3, <2>1, <2>2 DEF OnTick
<1>7. CASE HandlePaperFills
  <2>1. UNCHANGED <<issued, crashes, clock>>
    BY <1>7 DEF HandlePaperFills
  <2>2. CASE Crossed(orders, tick.sym, tick.ltp) = {}
    BY <1>3, <1>7, <2>1, <2>2, NoFillFacts
  <2>3. CASE Crossed(orders, tick.sym, tick.ltp) # {}
    <3>1. DOMAIN positions' = DOMAIN positions \cup {tick.sym}
          /\ DOMAIN pairs' = DOMAIN pairs \ {tick.sym}
      BY <1>7, <2>3, FillFacts DEF OnOrderFill, Put, Del
    <3> QED BY <1>3, <2>1, <3>1
  <2> QED BY <2>2, <2>3
<1>8. CASE MaybePlaceOcoPair
  <2> DEFINE s == tick.sym
  <2>1. UNCHANGED <<crashes, clock, positions>>
    BY <1>8 DEF MaybePlaceOcoPair
  <2>2. CASE MayPlacePair(s)
    <3>1. s \notin DOMAIN pairs /\ s \notin DOMAIN positions /\ clock.tod < NoNewTradeAfter
      BY <2>2 DEF MayPlacePair
    <3>2. s \in Symbols /\ issued' = [issued EXCEPT ![s] = issued[s] + 1]
          /\ DOMAIN pairs' = DOMAIN pairs \cup {s}
      BY <1>8, <2>2, TickSymbol DEF MaybePlaceOcoPair, Then, PlacePair, Put
    <3>3. crashes = 0 => issued[s] = 0
      BY <1>1, <3>1, <3>2 DEF PlacedOnce
    <3>4. issued'[s] = issued[s] + 1 /\ \A t \in Symbols : t # s => issued'[t] = issued[t]
      BY <1>1, <3>2
    <3> HIDE DEF s
    <3> QED BY <2>1, <3>2, <3>3, <3>4 DEF PlacedOnce
  <2>3. CASE ~MayPlacePair(s)
    BY <1>3, <1>8, <2>3 DEF MaybePlaceOcoPair
  <2> QED BY <2>2, <2>3
<1>9. CASE PreSquareoffSweep
  BY <1>2, <1>3, <1>9 DEF PreSquareoffSweep, SweepDue
<1>10. CASE SquareOffAtClose
  BY <1>2, <1>3, <1>10 DEF SquareOffAtClose, SquareOffDue
<1>11. CASE UpdateRollingBar \/ MaybeCaptureAnchor \/ SetPaused \/ UNCHANGED vars
  BY <1>3, <1>11 DEF UpdateRollingBar, MaybeCaptureAnchor, SetPaused, vars, memory
<1> QED
  BY <1>4, <1>5, <1>6, <1>7, <1>8, <1>9, <1>10, <1>11 DEF Next, TickOf, Handle

\* Cancels and fills leave every order with its symbol.
LEMMA OrdersKeepSymbol ==
  ASSUME NEW ords, NEW ids, NEW s, NEW ltp, NEW i \in DOMAIN ords, ords[i] \in Order(Symbols)
  PROVE  CancelOrders(ords, ids)[i].sym = ords[i].sym
         /\ FilledOrders(ords, s, ltp)[i].sym = ords[i].sym
BY DEF CancelOrders, FilledOrders, Order

\* What a fill leaves at rest rested before, of other symbols, whose pairs
\* and orders it leaves alone.
LEMMA FillLeaves ==
  ASSUME Safe, HandlePaperFills
  PROVE  /\ DOMAIN orders' = DOMAIN orders
         /\ \A i \in DOMAIN orders : orders'[i].sym = orders[i].sym
         /\ \A i \in OpenOrders(orders') :
              /\ i \in OpenOrders(orders) /\ orders'[i] = orders[i]
              /\ pairs'[orders[i].sym] = pairs[orders[i].sym]
<1> USE DEF Safe
<1> DEFINE s      == tick.sym
           fills  == Crossed(orders, s, tick.ltp)
           filled == FilledOrders(orders, s, tick.ltp)
<1>1. /\ filled \in Seq(Order(Symbols)) /\ DOMAIN filled = DOMAIN orders
      /\ OpenOrders(filled) = OpenOrders(orders) \ fills
      /\ \A i \in OpenOrders(filled) : filled[i] = orders[i]
  BY FilledOrdersFacts DEF TypeOK
<1>2. \A i \in DOMAIN orders : orders[i] \in Order(Symbols)
  BY DEF TypeOK
<1>3. \A i \in DOMAIN orders : filled[i].sym = orders[i].sym
  BY <1>2, OrdersKeepSymbol
<1>4. CASE fills = {}
  <2>1. orders' = filled /\ pairs' = pairs
    BY <1>4, NoFillFacts
  <2> HIDE DEF filled
  <2> QED BY <1>1, <1>3, <2>1
<1>5. CASE fills # {}
  <2>1. PICK peer : orders' = CancelOrders(filled, {peer})
    BY <1>5, FillFacts DEF OnOrderFill
  <2>2. pairs' = Del(pairs, s)
    BY <1>5, FillFacts DEF OnOrderFill
  <2> HIDE DEF filled
  <2>3. /\ DOMAIN orders' = DOMAIN filled
        /\ OpenOrders(orders') = OpenOrders(filled) \ {peer}
        /\ \A i \in OpenOrders(orders') : orders'[i] = filled[i]
    BY <1>1, <2>1, CancelOrdersFacts
  <2>4. \A i \in DOMAIN filled : orders'[i].sym = filled[i].sym
    <3>1. \A i \in DOMAIN filled : filled[i] \in Order(Symbols)
      BY <1>1
    <3> QED BY <2>1, <3>1, OrdersKeepSymbol
  <2>5. \A i \in OpenOrders(orders') : i \in OpenOrders(orders) /\ orders'[i] = orders[i]
    BY <1>1, <2>3
  <2>6. \A i \in OpenOrders(orders') : orders[i].sym \in DOMAIN pairs'
    BY <2>5, RestingHandlePaperFills DEF RestingOrdersArePaired
  <2>7. \A i \in OpenOrders(orders') : pairs'[orders[i].sym] = pairs[orders[i].sym]
    BY <2>2, <2>6 DEF Del
  <2> QED BY <1>1, <1>3, <2>3, <2>4, <2>5, <2>7
<1> QED BY <1>4, <1>5

LEMMA LegsShareSymbolStep ==
  ASSUME Safe, LegsShareSymbol, [Next]_vars
  PROVE  LegsShareSymbol'
<1> USE DEF Safe
<1>1. ASSUME UNCHANGED <<orders, pairs>>
      PROVE  LegsShareSymbol'
  BY <1>1 DEF LegsShareSymbol
<1>2. CASE Restart
  BY <1>2 DEF Restart, LegsShareSymbol, OpenOrders
<1>3. CASE HandlePaperFills
  <2> SUFFICES ASSUME NEW i \in OpenOrders(orders'), NEW side \in Side
               PROVE  LET peer == pairs'[orders'[i].sym].leg[side]
                      IN  peer \in DOMAIN orders' /\ orders'[peer].sym = orders'[i].sym
    BY DEF LegsShareSymbol
  <2>1. /\ DOMAIN orders' = DOMAIN orders
        /\ \A j \in DOMAIN orders : orders'[j].sym = orders[j].sym
        /\ i \in OpenOrders(orders) /\ orders'[i] = orders[i]
        /\ pairs'[orders[i].sym] = pairs[orders[i].sym]
    BY <1>3, FillLeaves
  <2>2. LET peer == pairs[orders[i].sym].leg[side]
        IN  peer \in DOMAIN orders /\ orders[peer].sym = orders[i].sym
    BY <2>1 DEF LegsShareSymbol
  <2> QED BY <2>1, <2>2
<1>4. CASE MaybePlaceOcoPair
  <2> DEFINE s    == tick.sym
             n    == Len(orders)
             pair == NewPair(s, n)
  <2>1. CASE MayPlacePair(s)
    <3>1. s \in Symbols /\ PlacePair(s) /\ s \notin DOMAIN pairs
      BY <1>4, <2>1, TickSymbol DEF MaybePlaceOcoPair, Then, MayPlacePair
    <3>2. /\ n \in Nat /\ DOMAIN orders = 1 .. n
          /\ pair.leg["LONG"] = n + 1 /\ pair.leg["SHORT"] = n + 2
          /\ DOMAIN orders' = 1 .. n + 2
          /\ \A i \in 1 .. n : orders'[i] = orders[i]
          /\ \A side \in Side :
               orders'[pair.leg[side]] =
                 [sym |-> s, side |-> side, qty |-> pair.qty, kind |-> "STOP",
                  trigger |-> pair.levels[side].entry, status |-> "OPEN"]
          /\ pairs' = Put(pairs, s, pair)
      BY <2>1, <3>1, PlaceFacts
    <3> HIDE DEF pair, n, s
    <3>3. \A side \in Side :
             pair.leg[side] \in DOMAIN orders' /\ orders'[pair.leg[side]].sym = s
      <4>1. \A side \in Side : pair.leg[side] \in 1 .. n + 2
        BY <3>2 DEF Side
      <4>2. ASSUME NEW side \in Side PROVE orders'[pair.leg[side]].sym = s
        <5> DEFINE placed == [sym |-> s, side |-> side, qty |-> pair.qty, kind |-> "STOP",
                              trigger |-> pair.levels[side].entry, status |-> "OPEN"]
        <5>1. orders'[pair.leg[side]] = placed
          BY <3>2
        <5>2. placed.sym = s
          OBVIOUS
        <5> QED BY <5>1, <5>2
      <4> QED BY <3>2, <4>1, <4>2
    <3>8. /\ DOMAIN orders = 1 .. n
          /\ \A i \in DOMAIN orders : i \in DOMAIN orders' /\ orders'[i] = orders[i]
      BY <3>2
    <3>4. pairs'[s] = pair /\ \A t \in DOMAIN pairs : t # s => pairs'[t] = pairs[t]
      BY <3>2 DEF Put
    <3> SUFFICES ASSUME NEW i \in OpenOrders(orders'), NEW side \in Side
                 PROVE  LET peer == pairs'[orders'[i].sym].leg[side]
                        IN  peer \in DOMAIN orders' /\ orders'[peer].sym = orders'[i].sym
      BY DEF LegsShareSymbol
    <3>5. CASE i \in 1 .. n
      <4>1. i \in OpenOrders(orders) /\ orders'[i] = orders[i]
        BY <3>2, <3>5 DEF OpenOrders
      <4>2. orders[i].sym \in DOMAIN pairs /\ orders[i].sym # s
        BY <3>1, <4>1 DEF RestingOrdersArePaired
      <4>3. pairs'[orders[i].sym] = pairs[orders[i].sym]
        BY <3>4, <4>2
      <4>4. LET peer == pairs[orders[i].sym].leg[side]
            IN  peer \in DOMAIN orders /\ orders[peer].sym = orders[i].sym
        BY <4>1 DEF LegsShareSymbol
      <4> QED BY <3>8, <4>1, <4>3, <4>4
    <3>6. CASE i \in {n + 1, n + 2}
      <4>1. orders'[i].sym = s
        BY <3>2, <3>6 DEF Side
      <4>2. pairs'[orders'[i].sym].leg[side] = pair.leg[side]
        BY <3>4, <4>1
      <4>3. pair.leg[side] \in DOMAIN orders' /\ orders'[pair.leg[side]].sym = s
        BY <3>3
      <4> QED BY <4>1, <4>2, <4>3
    <3>7. i \in 1 .. n \/ i \in {n + 1, n + 2}
      BY <3>2 DEF OpenOrders
    <3> QED BY <3>5, <3>6, <3>7
  <2>2. CASE ~MayPlacePair(s)
    BY <1>1, <1>4, <2>2 DEF MaybePlaceOcoPair
  <2> QED BY <2>1, <2>2
<1>5. CASE PreSquareoffSweep
  <2>1. CASE SweepDue
    BY <1>5, <2>1, RestingPreSquareoffSweep DEF LegsShareSymbol
  <2>2. CASE ~SweepDue
    BY <1>1, <1>5, <2>2 DEF PreSquareoffSweep
  <2> QED BY <2>1, <2>2
<1>6. CASE \/ \E s \in Symbols, ltp \in Prices : OnTick(s, ltp)
           \/ UpdateRollingBar \/ MaybeCaptureAnchor \/ SquareOffAtClose
           \/ AdvanceClock \/ SetPaused \/ UNCHANGED vars
  BY <1>1, <1>6
     DEF OnTick, UpdateRollingBar, MaybeCaptureAnchor, SquareOffAtClose, AdvanceClock,
         SetPaused, vars, memory
<1> QED
  BY <1>2, <1>3, <1>4, <1>5, <1>6 DEF Next, TickOf, Handle

\* The strengthened invariant.
THEOREM BracketSafety == Spec => []Bracketed
<1>1. Init => LevelsOnAnchor /\ StopsBought /\ PlacedOnce /\ LegsShareSymbol
  BY EmptyDictType
     DEF Init, LevelsOnAnchor, StopsBought, PlacedOnce, LegsShareSymbol, OpenOrders
<1>2. Safe /\ LevelsOnAnchor /\ StopsBought /\ PlacedOnce /\ LegsShareSymbol /\ [Next]_vars
        => LevelsOnAnchor' /\ StopsBought' /\ PlacedOnce' /\ LegsShareSymbol'
  BY LevelsOnAnchorStep, StopsBoughtStep, PlacedOnceStep, LegsShareSymbolStep
<1> QED BY <1>1, <1>2, Safety, PTL DEF Spec, Bracketed

-----------------------------------------------------------------------------
(* The trailing stop *)

\* A position that a step leaves open keeps its stop, or the trailing of a
\* bar that has closed moves it.
LEMMA StopMoves ==
  ASSUME Bracketed, [Next]_vars, NEW s \in DOMAIN positions \cap DOMAIN positions',
         positions'[s].sl # positions[s].sl
  PROVE  /\ BarStart(clock) # bars[s].start
         /\ Sign(positions[s].side) * (positions'[s].sl - positions[s].sl) > 0
         /\ Sign(positions[s].side) * (bars[s].close - positions'[s].sl) >= LockStep
<1> USE DEF Bracketed
<1>1. positions'[s] # positions[s]
  OBVIOUS
<1>2. CASE \E t \in Symbols, ltp \in Prices : OnTick(t, ltp)
  BY <1>2, TrailingStep DEF BarClosesOnPosition
<1>3. CASE HandlePaperFills
  <2>1. CASE Crossed(orders, tick.sym, tick.ltp) = {}
    BY <1>1, <1>3, <2>1, NoFillFacts DEF Safe
  <2>2. CASE Crossed(orders, tick.sym, tick.ltp) # {}
    <3>1. PICK pos : positions' = Put(positions, tick.sym, pos)
      BY <1>3, <2>2, OpenedPosition
    <3>2. tick.sym \notin DOMAIN positions
      BY <1>3, <2>2, OpenedPosition
    <3> QED BY <1>1, <3>1, <3>2 DEF Put
  <2> QED BY <2>1, <2>2
<1>4. CASE SquareOffAtClose
  BY <1>1, <1>4 DEF SquareOffAtClose, Del
<1>5. CASE Restart
  BY <1>5, EmptyDictType DEF Restart
<1>6. CASE \/ UpdateRollingBar \/ MaybeCaptureAnchor \/ MaybePlaceOcoPair
           \/ PreSquareoffSweep \/ AdvanceClock \/ SetPaused \/ UNCHANGED vars
  BY <1>1, <1>6
     DEF UpdateRollingBar, MaybeCaptureAnchor, MaybePlaceOcoPair, PreSquareoffSweep,
         AdvanceClock, SetPaused, vars, memory
<1> QED
  BY <1>2, <1>3, <1>4, <1>5, <1>6 DEF Next, TickOf, Handle

\* A stop only ever moves towards profit.
THEOREM StopsRatchet == Spec => SlRatchets
<1>1. ASSUME Bracketed, [Next]_vars, NEW s \in DOMAIN positions \cap DOMAIN positions'
      PROVE  Sign(positions[s].side) * (positions'[s].sl - positions[s].sl) >= 0
  <2> DEFINE points == Sign(positions[s].side) * (positions'[s].sl - positions[s].sl)
  <2>1. positions[s] \in Position
    BY <1>1 DEF Bracketed, Safe, TypeOK, IsDict
  <2>2. positions[s].sl \in Int /\ positions[s].side \in Side
    BY <2>1 DEF Position
  <2>3. CASE positions'[s].sl = positions[s].sl
    BY <2>2, <2>3, SignValues
  <2>4. CASE positions'[s].sl # positions[s].sl
    <3>1. points > 0
      BY <1>1, <2>4, StopMoves
    <3>2. positions' \in [DOMAIN positions' -> Position]
      BY <1>1, TypeStep DEF Bracketed, Safe, TypeOK, IsDict
    <3>3. positions'[s].sl \in Int
      BY <1>1, <3>2 DEF Position
    <3>4. points \in Int
      BY <2>2, <3>3, SignValues
    <3> QED BY <3>1, <3>4
  <2> QED BY <2>3, <2>4
<1>2. Bracketed /\ [Next]_vars =>
        [\A s \in DOMAIN positions \cap DOMAIN positions' :
           Sign(positions[s].side) * (positions'[s].sl - positions[s].sl) >= 0]_vars
  BY <1>1
<1> QED BY <1>2, BracketSafety, PTL DEF Spec, SlRatchets

\* A stop moves behind a closed bar only, and stays a lock step behind it.
THEOREM StopsTrail == Spec => TrailBehindClosedBar
<1>1. Bracketed /\ [Next]_vars =>
        [\A s \in DOMAIN positions \cap DOMAIN positions' :
           positions'[s].sl # positions[s].sl
             => /\ BarStart(clock) # bars[s].start
                /\ Sign(positions[s].side) * (bars[s].close - positions'[s].sl) >= LockStep]_vars
  BY StopMoves
<1> QED BY <1>1, BracketSafety, PTL DEF Spec, TrailBehindClosedBar

\* A process that was not restarted places one pair per symbol and day.
THEOREM OnePair == Spec => []OnePairPerProcessDay
<1>1. Bracketed => OnePairPerProcessDay
  BY DEF Bracketed, PlacedOnce, OnePairPerProcessDay
<1> QED BY <1>1, BracketSafety, PTL

-----------------------------------------------------------------------------
(* The risk of a position *)

\* A pair is sized for its symbol, and so is the position that its fill opens,
\* whose stop is no wider than the strategy's, rounded.
Sized ==
  /\ \A s \in DOMAIN pairs : pairs[s].qty = SizeFor(s, SlDist) /\ pairs[s].qty # 0
  /\ \A s \in DOMAIN positions :
       /\ positions[s].qty = SizeFor(s, SlDist) /\ positions[s].qty # 0
       /\ 2 * PointsAtRisk(positions[s]) <= 2 * SlDist + TickSize

\* Trailing changes neither side, entry nor quantity.
LEMMA TrailingKeeps ==
  ASSUME NEW pos \in Position, NEW close \in Int
  PROVE  LET new == UpdateTrailing(pos, close)
         IN  new.side = pos.side /\ new.entry = pos.entry /\ new.qty = pos.qty
<1> DEFINE fav  == Favorable(pos, close)
           best == IF fav > pos.best THEN fav ELSE pos.best
           idx  == LockIndex(best)
           new  == UpdateTrailing(pos, close)
<1>1. /\ fav \in Int /\ idx \in Int
      /\ fav < LockStep => new = pos
      /\ fav >= LockStep /\ idx <= pos.lock => new = [pos EXCEPT !.best = best]
      /\ fav >= LockStep /\ idx > pos.lock =>
           new = [pos EXCEPT !.best = best, !.lock = idx, !.sl = LockedStop(pos, idx)]
  BY TrailingCases
<1>2. pos.lock \in Int /\ LockStep \in Int
  BY RunnerAssumption DEF Position
<1> HIDE DEF fav, best, idx, new
<1>3. \/ new = pos \/ new = [pos EXCEPT !.best = best]
      \/ new = [pos EXCEPT !.best = best, !.lock = idx, !.sl = LockedStop(pos, idx)]
  BY <1>1, <1>2
<1>4. new.side = pos.side /\ new.entry = pos.entry /\ new.qty = pos.qty
  BY <1>3 DEF Position
<1> QED BY <1>4 DEF new

\* Trailing leaves less at risk.
LEMMA SizedOnTick ==
  ASSUME Bracketed, Sized, NEW s \in Symbols, NEW ltp \in Prices, OnTick(s, ltp)
  PROVE  Sized'
<1> USE DEF Bracketed, Safe
<1>1. pairs' = pairs
  BY DEF OnTick
<1>2. CASE BarClosesOnPosition(s)
  <2> DEFINE old == positions[s]
             new == UpdateTrailing(old, bars[s].close)
  <2>1. s \in DOMAIN positions /\ old \in Position /\ bars[s].close \in Int
    BY <1>2 DEF BarClosesOnPosition, TypeOK, IsDict, Bar
  <2>2. new \in Position
    BY <2>1, UpdateTrailingType
  <2>3. new.side = old.side /\ new.entry = old.entry /\ new.qty = old.qty
    BY <2>1, TrailingKeeps
  <2>4. positions' = Put(positions, s, new)
    BY <1>2 DEF OnTick
  <2> HIDE DEF new
  <2>5. /\ DOMAIN positions' = DOMAIN positions /\ positions'[s] = new
        /\ \A t \in DOMAIN positions : t # s => positions'[t] = positions[t]
    BY <2>1, <2>4 DEF Put
  <2>6. PointsAtRisk(new) <= PointsAtRisk(old)
    <3>1. new.sl # old.sl => Sign(old.side) * (new.sl - old.sl) > 0
      BY <2>1, <2>5, TrailingStep
    <3>2. /\ old.entry \in Int /\ old.sl \in Int /\ new.sl \in Int /\ old.side \in Side
      BY <2>1, <2>2 DEF Position
    <3> QED BY <2>3, <3>1, <3>2, SignValues DEF PointsAtRisk
  <2>7. PointsAtRisk(new) \in Int /\ PointsAtRisk(old) \in Int
    BY <2>1, <2>2, SignValues DEF PointsAtRisk, Position
  <2>8. 2 * PointsAtRisk(old) <= 2 * SlDist + TickSize
    BY <2>1 DEF Sized
  <2>9. 2 * PointsAtRisk(new) <= 2 * SlDist + TickSize
    BY <2>6, <2>7, <2>8, LevelsAssumption
  <2> QED BY <1>1, <2>3, <2>5, <2>9 DEF Sized
<1>3. CASE ~BarClosesOnPosition(s)
  BY <1>1, <1>3 DEF OnTick, Sized
<1> QED BY <1>2, <1>3

\* A fill opens a position of the pair's quantity, with the leg's stop.
LEMMA SizedHandlePaperFills ==
  ASSUME Bracketed, Sized, HandlePaperFills
  PROVE  Sized'
<1> USE DEF Bracketed, Safe
<1>1. CASE Crossed(orders, tick.sym, tick.ltp) = {}
  BY <1>1, NoFillFacts DEF Sized
<1>2. CASE Crossed(orders, tick.sym, tick.ltp) # {}
  <2> DEFINE s     == tick.sym
             id    == First(Crossed(orders, s, tick.ltp))
             side  == orders[id].side
             level == pairs[s].levels[side]
             pos   == OpenPosition(side, orders[id].trigger, level, pairs[s].qty)
  <2>1. /\ s \in DOMAIN pairs /\ side \in Side /\ orders[id].trigger = level.entry
        /\ pairs' = Del(pairs, s)
    BY <1>2, FillFacts DEF OnOrderFill
  <2>2. positions' = Put(positions, s, pos)
    BY <1>2, OpenedPosition
  <2>3. PICK anchor \in Int : pairs[s].levels = BuildOrderLevels(anchor)
    BY <2>1 DEF LevelsOnAnchor
  <2>4. level = LegLevels(anchor, side)
    BY <2>1, <2>3 DEF BuildOrderLevels
  <2>5. 2 * (Sign(side) * (level.entry - level.sl)) <= 2 * SlDist + TickSize
    BY <2>1, <2>4, LegLevelsFacts
  <2>6. /\ pos.side = side /\ pos.entry = level.entry /\ pos.sl = level.sl
        /\ pos.qty = pairs[s].qty
    BY <2>1 DEF OpenPosition
  <2> HIDE DEF pos, level
  <2>7. 2 * PointsAtRisk(pos) <= 2 * SlDist + TickSize
    BY <2>5, <2>6 DEF PointsAtRisk
  <2>8. pos.qty = SizeFor(s, SlDist) /\ pos.qty # 0
    BY <2>1, <2>6 DEF Sized
  <2> HIDE DEF s
  <2> QED BY <2>1, <2>2, <2>7, <2>8 DEF Sized, Put, Del
<1> QED BY <1>1, <1>2

\* A pair is placed with a quantity that is not zero.
LEMMA SizedMaybePlaceOcoPair ==
  ASSUME Sized, MaybePlaceOcoPair
  PROVE  Sized'
<1> DEFINE s == tick.sym
           pair == NewPair(s, Len(orders))
<1>1. positions' = positions
  BY DEF MaybePlaceOcoPair
<1>2. CASE MayPlacePair(s)
  <2>1. pairs' = Put(pairs, s, pair)
    BY <1>2 DEF MaybePlaceOcoPair, PlacePair
  <2>2. pair.qty = SizeFor(s, SlDist) /\ pair.qty # 0
    BY <1>2 DEF NewPair, MayPlacePair
  <2> HIDE DEF pair, s
  <2> QED BY <1>1, <2>1, <2>2 DEF Sized, Put
<1>3. CASE ~MayPlacePair(s)
  BY <1>1, <1>3 DEF MaybePlaceOcoPair, Sized
<1> QED BY <1>2, <1>3

\* Every step keeps the sizes.
LEMMA SizedStep ==
  ASSUME Bracketed, Sized, [Next]_vars
  PROVE  Sized'
<1>1. CASE \E s \in Symbols, ltp \in Prices : OnTick(s, ltp)
  BY <1>1, SizedOnTick
<1>2. CASE HandlePaperFills
  BY <1>2, SizedHandlePaperFills
<1>3. CASE MaybePlaceOcoPair
  BY <1>3, SizedMaybePlaceOcoPair
<1>4. CASE PreSquareoffSweep
  BY <1>4, EmptyDictType DEF PreSquareoffSweep, Sized
<1>5. CASE SquareOffAtClose
  BY <1>5 DEF SquareOffAtClose, Sized, Del
<1>6. CASE Restart
  BY <1>6, EmptyDictType DEF Restart, Sized, Bracketed, Safe, DiskMirrorsPairs
<1>7. CASE UpdateRollingBar \/ MaybeCaptureAnchor \/ AdvanceClock \/ SetPaused \/ UNCHANGED vars
  BY <1>7 DEF UpdateRollingBar, MaybeCaptureAnchor, AdvanceClock, SetPaused, vars, memory, Sized
<1> QED
  BY <1>1, <1>2, <1>3, <1>4, <1>5, <1>6, <1>7 DEF Next, TickOf, Handle

\* No position risks more than the budget at its stop, where its symbol is
\* sized for a stop as wide as the strategy sets.
THEOREM RiskIsBudgeted == Spec => []RiskWithinBudget
<1>1. Init => Sized
  BY EmptyDictType DEF Init, Sized
<1>2. Bracketed /\ Sized => RiskWithinBudget
  <2> SUFFICES ASSUME Bracketed, Sized, NEW s \in DOMAIN positions,
                      PointsAtRisk(positions[s]) <= SizingDistance(s, SlDist)
               PROVE  positions[s].qty * MoneyPerPoint[s] * PointsAtRisk(positions[s])
                        <= RiskBudget
    BY DEF Sized, RiskWithinBudget
  <2> DEFINE risked   == PointsAtRisk(positions[s])
             distance == SizingDistance(s, SlDist)
             perPoint == positions[s].qty * MoneyPerPoint[s]
  <2>1. s \in Symbols /\ positions[s] \in Position
    BY DEF Bracketed, Safe, TypeOK, IsDict
  <2>2. risked \in Int
    BY <2>1, SignValues DEF PointsAtRisk, Position
  <2>3. /\ positions[s].qty \in Nat /\ distance \in Int /\ MoneyPerPoint[s] \in Int
        /\ MoneyPerPoint[s] > 0 /\ perPoint * distance <= RiskBudget
    BY <2>1, SizeForFacts DEF Sized
  <2>4. perPoint \in Nat
    BY <2>3
  <2>5. risked <= distance
    OBVIOUS
  <2> HIDE DEF risked, distance, perPoint
  <2>6. risked * perPoint <= distance * perPoint
    BY <2>2, <2>3, <2>4, <2>5, TimesMonotone
  <2>7. /\ risked * perPoint = perPoint * risked /\ distance * perPoint = perPoint * distance
        /\ perPoint * risked \in Int /\ perPoint * distance \in Int
    BY <2>2, <2>3, <2>4
  <2>8. perPoint * risked <= RiskBudget
    BY <2>3, <2>6, <2>7, SizerAssumption
  <2> QED BY <2>8 DEF perPoint, risked
<1>3. Bracketed /\ Sized /\ [Next]_vars => Sized'
  BY SizedStep
<1> QED BY <1>1, <1>2, <1>3, BracketSafety, PTL DEF Spec

-----------------------------------------------------------------------------
(* The anchors *)

\* Memory that was rolled today is what the file holds for today, and neither
\* is ahead of the clock.
AnchorsInStep ==
  /\ anchors.day <= clock.day /\ anchorFile.day <= clock.day
  /\ anchors.day = NoDay => DOMAIN anchors.px = {}
  /\ anchorFile.day = NoDay => DOMAIN anchorFile.px = {}
  /\ anchors.day = clock.day =>
       anchors.px = IF anchorFile.day = clock.day THEN anchorFile.px ELSE EmptyDict

\* What a capture writes, by cases.
LEMMA CaptureFacts ==
  ASSUME Safe, AnchorsInStep, MaybeCaptureAnchor
  PROVE  /\ AnchorsInStep' /\ anchors'.day = clock.day
         /\ anchorFile.day = clock.day =>
              /\ anchorFile'.day = clock.day
              /\ \A s \in DOMAIN anchorFile.px :
                   s \in DOMAIN anchorFile'.px /\ anchorFile'.px[s] = anchorFile.px[s]
<1> DEFINE s      == tick.sym
           today  == clock.day
           rolled == RolledDay(anchors, anchorFile, today)
           purged == PurgedFile(anchors, anchorFile, today)
           taken  == CapturedAnchor(rolled, s, AnchorSource(s))
<1>1. /\ today \in Nat /\ today >= 1 /\ clock' = clock
      /\ IsAnchorRecord(anchors) /\ IsAnchorRecord(anchorFile)
  BY DEF MaybeCaptureAnchor, Safe, TypeOK, Moment, DayOrderKept
<1>2. /\ rolled.day = today
      /\ rolled.px = IF anchorFile.day = today THEN anchorFile.px ELSE EmptyDict
  BY DEF RolledDay, AnchorsInStep
<1>3. rolled = [day |-> rolled.day, px |-> rolled.px]
  BY <1>1 DEF RolledDay, IsAnchorRecord
<1>4. CASE ShouldCapture(rolled, s, clock.tod)
  <2>1. anchors' = taken /\ anchorFile' = taken
    BY <1>4 DEF MaybeCaptureAnchor
  <2>2. s \notin DOMAIN rolled.px
    BY <1>4 DEF ShouldCapture
  <2>3. taken.day = today /\ taken.px = Put(rolled.px, s, AnchorSource(s))
    BY <1>2, <1>3 DEF CapturedAnchor
  <2> HIDE DEF taken, rolled
  <2>4. AnchorsInStep'
    BY <1>1, <2>1, <2>3 DEF AnchorsInStep, NoDay
  <2>5. anchorFile.day = today =>
          \A t \in DOMAIN anchorFile.px :
            t \in DOMAIN anchorFile'.px /\ anchorFile'.px[t] = anchorFile.px[t]
    BY <1>2, <2>1, <2>2, <2>3 DEF Put
  <2> QED BY <2>1, <2>3, <2>4, <2>5
<1>5. CASE ~ShouldCapture(rolled, s, clock.tod)
  <2>1. anchors' = rolled /\ anchorFile' = purged
    BY <1>5 DEF MaybeCaptureAnchor
  <2>2. CASE purged = anchorFile
    <3>1. anchorFile' = anchorFile
      BY <2>1, <2>2
    <3> HIDE DEF rolled, purged
    <3> QED BY <1>1, <1>2, <2>1, <3>1 DEF AnchorsInStep, NoDay
  <2>3. CASE purged # anchorFile
    <3>1. /\ anchorFile.day # today
          /\ purged.day = today /\ purged.px = EmptyDict
      BY <2>3 DEF PurgedFile
    <3> HIDE DEF rolled, purged
    <3> QED BY <1>1, <1>2, <2>1, <3>1 DEF AnchorsInStep, NoDay
  <2> QED BY <2>2, <2>3
<1> QED BY <1>4, <1>5

LEMMA AnchorsInStepStep ==
  ASSUME Safe, AnchorsInStep, [Next]_vars
  PROVE  AnchorsInStep'
<1>1. ASSUME UNCHANGED <<clock, anchors, anchorFile>>
      PROVE  AnchorsInStep'
  BY <1>1 DEF AnchorsInStep
<1>2. /\ clock.day \in Nat /\ clock.day >= 1 /\ anchors.day \in Nat /\ anchorFile.day \in Nat
  BY DEF Safe, TypeOK, Moment, DayOrderKept, IsAnchorRecord
<1>3. CASE Restart
  <2>1. anchors' = NoAnchors /\ UNCHANGED <<clock, anchorFile>>
    BY <1>3 DEF Restart, files
  <2>2. NoAnchors.day = 0 /\ NoAnchors.px = EmptyDict /\ DOMAIN EmptyDict = {}
    BY DEF NoAnchors, NoDay, EmptyDict
  <2> QED BY <1>2, <2>1, <2>2 DEF AnchorsInStep
<1>4. CASE AdvanceClock
  <2>1. UNCHANGED <<anchors, anchorFile>>
    BY <1>4 DEF AdvanceClock, memory, files
  <2>2. CASE NextSlot
    <3>1. clock'.day = clock.day
      BY <2>2 DEF NextSlot, Safe, TypeOK, Moment
    <3> QED BY <2>1, <3>1 DEF AnchorsInStep
  <2>3. CASE NextDay
    <3>1. clock'.day = clock.day + 1
      BY <2>3 DEF NextDay
    <3> QED BY <1>2, <2>1, <3>1 DEF AnchorsInStep
  <2> QED BY <1>4, <2>2, <2>3 DEF AdvanceClock
<1>5. CASE MaybeCaptureAnchor
  BY <1>5, CaptureFacts
<1>6. CASE \/ \E s \in Symbols, ltp \in Prices : OnTick(s, ltp)
           \/ UpdateRollingBar \/ HandlePaperFills \/ MaybePlaceOcoPair
           \/ PreSquareoffSweep \/ SquareOffAtClose \/ SetPaused \/ UNCHANGED vars
  BY <1>1, <1>6
     DEF OnTick, UpdateRollingBar, HandlePaperFills, MaybePlaceOcoPair, PreSquareoffSweep,
         SquareOffAtClose, SetPaused, vars, memory, files
<1> QED
  BY <1>3, <1>4, <1>5, <1>6 DEF Next, TickOf, Handle

\* Memory and file are in step.
LEMMA AnchorsKept == Spec => [](Safe /\ AnchorsInStep)
<1>1. Init => AnchorsInStep
  BY DEF Init, NoAnchors, NoDay, EmptyDict, AnchorsInStep
<1>2. Safe /\ AnchorsInStep /\ [Next]_vars => AnchorsInStep'
  BY AnchorsInStepStep
<1> QED BY <1>1, <1>2, Safety, PTL DEF Spec

\* An anchor on file for today stays for the day, whatever dies in between.
THEOREM AnchorsStay == Spec => AnchorStable
<1> DEFINE Stays == \A s \in Symbols :
                      s \in DOMAIN anchorFile.px /\ anchorFile.day = clock.day
                        => /\ anchorFile'.day = clock.day
                           /\ s \in DOMAIN anchorFile'.px
                           /\ anchorFile'.px[s] = anchorFile.px[s]
<1>1. ASSUME Safe, AnchorsInStep, Next
      PROVE  Stays
  <2>1. CASE MaybeCaptureAnchor
    BY <1>1, <2>1, CaptureFacts
  <2>2. CASE ~MaybeCaptureAnchor
    <3>1. anchorFile' = anchorFile
      BY <1>1, <2>2
         DEF Next, TickOf, Handle, OnTick, UpdateRollingBar, HandlePaperFills,
             MaybePlaceOcoPair, PreSquareoffSweep, SquareOffAtClose, AdvanceClock, SetPaused,
             Restart, files
    <3> QED BY <3>1
  <2> QED BY <2>1, <2>2
<1>2. Safe /\ AnchorsInStep /\ [Next]_vars => [Stays]_vars
  BY <1>1
<1> QED BY <1>2, AnchorsKept, PTL DEF Spec, AnchorStable

\* After its capture method a tick finds the engine at the day of the clock,
\* which stands still until the tick has ended.
RolledInTick == pc \in {"paperFills", "placePair"} => anchors.day = clock.day

LEMMA RolledStep ==
  ASSUME Safe, AnchorsInStep, RolledInTick, [Next]_vars
  PROVE  RolledInTick'
<1>1. CASE MaybeCaptureAnchor
  <2>1. anchors'.day = clock.day /\ clock' = clock
    BY <1>1, CaptureFacts DEF MaybeCaptureAnchor
  <2> QED BY <2>1 DEF RolledInTick
<1>2. CASE HandlePaperFills
  BY <1>2 DEF HandlePaperFills, Then, RolledInTick
<1>3. CASE SetPaused \/ UNCHANGED vars
  BY <1>3 DEF SetPaused, vars, memory, RolledInTick
<1>4. CASE \/ \E s \in Symbols, ltp \in Prices : OnTick(s, ltp)
           \/ UpdateRollingBar \/ MaybePlaceOcoPair \/ PreSquareoffSweep
           \/ SquareOffAtClose \/ AdvanceClock \/ Restart
  BY <1>4 DEF OnTick, UpdateRollingBar, MaybePlaceOcoPair, PreSquareoffSweep,
              SquareOffAtClose, AdvanceClock, Restart, Then, RolledInTick
<1> QED
  BY <1>1, <1>2, <1>3, <1>4 DEF Next, TickOf, Handle

\* What PairUsesTodaysAnchor says of one pair.
OnTodaysAnchor(t) ==
  /\ anchorFile.day = clock.day
  /\ t \in DOMAIN anchorFile.px
  /\ pairs[t].levels = BuildOrderLevels(anchorFile.px[t])

\* A pair placed today hangs off the anchor that the file holds.
LEMMA TodaysAnchorStep ==
  ASSUME Safe, AnchorsInStep, RolledInTick, PairUsesTodaysAnchor, [Next]_vars
  PROVE  PairUsesTodaysAnchor'
<1> SUFFICES ASSUME NEW t \in DOMAIN pairs', issued'[t] > 0
             PROVE  OnTodaysAnchor(t)'
  BY DEF PairUsesTodaysAnchor, OnTodaysAnchor
<1>1. /\ clock.day \in Nat /\ clock.day >= 1 /\ clock \in Moment
      /\ issued \in [Symbols -> Nat] /\ DOMAIN pairs \subseteq Symbols
  BY DEF Safe, TypeOK, Moment, DayOrderKept, IsDict
<1>2. ASSUME t \in DOMAIN pairs, pairs'[t] = pairs[t], issued'[t] = issued[t],
             anchorFile' = anchorFile, clock'.day = clock.day
      PROVE  OnTodaysAnchor(t)'
  BY <1>2 DEF PairUsesTodaysAnchor, OnTodaysAnchor
<1>3. CASE MaybeCaptureAnchor
  <2>1. pairs' = pairs /\ issued' = issued /\ clock' = clock
    BY <1>3 DEF MaybeCaptureAnchor
  <2>2. OnTodaysAnchor(t)
    BY <2>1 DEF PairUsesTodaysAnchor, OnTodaysAnchor
  <2>3. /\ anchorFile'.day = clock.day
        /\ t \in DOMAIN anchorFile'.px /\ anchorFile'.px[t] = anchorFile.px[t]
    BY <1>3, <2>2, CaptureFacts DEF OnTodaysAnchor
  <2> QED BY <2>1, <2>2, <2>3 DEF OnTodaysAnchor
<1>4. CASE MaybePlaceOcoPair
  <2> DEFINE s == tick.sym
  <2>1. anchorFile' = anchorFile /\ clock' = clock /\ pc = "placePair"
    BY <1>4 DEF MaybePlaceOcoPair, Then
  <2>2. CASE MayPlacePair(s)
    <3>1. /\ pairs' = Put(pairs, s, NewPair(s, Len(orders))) /\ s \in DOMAIN anchors.px
          /\ issued' = [issued EXCEPT ![s] = issued[s] + 1]
      BY <1>4, <2>2 DEF MaybePlaceOcoPair, PlacePair, MayPlacePair
    <3>2. anchors.day = clock.day
      BY <2>1 DEF RolledInTick
    <3>3. anchors.px = anchorFile.px /\ anchorFile.day = clock.day
      BY <3>1, <3>2 DEF AnchorsInStep, EmptyDict
    <3>4. CASE t = s
      <4>1. pairs'[t] = NewPair(s, Len(orders))
        BY <3>1, <3>4 DEF Put
      <4>2. NewPair(s, Len(orders)).levels = BuildOrderLevels(anchors.px[s])
        BY DEF NewPair
      <4> QED BY <2>1, <3>1, <3>3, <3>4, <4>1, <4>2 DEF OnTodaysAnchor
    <3>5. CASE t # s
      <4>1. t \in DOMAIN pairs /\ pairs'[t] = pairs[t]
        BY <3>1, <3>5 DEF Put
      <4>2. issued'[t] = issued[t]
        BY <1>1, <3>1, <3>5, <4>1
      <4> QED BY <1>2, <2>1, <4>1, <4>2
    <3> QED BY <3>4, <3>5
  <2>3. CASE ~MayPlacePair(s)
    BY <1>2, <1>4, <2>1, <2>3 DEF MaybePlaceOcoPair
  <2> QED BY <2>2, <2>3
<1>5. CASE HandlePaperFills
  <2>1. anchorFile' = anchorFile /\ clock' = clock /\ issued' = issued
    BY <1>5 DEF HandlePaperFills
  <2>2. CASE Crossed(orders, tick.sym, tick.ltp) = {}
    BY <1>2, <1>5, <2>1, <2>2, NoFillFacts DEF Safe
  <2>3. CASE Crossed(orders, tick.sym, tick.ltp) # {}
    <3>1. pairs' = Del(pairs, tick.sym)
      BY <1>5, <2>3, FillFacts DEF OnOrderFill, Safe
    <3> QED BY <1>2, <2>1, <3>1 DEF Del
  <2> QED BY <2>2, <2>3
<1>6. CASE PreSquareoffSweep
  BY <1>2, <1>6, EmptyDictType DEF PreSquareoffSweep
<1>7. CASE Restart
  BY <1>2, <1>7 DEF Restart, files, Safe, DiskMirrorsPairs
<1>8. CASE AdvanceClock
  <2>1. pairs' = pairs /\ anchorFile' = anchorFile
    BY <1>8 DEF AdvanceClock, memory, files
  <2>2. CASE NextSlot
    <3>1. clock'.day = clock.day /\ issued' = issued
      BY <1>1, <2>2 DEF NextSlot, Moment
    <3> QED BY <1>2, <2>1, <3>1
  <2>3. CASE NextDay
    <3>1. issued'[t] = 0
      BY <1>1, <2>1, <2>3 DEF NextDay
    <3> QED BY <3>1
  <2> QED BY <1>8, <2>2, <2>3 DEF AdvanceClock
<1>9. CASE \/ \E s \in Symbols, ltp \in Prices : OnTick(s, ltp)
           \/ UpdateRollingBar \/ SquareOffAtClose \/ SetPaused \/ UNCHANGED vars
  BY <1>2, <1>9
     DEF OnTick, UpdateRollingBar, SquareOffAtClose, SetPaused, vars, memory, files
<1> QED
  BY <1>3, <1>4, <1>5, <1>6, <1>7, <1>8, <1>9 DEF Next, TickOf, Handle

\* A pair placed today hangs off the anchor on file for today, on every day,
\* through restarts, reloads and the roll of the day.
THEOREM PairsFollowAnchors == Spec => []PairUsesTodaysAnchor
<1>1. Init => RolledInTick /\ PairUsesTodaysAnchor
  BY DEF Init, EmptyDict, RolledInTick, PairUsesTodaysAnchor
<1>2. Safe /\ AnchorsInStep /\ RolledInTick /\ PairUsesTodaysAnchor /\ [Next]_vars
        => (RolledInTick /\ PairUsesTodaysAnchor)'
  BY RolledStep, TodaysAnchorStep
<1> QED BY <1>1, <1>2, AnchorsKept, PTL DEF Spec

-----------------------------------------------------------------------------
(* Live pairs, and fills accounted for *)

\* In a process that was not restarted both legs of a pair rest, for its symbol.
LegsLive ==
  crashes = 0 =>
    \A s \in DOMAIN pairs, side \in Side :
      LET leg == pairs[s].leg[side]
      IN  leg \in OpenOrders(orders) /\ orders[leg].sym = s

LEMMA LegsLiveStep ==
  ASSUME Safe, LegsLive, [Next]_vars
  PROVE  LegsLive'
<1> USE DEF Safe
<1>1. ASSUME UNCHANGED <<orders, pairs, crashes>>
      PROVE  LegsLive'
  BY <1>1 DEF LegsLive
<1>2. CASE Restart
  <2>1. crashes' # 0
    BY <1>2 DEF Restart, TypeOK
  <2> QED BY <2>1 DEF LegsLive
<1>3. CASE HandlePaperFills
  <2> DEFINE s      == tick.sym
             fills  == Crossed(orders, s, tick.ltp)
             filled == FilledOrders(orders, s, tick.ltp)
  <2>1. /\ crashes' = crashes
        /\ OpenOrders(filled) = OpenOrders(orders) \ fills
        /\ filled \in Seq(Order(Symbols))
        /\ \A i \in OpenOrders(filled) : filled[i] = orders[i]
        /\ \A i \in fills : orders[i].sym = s
    BY <1>3, FilledOrdersFacts DEF HandlePaperFills, TypeOK, Crossed
  <2>2. CASE fills = {}
    <3>1. orders' = filled /\ pairs' = pairs
      BY <1>3, <2>2, NoFillFacts
    <3> HIDE DEF filled
    <3> QED BY <2>1, <2>2, <3>1 DEF LegsLive
  <2>3. CASE fills # {}
    <3> DEFINE id   == First(fills)
               peer == IF id = pairs[s].leg["LONG"] THEN pairs[s].leg["SHORT"]
                                                    ELSE pairs[s].leg["LONG"]
    <3>1. /\ s \in DOMAIN pairs
          /\ orders' = CancelOrders(filled, {peer}) /\ pairs' = Del(pairs, s)
      BY <1>3, <2>3, FillFacts DEF OnOrderFill
    <3>2. peer = pairs[s].leg["LONG"] \/ peer = pairs[s].leg["SHORT"]
      OBVIOUS
    <3> HIDE DEF filled, fills, peer
    <3>3. crashes = 0 => orders[peer].sym = s
      BY <3>1, <3>2 DEF LegsLive, Side
    <3>4. /\ OpenOrders(orders') = OpenOrders(filled) \ {peer}
          /\ \A i \in OpenOrders(orders') : orders'[i] = filled[i]
      BY <2>1, <3>1, CancelOrdersFacts
    <3> SUFFICES ASSUME crashes = 0, NEW t \in DOMAIN pairs', NEW side \in Side
                 PROVE  LET leg == pairs'[t].leg[side]
                        IN  leg \in OpenOrders(orders') /\ orders'[leg].sym = t
      BY <2>1 DEF LegsLive
    <3>5. t \in DOMAIN pairs /\ t # s /\ pairs'[t] = pairs[t]
      BY <3>1 DEF Del
    <3> DEFINE leg == pairs[t].leg[side]
    <3>6. leg \in OpenOrders(orders) /\ orders[leg].sym = t
      BY <3>5 DEF LegsLive
    <3> HIDE DEF leg
    <3>7. leg \notin fills /\ leg # peer
      BY <2>1, <3>3, <3>5, <3>6
    <3>8. leg \in OpenOrders(orders') /\ orders'[leg].sym = t
      BY <2>1, <3>4, <3>6, <3>7
    <3> QED BY <3>5, <3>8 DEF leg
  <2> QED BY <2>2, <2>3
<1>4. CASE MaybePlaceOcoPair
  <2> DEFINE s    == tick.sym
             n    == Len(orders)
             pair == NewPair(s, n)
  <2>1. CASE MayPlacePair(s)
    <3>1. s \in Symbols /\ PlacePair(s) /\ crashes' = crashes
      BY <1>4, <2>1, TickSymbol DEF MaybePlaceOcoPair, Then
    <3>2. /\ n \in Nat /\ DOMAIN orders = 1 .. n
          /\ pair.leg["LONG"] = n + 1 /\ pair.leg["SHORT"] = n + 2
          /\ DOMAIN orders' = 1 .. n + 2
          /\ \A i \in 1 .. n : orders'[i] = orders[i]
          /\ \A side \in Side :
               orders'[pair.leg[side]] =
                 [sym |-> s, side |-> side, qty |-> pair.qty, kind |-> "STOP",
                  trigger |-> pair.levels[side].entry, status |-> "OPEN"]
          /\ pairs' = Put(pairs, s, pair)
      BY <2>1, <3>1, PlaceFacts
    <3> HIDE DEF pair, n, s
    <3>3. ASSUME NEW side \in Side
          PROVE  pair.leg[side] \in OpenOrders(orders') /\ orders'[pair.leg[side]].sym = s
      <4> DEFINE placed == [sym |-> s, side |-> side, qty |-> pair.qty, kind |-> "STOP",
                            trigger |-> pair.levels[side].entry, status |-> "OPEN"]
      <4>1. orders'[pair.leg[side]] = placed
        BY <3>2
      <4>2. placed.sym = s /\ placed.status = "OPEN"
        OBVIOUS
      <4>3. pair.leg[side] \in DOMAIN orders'
        BY <3>2 DEF Side
      <4> HIDE DEF placed
      <4> QED BY <4>1, <4>2, <4>3 DEF OpenOrders
    <3>4. \A i \in OpenOrders(orders) : i \in OpenOrders(orders') /\ orders'[i] = orders[i]
      BY <3>2 DEF OpenOrders
    <3>5. /\ DOMAIN pairs' = DOMAIN pairs \cup {s} /\ pairs'[s] = pair
          /\ \A t \in DOMAIN pairs : t # s => pairs'[t] = pairs[t]
      BY <3>2 DEF Put
    <3> SUFFICES ASSUME crashes = 0, NEW t \in DOMAIN pairs', NEW side \in Side
                 PROVE  LET leg == pairs'[t].leg[side]
                        IN  leg \in OpenOrders(orders') /\ orders'[leg].sym = t
      BY <3>1 DEF LegsLive
    <3>6. CASE t = s
      BY <3>3, <3>5, <3>6
    <3>7. CASE t # s
      <4>1. t \in DOMAIN pairs /\ pairs'[t] = pairs[t]
        BY <3>5, <3>7
      <4>2. pairs[t].leg[side] \in OpenOrders(orders) /\ orders[pairs[t].leg[side]].sym = t
        BY <4>1 DEF LegsLive
      <4> QED BY <3>4, <4>1, <4>2
    <3> QED BY <3>6, <3>7
  <2>2. CASE ~MayPlacePair(s)
    BY <1>1, <1>4, <2>2 DEF MaybePlaceOcoPair
  <2> QED BY <2>1, <2>2
<1>5. CASE PreSquareoffSweep
  <2>1. CASE SweepDue
    BY <1>5, <2>1, EmptyDictType DEF PreSquareoffSweep, LegsLive
  <2>2. CASE ~SweepDue
    BY <1>1, <1>5, <2>2 DEF PreSquareoffSweep
  <2> QED BY <2>1, <2>2
<1>6. CASE \/ \E s \in Symbols, ltp \in Prices : OnTick(s, ltp)
           \/ UpdateRollingBar \/ MaybeCaptureAnchor \/ SquareOffAtClose
           \/ AdvanceClock \/ SetPaused \/ UNCHANGED vars
  BY <1>1, <1>6
     DEF OnTick, UpdateRollingBar, MaybeCaptureAnchor, SquareOffAtClose, AdvanceClock,
         SetPaused, vars, memory
<1> QED
  BY <1>2, <1>3, <1>4, <1>5, <1>6 DEF Next, TickOf, Handle

\* In a process that was not restarted, both legs of a tracked pair rest at
\* the broker.
THEOREM LivePairs == Spec => []PairsAreLive
<1>1. Init => LegsLive
  BY EmptyDictType DEF Init, LegsLive
<1>2. LegsLive => PairsAreLive
  BY DEF LegsLive, PairsAreLive
<1> QED BY <1>1, <1>2, LegsLiveStep, Safety, PTL DEF Spec

\* The sets that FillsAccounted counts are finite.
FiniteBook == IsFiniteSet(FilledIds(orders)) /\ IsFiniteSet(DOMAIN positions)

LEMMA FillsAccountedStep ==
  ASSUME Bracketed, FiniteBook, FillsAccounted, [Next]_vars
  PROVE  FiniteBook' /\ FillsAccounted'
<1> USE DEF Bracketed, Safe
<1> DEFINE ids == FilledIds(orders)
           dom == DOMAIN positions
<1>1. /\ dayTrades \in Nat /\ Cardinality(ids) \in Nat /\ Cardinality(dom) \in Nat
      /\ IsFiniteSet(ids) /\ IsFiniteSet(dom)
      /\ Cardinality(ids) = dayTrades + Cardinality(dom)
  BY FS_CardinalityType DEF TypeOK, FiniteBook, FillsAccounted
<1>2. ASSUME FilledIds(orders') = ids, DOMAIN positions' = dom, dayTrades' = dayTrades
      PROVE  FiniteBook' /\ FillsAccounted'
  BY <1>1, <1>2 DEF FiniteBook, FillsAccounted
<1>3. orders \in Seq(Order(Symbols))
  BY DEF TypeOK
<1>4. CASE Restart
  <2>1. FilledIds(orders') = {} /\ DOMAIN positions' = {} /\ dayTrades' = 0
    BY <1>4, EmptyDictType DEF Restart, FilledIds
  <2> QED BY <2>1, FS_EmptySet DEF FiniteBook, FillsAccounted
<1>5. CASE HandlePaperFills
  <2> DEFINE s      == tick.sym
             fills  == Crossed(orders, s, tick.ltp)
             filled == FilledOrders(orders, s, tick.ltp)
  <2>1. dayTrades' = dayTrades /\ FilledIds(filled) = ids \cup fills
    BY <1>3, <1>5, FilledIdsFacts DEF HandlePaperFills
  <2>2. filled \in Seq(Order(Symbols))
    BY <1>3, FilledOrdersFacts
  <2>3. CASE fills = {}
    <3>1. orders' = filled /\ positions' = positions
      BY <1>5, <2>3, NoFillFacts
    <3> QED BY <1>2, <2>1, <2>3, <3>1
  <2>4. CASE fills # {}
    <3> DEFINE id == First(fills)
    <3>1. PICK peer : orders' = CancelOrders(filled, {peer})
      BY <1>5, <2>4, FillFacts DEF OnOrderFill
    <3>2. PICK pos : positions' = Put(positions, s, pos) /\ s \notin dom
      BY <1>5, <2>4, OpenedPosition
    <3>3. s \in Symbols
      BY <1>5, <2>4, FillFacts
    <3>4. tick.ltp \in Nat
      BY <1>5, TickSymbol DEF HandlePaperFills, Then
    <3>5. fills = {id}
      BY <2>4, <3>3, <3>4, OneFill
    <3>6. id \notin ids
      BY <3>5 DEF Crossed, OpenOrders, FilledIds
    <3> HIDE DEF filled, fills, id
    <3>7. FilledIds(orders') = ids \cup {id}
      BY <2>1, <2>2, <3>1, <3>5, FilledIdsFacts
    <3>8. DOMAIN positions' = dom \cup {s}
      BY <3>2 DEF Put
    <3> HIDE DEF ids, dom, s
    <3>9. /\ IsFiniteSet(ids \cup {id}) /\ Cardinality(ids \cup {id}) = Cardinality(ids) + 1
          /\ IsFiniteSet(dom \cup {s}) /\ Cardinality(dom \cup {s}) = Cardinality(dom) + 1
      BY <1>1, <3>2, <3>6, FS_AddElement
    <3> QED BY <1>1, <2>1, <3>7, <3>8, <3>9 DEF FiniteBook, FillsAccounted
  <2> QED BY <2>3, <2>4
<1>6. CASE MaybePlaceOcoPair
  <2> DEFINE s    == tick.sym
             n    == Len(orders)
             pair == NewPair(s, n)
  <2>1. positions' = positions /\ dayTrades' = dayTrades
    BY <1>6 DEF MaybePlaceOcoPair
  <2>2. CASE MayPlacePair(s)
    <3>1. s \in Symbols /\ PlacePair(s)
      BY <1>6, <2>2, TickSymbol DEF MaybePlaceOcoPair, Then
    <3>2. /\ n \in Nat /\ DOMAIN orders = 1 .. n
          /\ pair.leg["LONG"] = n + 1 /\ pair.leg["SHORT"] = n + 2
          /\ DOMAIN orders' = 1 .. n + 2
          /\ \A i \in 1 .. n : orders'[i] = orders[i]
          /\ \A side \in Side :
               orders'[pair.leg[side]] =
                 [sym |-> s, side |-> side, qty |-> pair.qty, kind |-> "STOP",
                  trigger |-> pair.levels[side].entry, status |-> "OPEN"]
      BY <2>2, <3>1, PlaceFacts
    <3> HIDE DEF pair, n, s
    <3>3. \A side \in Side : orders'[pair.leg[side]].status = "OPEN"
      <4> SUFFICES ASSUME NEW side \in Side
                   PROVE  orders'[pair.leg[side]].status = "OPEN"
        OBVIOUS
      <4> DEFINE placed == [sym |-> s, side |-> side, qty |-> pair.qty, kind |-> "STOP",
                            trigger |-> pair.levels[side].entry, status |-> "OPEN"]
      <4>1. orders'[pair.leg[side]] = placed
        BY <3>2
      <4>2. placed.status = "OPEN"
        OBVIOUS
      <4> QED BY <4>1, <4>2
    <3>4. orders'[n + 1].status = "OPEN" /\ orders'[n + 2].status = "OPEN"
      BY <3>2, <3>3 DEF Side
    <3>5. \A i \in 1 .. n + 2 : i \in 1 .. n \/ i = n + 1 \/ i = n + 2
      BY <3>2
    <3>6. \A i \in 1 .. n : i \in 1 .. n + 2
      BY <3>2
    <3>7. FilledIds(orders') = ids
      BY <3>2, <3>4, <3>5, <3>6 DEF FilledIds
    <3> QED BY <1>2, <2>1, <3>7
  <2>3. CASE ~MayPlacePair(s)
    BY <1>2, <1>6, <2>1, <2>3 DEF MaybePlaceOcoPair
  <2> QED BY <2>2, <2>3
<1>7. CASE PreSquareoffSweep
  <2>1. positions' = positions /\ dayTrades' = dayTrades
    BY <1>7 DEF PreSquareoffSweep
  <2>2. FilledIds(CancelOrders(orders, AllLegs)) = ids
    BY <1>3, FilledIdsFacts
  <2>3. orders' = CancelOrders(orders, AllLegs) \/ orders' = orders
    BY <1>7 DEF PreSquareoffSweep
  <2>4. FilledIds(orders') = ids
    BY <2>2, <2>3
  <2> QED BY <1>2, <2>1, <2>4
<1>8. CASE SquareOffAtClose
  <2> DEFINE s == tick.sym
  <2>1. orders' = orders
    BY <1>8 DEF SquareOffAtClose
  <2>2. CASE SquareOffDue(s) /\ s \in DOMAIN positions
    <3>1. dayTrades' = dayTrades + 1 /\ DOMAIN positions' = dom \ {s}
      BY <1>8, <2>2 DEF SquareOffAtClose, Del
    <3>2. /\ IsFiniteSet(dom \ {s}) /\ Cardinality(dom \ {s}) = Cardinality(dom) - 1
      BY <1>1, <2>2, FS_RemoveElement
    <3> QED BY <1>1, <2>1, <3>1, <3>2 DEF FiniteBook, FillsAccounted
  <2>3. CASE ~(SquareOffDue(s) /\ s \in DOMAIN positions)
    BY <1>2, <1>8, <2>1, <2>3 DEF SquareOffAtClose
  <2> QED BY <2>2, <2>3
<1>9. CASE \E s \in Symbols, ltp \in Prices : OnTick(s, ltp)
  <2>1. PICK s \in Symbols, ltp \in Prices : OnTick(s, ltp)
    BY <1>9
  <2>2. DOMAIN positions' = dom
    BY <2>1, TrailingStep
  <2> QED BY <1>2, <2>1, <2>2 DEF OnTick
<1>10. CASE \/ UpdateRollingBar \/ MaybeCaptureAnchor \/ AdvanceClock
            \/ SetPaused \/ UNCHANGED vars
  BY <1>2, <1>10
     DEF UpdateRollingBar, MaybeCaptureAnchor, AdvanceClock, SetPaused, vars, memory
<1> QED
  BY <1>4, <1>5, <1>6, <1>7, <1>8, <1>9, <1>10 DEF Next, TickOf, Handle

\* Every fill at the broker is a position held or a trade counted.
THEOREM AllFillsAccounted == Spec => []FillsAccounted
<1>1. Init => FiniteBook /\ FillsAccounted
  <2> SUFFICES ASSUME Init PROVE FiniteBook /\ FillsAccounted
    OBVIOUS
  <2>1. FilledIds(orders) = {} /\ DOMAIN positions = {} /\ dayTrades = 0
    BY EmptyDictType DEF Init, FilledIds
  <2> QED BY <2>1, FS_EmptySet DEF FiniteBook, FillsAccounted
<1> QED BY <1>1, FillsAccountedStep, BracketSafety, PTL DEF Spec

-----------------------------------------------------------------------------
(* The refinement *)

\* The orders that rest for a symbol are its legs: none of them changed, no
\* leg changed.
LEMMA SameLegs ==
  ASSUME NEW s \in Symbols,
         \A i : (i \in OpenOrders(orders) /\ orders[i].sym = s)
                  <=> (i \in OpenOrders(orders') /\ orders'[i].sym = s),
         \A i \in OpenOrders(orders) : orders[i].sym = s => orders'[i] = orders[i]
  PROVE  RestingLegs(s)' = RestingLegs(s)
BY DEF RestingLegs

\* A symbol without a pair has no leg at rest.
LEMMA NoPairNoLegs ==
  ASSUME RestingOrdersArePaired, NEW s, s \notin DOMAIN pairs
  PROVE  RestingLegs(s) = {}
BY DEF RestingOrdersArePaired, RestingLegs

\* A step that leaves orders, book, issued and crashes alone is a stutter.
LEMMA Stutter ==
  ASSUME UNCHANGED <<orders, book, issued, crashes>>
  PROVE  UNCHANGED Account!vars
BY DEF Account!vars, RestingLegs, OpenOrders, FilledIds

\* The account before anything has happened.
LEMMA BracketInit == Init => Account!Init
BY EmptyDictType
   DEF Init, Account!Init, Account!EmptyDict, EmptyDict, RestingLegs, OpenOrders, FilledIds

\* Trailing moves the one stop of the book, or nothing.
LEMMA BracketOnTick ==
  ASSUME Bracketed, NEW s \in Symbols, NEW ltp \in Prices, OnTick(s, ltp)
  PROVE  Account!Trail(s) \/ UNCHANGED Account!vars
<1> USE DEF Bracketed, Safe
<1>1. UNCHANGED <<orders, issued, crashes>>
  BY DEF OnTick
<1>2. CASE book' = book
  BY <1>1, <1>2, Stutter
<1>3. CASE book' # book
  <2> DEFINE old == positions[s]
             new == UpdateTrailing(old, bars[s].close)
  <2>1. BarClosesOnPosition(s) /\ new.sl # old.sl /\ book' = ModifySl(book, s, new.sl)
        /\ positions' = Put(positions, s, new)
    BY <1>3 DEF OnTick
  <2>2. s \in DOMAIN positions /\ s \in DOMAIN book
    BY <2>1 DEF BarClosesOnPosition, BookMirrorsBroker
  <2>3. positions'[s] = new
    BY <2>1 DEF Put
  <2>4. Sign(old.side) * (new.sl - old.sl) > 0
    <3> HIDE DEF new
    <3> QED BY <2>1, <2>2, <2>3, TrailingStep
  <2>5. /\ old.side \in Side /\ old.sl \in Int
        /\ book[s].side = old.side /\ book[s].sl = old.sl
    BY <2>2 DEF TypeOK, IsDict, Position, BookMirrorsBroker
  <2>6. new.sl \in Int
    <3>1. bars[s].close \in Int /\ old \in Position
      BY <2>1, <2>2 DEF BarClosesOnPosition, TypeOK, IsDict, Bar
    <3> QED BY <3>1, UpdateTrailingType DEF Position
  <2> HIDE DEF new, old
  <2>7. book' = [book EXCEPT ![s].sl = new.sl] /\ book'[s].sl = new.sl
        /\ s \in DOMAIN book'
    BY <2>1, <2>2 DEF ModifySl, TypeOK, IsDict, PaperPosition
  <2>8. Account!Ahead(book[s].side, book'[s].sl, book[s].sl) > 0
    BY <2>4, <2>5, <2>6, <2>7, SignValues DEF Account!Ahead
  <2>9. UNCHANGED <<[t \in Symbols |-> RestingLegs(t)], FilledIds(orders), issued, crashes>>
    BY <1>1 DEF RestingLegs, OpenOrders, FilledIds
  <2> QED BY <2>2, <2>7, <2>8, <2>9 DEF Account!Trail
<1> QED BY <1>2, <1>3

\* A tick's fill is the fill of one leg, and takes the other one away.
LEMMA BracketHandlePaperFills ==
  ASSUME Bracketed, HandlePaperFills
  PROVE  (\E s \in Symbols : Account!Fill(s)) \/ UNCHANGED Account!vars
<1> USE DEF Bracketed, Safe
<1> DEFINE s      == tick.sym
           fills  == Crossed(orders, s, tick.ltp)
           filled == FilledOrders(orders, s, tick.ltp)
           id     == First(fills)
           side   == orders[id].side
           pair   == pairs[s]
           level  == pair.levels[side]
           pos    == OpenPosition(side, orders[id].trigger, level, pair.qty)
           peer   == IF id = pair.leg["LONG"] THEN pair.leg["SHORT"] ELSE pair.leg["LONG"]
           leg    == [id |-> id, side |-> side, price |-> orders[id].trigger,
                      qty |-> orders[id].qty]
<1>1. UNCHANGED <<issued, crashes>>
  BY DEF HandlePaperFills
<1>2. CASE fills = {}
  <2>1. orders' = filled /\ book' = book
    BY <1>2, NoFillFacts
  <2>2. filled = orders
    BY <1>2 DEF FilledOrders, TypeOK
  <2> QED BY <1>1, <2>1, <2>2, Stutter
<1>3. CASE fills # {}
  <2>1. /\ s \in Symbols /\ s \in DOMAIN pairs /\ side \in Side /\ id \in fills
        /\ orders[id].qty = pair.qty /\ orders[id].trigger \in Int
        /\ orders' = CancelOrders(filled, {peer})
        /\ pairs' = Del(pairs, s)
    BY <1>3, FillFacts DEF OnOrderFill
  <2>2. /\ positions' = Put(positions, s, pos) /\ s \notin DOMAIN positions
        /\ pos \in Position
        /\ Sign(side) * (pos.entry - pos.sl) >= 0
        /\ Sign(side) * (pos.tp - pos.entry) >= 0
    BY <1>3, OpenedPosition
  <2>3. s \notin DOMAIN book
    BY <2>2 DEF BookMirrorsBroker
  <2>4. BookMirrorsBroker'
    BY BookHandlePaperFills
  <2>5. /\ pos.side = side /\ pos.entry = orders[id].trigger /\ pos.qty = orders[id].qty
        /\ pos.sl \in Int /\ pos.tp \in Int
    BY <2>1, <2>2 DEF OpenPosition, Position
  <2> HIDE DEF pos
  <2>6. book' = Put(book, s, MirrorOf(pos))
    <3>1. /\ DOMAIN positions' = DOMAIN positions \cup {s} /\ positions'[s] = pos
          /\ \A t \in DOMAIN positions : positions'[t] = positions[t]
      BY <2>2 DEF Put
    <3>2. /\ DOMAIN book' = DOMAIN book \cup {s} /\ book'[s] = MirrorOf(pos)
          /\ \A t \in DOMAIN book : book'[t] = book[t]
      BY <2>3, <2>4, <3>1 DEF BookMirrorsBroker, MirrorOf
    <3>3. IsDict(book', Symbols, PaperPosition)
      BY TypeHandlePaperFills DEF TypeOK
    <3> QED BY <2>3, <3>2, <3>3 DEF Put, IsDict
  <2>7. /\ leg \in RestingLegs(s) /\ leg.id = id /\ leg.side = side
        /\ leg.price = orders[id].trigger /\ leg.qty = orders[id].qty
    BY <2>1 DEF RestingLegs, Crossed
  <2>8. FilledIds(orders') = FilledIds(orders) \cup {leg.id}
    <3>1. fills = {id}
      BY <1>3, <2>1, OneFill, TickSymbol DEF HandlePaperFills, Then
    <3>2. filled \in Seq(Order(Symbols))
      BY FilledOrdersFacts DEF TypeOK
    <3>3. FilledIds(orders') = FilledIds(filled)
      <4> HIDE DEF filled
      <4> QED BY <2>1, <3>2, FilledIdsFacts
    <3>4. FilledIds(filled) = FilledIds(orders) \cup fills
      BY FilledIdsFacts DEF TypeOK
    <3> QED BY <2>7, <3>1, <3>3, <3>4
  <2>9. RestingOrdersArePaired'
    BY RestingHandlePaperFills
  <2>10. ASSUME NEW t \in Symbols, t = s
         PROVE  RestingLegs(t)' = {}
    <3>1. t \notin DOMAIN pairs'
      BY <2>1, <2>10 DEF Del
    <3>2. \A i \in OpenOrders(orders') : orders'[i].sym # t
      BY <2>9, <3>1 DEF RestingOrdersArePaired
    <3> QED BY <3>2 DEF RestingLegs
  <2>11. ASSUME NEW t \in Symbols, t # s
         PROVE  RestingLegs(t)' = RestingLegs(t)
    <3>1. /\ filled \in Seq(Order(Symbols))
          /\ OpenOrders(filled) = OpenOrders(orders) \ fills
          /\ \A i \in OpenOrders(filled) : filled[i] = orders[i]
      BY FilledOrdersFacts DEF TypeOK
    <3>2. /\ OpenOrders(orders') = OpenOrders(filled) \ {peer}
          /\ \A i \in OpenOrders(orders') : orders'[i] = filled[i]
      <4> HIDE DEF filled, peer
      <4> QED BY <2>1, <3>1, CancelOrdersFacts
    <3>3. \A i \in OpenOrders(orders) : orders[i].sym = t => i \notin fills /\ i # peer
      <4> SUFFICES ASSUME NEW i \in OpenOrders(orders), orders[i].sym = t
                   PROVE  i \notin fills /\ i # peer
        OBVIOUS
      <4>1. i \notin fills
        BY <2>11, CrossedAreOpen
      <4>2. peer \in DOMAIN orders /\ orders[peer].sym = s
        <5>1. id \in OpenOrders(orders) /\ orders[id].sym = s
          BY <2>1, CrossedAreOpen
        <5> QED BY <5>1 DEF LegsShareSymbol, Side
      <4> HIDE DEF peer
      <4>3. i # peer
        BY <2>11, <4>2
      <4> QED BY <4>1, <4>3
    <3> HIDE DEF filled, peer, fills
    <3>4. \A i \in OpenOrders(orders') : i \in OpenOrders(orders) /\ orders'[i] = orders[i]
      BY <3>1, <3>2
    <3>5. \A i \in OpenOrders(orders) : orders[i].sym = t => i \in OpenOrders(orders') /\ orders'[i] = orders[i]
      BY <3>1, <3>2, <3>3
    <3> QED BY <3>4, <3>5, SameLegs
  <2>12. [t \in Symbols |-> RestingLegs(t)'] = [[t \in Symbols |-> RestingLegs(t)] EXCEPT ![s] = {}]
    BY <2>1, <2>10, <2>11
  <2>13. /\ s \in DOMAIN book' /\ book'[s] = MirrorOf(pos)
    BY <2>6 DEF Put
  <2>14. book'[s] = [book'[s] EXCEPT !.side = leg.side, !.entry = leg.price, !.qty = leg.qty]
    <3> HIDE DEF leg, s, side, id
    <3>1. book'[s].side = leg.side /\ book'[s].entry = leg.price /\ book'[s].qty = leg.qty
      BY <2>5, <2>7, <2>13 DEF MirrorOf
    <3>2. book'[s] = [side |-> book'[s].side, entry |-> book'[s].entry, qty |-> book'[s].qty,
                      sl |-> book'[s].sl, tp |-> book'[s].tp]
      BY <2>13 DEF MirrorOf
    <3> QED BY <3>1, <3>2
  <2>15. Account!Protected(book'[s])
    BY <2>1, <2>2, <2>5, <2>13, SignValues DEF Account!Protected, Account!Ahead, MirrorOf
  <2> HIDE DEF leg, s
  <2>16. book' = Account!Put(book, s, [book'[s] EXCEPT !.side = leg.side, !.entry = leg.price,
                                                     !.qty = leg.qty])
    BY <2>6, <2>13, <2>14 DEF Put, Account!Put
  <2>17. leg \in [t \in Symbols |-> RestingLegs(t)][s]
    BY <2>1, <2>7
  <2> QED
    BY <1>1, <2>1, <2>3, <2>8, <2>12, <2>13, <2>15, <2>16, <2>17 DEF Account!Fill
<1> QED BY <1>2, <1>3

\* Placing for a symbol lays one bracket: its long leg above its short leg.
LEMMA BracketMaybePlaceOcoPair ==
  ASSUME Bracketed, MaybePlaceOcoPair
  PROVE  (\E s \in Symbols : Account!Place(s)) \/ UNCHANGED Account!vars
<1> USE DEF Bracketed, Safe
<1> DEFINE s     == tick.sym
           n     == Len(orders)
           pair  == NewPair(s, n)
           Leg(side) == [id |-> pair.leg[side], side |-> side,
                         price |-> pair.levels[side].entry, qty |-> pair.qty]
           bracket == {Leg("LONG"), Leg("SHORT")}
<1>1. CASE ~MayPlacePair(s)
  BY <1>1, Stutter DEF MaybePlaceOcoPair
<1>2. CASE MayPlacePair(s)
  <2>1. /\ s \in Symbols /\ PlacePair(s)
        /\ s \notin DOMAIN pairs /\ s \notin DOMAIN positions
        /\ clock.tod < NoNewTradeAfter /\ UNCHANGED <<book, crashes>>
    BY <1>2, TickSymbol DEF MaybePlaceOcoPair, Then, MayPlacePair
  <2>2. RestingLegs(s) = {}
    BY <2>1, NoPairNoLegs
  <2>3. s \notin DOMAIN book
    BY <2>1 DEF BookMirrorsBroker
  <2>4. crashes = 0 => issued[s] = 0
    <3>1. clock.tod \in Nat /\ NoNewTradeAfter \in Nat /\ issued[s] \in Nat
      BY <2>1, OrchestratorAssumption DEF TypeOK, Moment
    <3> QED BY <2>1, <3>1 DEF PlacedOnce
  <2>5. issued' = [issued EXCEPT ![s] = issued[s] + 1]
    BY <2>1 DEF PlacePair
  <2>6. /\ n \in Nat /\ DOMAIN orders = 1 .. n
        /\ pair \in Pair
        /\ pair.leg["LONG"] = n + 1 /\ pair.leg["SHORT"] = n + 2
        /\ DOMAIN orders' = 1 .. n + 2
        /\ \A i \in 1 .. n : orders'[i] = orders[i]
        /\ \A side \in Side :
             orders'[pair.leg[side]] =
               [sym |-> s, side |-> side, qty |-> pair.qty, kind |-> "STOP",
                trigger |-> pair.levels[side].entry, status |-> "OPEN"]
    BY <1>2, <2>1, PlaceFacts
  <2>7. pair.levels["LONG"].entry > pair.levels["SHORT"].entry
    <3>1. anchors.px[s] \in Int
      BY <1>2 DEF MayPlacePair, TypeOK, IsAnchorRecord, IsDict
    <3>2. pair.levels = BuildOrderLevels(anchors.px[s])
      BY DEF NewPair
    <3> QED BY <3>1, <3>2, LegsApart
  <2> HIDE DEF pair, n, s
  <2>8. ASSUME NEW side \in Side
        PROVE  /\ orders'[pair.leg[side]].sym = s /\ orders'[pair.leg[side]].side = side
               /\ orders'[pair.leg[side]].qty = pair.qty
               /\ orders'[pair.leg[side]].trigger = pair.levels[side].entry
               /\ orders'[pair.leg[side]].status = "OPEN"
    <3> DEFINE new == [sym |-> s, side |-> side, qty |-> pair.qty, kind |-> "STOP",
                       trigger |-> pair.levels[side].entry, status |-> "OPEN"]
    <3>1. orders'[pair.leg[side]] = new
      BY <2>6
    <3>2. /\ new.sym = s /\ new.side = side /\ new.qty = pair.qty
          /\ new.trigger = pair.levels[side].entry /\ new.status = "OPEN"
      OBVIOUS
    <3> HIDE DEF new
    <3> QED BY <3>1, <3>2
  <2>9. OpenOrders(orders') = OpenOrders(orders) \cup {n + 1, n + 2}
        /\ FilledIds(orders') = FilledIds(orders)
    <3>1. 1 .. n + 2 = (1 .. n) \cup {n + 1, n + 2}
      BY <2>6
    <3>2. orders'[n + 1].status = "OPEN" /\ orders'[n + 2].status = "OPEN"
      BY <2>6, <2>8 DEF Side
    <3> QED BY <2>6, <3>1, <3>2 DEF OpenOrders, FilledIds
  <2>10. orders'[n + 1].sym = s /\ orders'[n + 2].sym = s
    BY <2>6, <2>8 DEF Side
  <2>11. ASSUME NEW t \in Symbols, t # s
         PROVE  RestingLegs(t)' = RestingLegs(t)
    <3>1. \A i \in OpenOrders(orders) : orders'[i] = orders[i]
      BY <2>6 DEF OpenOrders
    <3>2. \A i : (i \in OpenOrders(orders) /\ orders[i].sym = t)
                   <=> (i \in OpenOrders(orders') /\ orders'[i].sym = t)
      BY <2>9, <2>10, <2>11, <3>1
    <3> QED BY <3>1, <3>2, SameLegs
  <2>12. ASSUME NEW t \in Symbols, t = s
         PROVE  RestingLegs(t)' = bracket
    <3>1. {i \in OpenOrders(orders') : orders'[i].sym = t} = {n + 1, n + 2}
      <4>1. \A i \in OpenOrders(orders) : orders[i].sym # t /\ orders'[i] = orders[i]
        BY <2>1, <2>6, <2>12 DEF RestingOrdersArePaired, OpenOrders
      <4> QED BY <2>9, <2>10, <2>12, <4>1
    <3>2. RestingLegs(t)' =
            {[id |-> i, side |-> orders'[i].side, price |-> orders'[i].trigger,
              qty |-> orders'[i].qty] : i \in {j \in OpenOrders(orders') : orders'[j].sym = t}}
      BY DEF RestingLegs
    <3>3. "LONG" \in Side /\ "SHORT" \in Side
      BY DEF Side
    <3> QED BY <2>6, <2>8, <3>1, <3>2, <3>3
  <2>13. Account!IsBracket(bracket)
    <3>1. Leg("LONG").side = "LONG" /\ Leg("SHORT").side = "SHORT"
          /\ Leg("LONG").qty = Leg("SHORT").qty
          /\ Leg("LONG").price > Leg("SHORT").price
          /\ Leg("LONG").id # Leg("SHORT").id
      BY <2>6, <2>7
    <3> HIDE DEF Leg
    <3> QED BY <3>1 DEF Account!IsBracket
  <2>14. Account!Ids(bracket) \cap FilledIds(orders) = {}
    <3>1. Leg("LONG").id \notin FilledIds(orders) /\ Leg("SHORT").id \notin FilledIds(orders)
      BY <2>6 DEF FilledIds
    <3> HIDE DEF Leg
    <3> QED BY <3>1 DEF Account!Ids
  <2> HIDE DEF bracket
  <2>15. [t \in Symbols |-> RestingLegs(t)'] =
           [[t \in Symbols |-> RestingLegs(t)] EXCEPT ![s] = bracket]
         /\ [t \in Symbols |-> RestingLegs(t)'][s] = bracket
    BY <2>1, <2>11, <2>12
  <2> QED
    BY <2>1, <2>2, <2>3, <2>4, <2>5, <2>9, <2>13, <2>14, <2>15 DEF Account!Place
<1> QED BY <1>1, <1>2

\* The sweep withdraws every leg.
LEMMA BracketPreSquareoffSweep ==
  ASSUME Bracketed, PreSquareoffSweep
  PROVE  Account!WithdrawAll \/ UNCHANGED Account!vars
<1> USE DEF Bracketed, Safe
<1>1. CASE SweepDue
  <2>1. OpenOrders(orders') = {}
    BY <1>1, RestingPreSquareoffSweep
  <2>2. [s \in Symbols |-> RestingLegs(s)'] = [s \in Symbols |-> {}]
    BY <2>1 DEF RestingLegs
  <2>3. FilledIds(orders') = FilledIds(orders)
    <3>1. orders' = CancelOrders(orders, AllLegs)
      BY <1>1 DEF PreSquareoffSweep
    <3> QED BY <3>1, FilledIdsFacts DEF TypeOK
  <2>4. UNCHANGED <<book, issued, crashes>>
    BY DEF PreSquareoffSweep
  <2> QED BY <2>2, <2>3, <2>4 DEF Account!WithdrawAll
<1>2. CASE ~SweepDue
  BY <1>2, Stutter DEF PreSquareoffSweep
<1> QED BY <1>1, <1>2

\* The square-off closes the position of the symbol that ticks, if it has one.
LEMMA BracketSquareOffAtClose ==
  ASSUME Bracketed, SquareOffAtClose
  PROVE  (\E s \in Symbols : Account!Close(s)) \/ UNCHANGED Account!vars
<1> USE DEF Bracketed, Safe
<1> DEFINE s == tick.sym
<1>1. s \in Symbols /\ UNCHANGED <<orders, issued, crashes>>
  BY TickSymbol DEF SquareOffAtClose, Then
<1>2. CASE SquareOffDue(s) /\ s \in DOMAIN positions
  <2>1. book' = Account!Del(book, s)
    BY <1>2 DEF SquareOffAtClose, ForceClose, Del, Account!Del
  <2>2. s \in DOMAIN book
    BY <1>2 DEF BookMirrorsBroker
  <2>3. UNCHANGED <<[t \in Symbols |-> RestingLegs(t)], FilledIds(orders)>>
    BY <1>1 DEF RestingLegs, OpenOrders, FilledIds
  <2> HIDE DEF s
  <2> QED BY <1>1, <2>1, <2>2, <2>3 DEF Account!Close
<1>3. CASE ~(SquareOffDue(s) /\ s \in DOMAIN positions)
  BY <1>1, <1>3, Stutter DEF SquareOffAtClose
<1> QED BY <1>2, <1>3

\* A restart loses the account, a new day its count.
LEMMA BracketEnvironment ==
  ASSUME Bracketed, Restart \/ AdvanceClock
  PROVE  Account!Lose \/ Account!NewDay \/ UNCHANGED Account!vars
<1>1. CASE Restart
  <2>1. orders' = <<>> /\ book' = EmptyDict /\ crashes' = crashes + 1 /\ issued' = issued
    BY <1>1 DEF Restart
  <2>2. [s \in Symbols |-> RestingLegs(s)'] = [s \in Symbols |-> {}] /\ FilledIds(orders') = {}
    BY <2>1 DEF RestingLegs, OpenOrders, FilledIds
  <2> QED BY <2>1, <2>2 DEF Account!Lose, EmptyDict, Account!EmptyDict
<1>2. CASE AdvanceClock
  <2>1. UNCHANGED <<orders, book, crashes>>
    BY <1>2 DEF AdvanceClock, memory
  <2>2. CASE NextSlot
    BY <2>1, <2>2, Stutter DEF NextSlot
  <2>3. CASE NextDay
    <3>1. issued' = [s \in Symbols |-> 0]
      BY <2>3 DEF NextDay
    <3>2. UNCHANGED <<[t \in Symbols |-> RestingLegs(t)], FilledIds(orders)>>
      BY <2>1 DEF RestingLegs, OpenOrders, FilledIds
    <3> QED BY <2>1, <3>1, <3>2 DEF Account!NewDay
  <2> QED BY <1>2, <2>2, <2>3 DEF AdvanceClock
<1> QED BY <1>1, <1>2

\* Every step of the orchestrator is a step of the brackets, or a stutter.
LEMMA BracketStep ==
  ASSUME Bracketed, [Next]_vars
  PROVE  [Account!Next]_(Account!vars)
<1>1. CASE \E s \in Symbols, ltp \in Prices : OnTick(s, ltp)
  BY <1>1, BracketOnTick DEF Account!Next
<1>2. CASE HandlePaperFills
  BY <1>2, BracketHandlePaperFills DEF Account!Next
<1>3. CASE MaybePlaceOcoPair
  BY <1>3, BracketMaybePlaceOcoPair DEF Account!Next
<1>4. CASE PreSquareoffSweep
  BY <1>4, BracketPreSquareoffSweep DEF Account!Next
<1>5. CASE SquareOffAtClose
  BY <1>5, BracketSquareOffAtClose DEF Account!Next
<1>6. CASE Restart \/ AdvanceClock
  BY <1>6, BracketEnvironment DEF Account!Next
<1>7. CASE UpdateRollingBar \/ MaybeCaptureAnchor \/ SetPaused \/ UNCHANGED vars
  BY <1>7, Stutter
     DEF UpdateRollingBar, MaybeCaptureAnchor, SetPaused, vars, memory
<1> QED
  BY <1>1, <1>2, <1>3, <1>4, <1>5, <1>6, <1>7 DEF Next, TickOf, Handle

\* The orchestrator and its paper broker implement the OCO bracket.
THEOREM Implements == Spec => ImplementsOcoBracket
<1>1. Init => Account!Init
  BY BracketInit
<1>2. Bracketed /\ [Next]_vars => [Account!Next]_(Account!vars)
  BY BracketStep
<1> QED BY <1>1, <1>2, BracketSafety, PTL DEF Spec, Account!Spec, ImplementsOcoBracket
=============================================================================
