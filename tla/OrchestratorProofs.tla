------------------------- MODULE OrchestratorProofs -------------------------
(***************************************************************************)
(* Safety of the Orchestrator, for any symbols, quotes, levels, slots,     *)
(* days and number of restarts.                                            *)
(***************************************************************************)
EXTENDS Orchestrator, PaperBrokerProofs, StrategyRunnerProofs

\* Within a tick its symbol is a symbol of the session.
LEMMA TickSymbol ==
  ASSUME TypeOK, pc # "idle"
  PROVE  tick.sym \in Symbols /\ tick.ltp \in Nat
BY DEF TypeOK

\* What a tick can fill are the legs of its symbol's pair.
LEMMA FillsAreLegs ==
  ASSUME TypeOK, RestingOrdersArePaired, NEW s \in Symbols, NEW ltp
  PROVE  /\ s \notin DOMAIN pairs => Crossed(orders, s, ltp) = {}
         /\ s \in DOMAIN pairs =>
              \A i \in Crossed(orders, s, ltp) :
                /\ i = pairs[s].leg[orders[i].side]
                /\ orders[i].trigger = pairs[s].levels[orders[i].side].entry
                /\ orders[i].qty = pairs[s].qty
         /\ \A i \in Crossed(orders, s, ltp) : orders[i] \in Order(Symbols)
         /\ Crossed(orders, s, ltp) # {} =>
              First(Crossed(orders, s, ltp)) \in Crossed(orders, s, ltp)
<1> DEFINE fills == Crossed(orders, s, ltp)
<1>1. \A i \in fills : i \in OpenOrders(orders) /\ orders[i].sym = s
  BY CrossedAreOpen
<1>2. \A i \in fills : orders[i] \in Order(Symbols)
  BY <1>1 DEF OpenOrders, TypeOK
<1>3. s \notin DOMAIN pairs => fills = {}
  BY <1>1 DEF RestingOrdersArePaired
<1>4. ASSUME s \in DOMAIN pairs
      PROVE  \A i \in fills : /\ i = pairs[s].leg[orders[i].side]
                              /\ orders[i].trigger = pairs[s].levels[orders[i].side].entry
                              /\ orders[i].qty = pairs[s].qty
  BY <1>1 DEF RestingOrdersArePaired
<1>5. ASSUME fills # {}
      PROVE  First(fills) \in fills
  <2>1. s \in DOMAIN pairs
    BY <1>3, <1>5
  <2>2. pairs[s] \in Pair
    BY <2>1 DEF TypeOK, IsDict
  <2>3. pairs[s].leg["LONG"] \in Nat /\ pairs[s].leg["SHORT"] \in Nat
    BY <2>2 DEF Pair, Side
  <2>4. fills \subseteq {pairs[s].leg["LONG"], pairs[s].leg["SHORT"]}
    BY <1>2, <1>4, <2>1 DEF Order, Side
  <2> QED
    BY <1>5, <2>3, <2>4, FirstIsAFill
<1> QED
  BY <1>2, <1>3, <1>4, <1>5

-----------------------------------------------------------------------------
(* Types *)

\* Every initial state is well typed.
LEMMA TypeInit == Init => TypeOK
<1> SUFFICES ASSUME Init PROVE TypeOK
  OBVIOUS
<1>1. IsAnchorRecord(anchors) /\ IsAnchorRecord(anchorFile)
  BY EmptyDictType DEF Init, IsAnchorRecord, NoAnchors, NoDay
<1>2. clock \in Moment /\ pc \in Method
  BY DEF Init, Moment, Method
<1>3. tick \in [sym : Symbols \cup {NoSymbol}, ltp : Nat]
      /\ (pc = "idle" <=> tick.sym = NoSymbol)
  BY DEF Init, NoTick
<1>4. /\ IsDict(bars, Symbols, Bar) /\ IsDict(pairs, Symbols, Pair)
      /\ IsDict(positions, Symbols, Position) /\ IsDict(book, Symbols, PaperPosition)
      /\ IsDict(pairFile, Symbols, Pair)
  BY EmptyDictType DEF Init
<1>5. orders \in Seq(Order(Symbols)) /\ issued \in [Symbols -> Nat]
  BY DEF Init
<1>6. /\ dayPnl \in Int /\ dayTrades \in Nat /\ crashes \in Nat
      /\ squaredOff \in SUBSET Symbols
  BY DEF Init
<1>7. swept \in BOOLEAN /\ paused \in BOOLEAN
  BY DEF Init
<1> QED
  BY <1>1, <1>2, <1>3, <1>4, <1>5, <1>6, <1>7 DEF TypeOK

\* A tick's first method keeps the types: trailing keeps a position one.
LEMMA TypeOnTick ==
  ASSUME TypeOK, NEW s \in Symbols, NEW ltp \in Prices, OnTick(s, ltp)
  PROVE  TypeOK'
<1>1. tick' \in [sym : Symbols \cup {NoSymbol}, ltp : Nat] /\ tick'.sym # NoSymbol
  BY OrchestratorAssumption DEF OnTick
<1>2. pc' = "updateBar"
  BY DEF OnTick, Then
<1>3. IsDict(positions', Symbols, Position) /\ IsDict(book', Symbols, PaperPosition)
  <2>1. CASE BarClosesOnPosition(s)
    <3> DEFINE old == positions[s]
               new == UpdateTrailing(old, bars[s].close)
    <3>1. old \in Position /\ bars[s].close \in Int
      BY <2>1 DEF BarClosesOnPosition, TypeOK, IsDict, Bar
    <3>2. new \in Position /\ new.sl \in Int
      BY <3>1, UpdateTrailingType DEF Position
    <3>3. positions' = Put(positions, s, new)
      BY <2>1 DEF OnTick
    <3>4. book' = IF new.sl # old.sl THEN ModifySl(book, s, new.sl) ELSE book
      BY <2>1 DEF OnTick
    <3> QED
      BY <3>2, <3>3, <3>4, PutType, ModifyType DEF TypeOK
  <2>2. CASE ~BarClosesOnPosition(s)
    BY <2>2 DEF OnTick, TypeOK
  <2> QED
    BY <2>1, <2>2
<1> QED
  BY <1>1, <1>2, <1>3 DEF OnTick, TypeOK, Method, files

\* The rolling bar stays a bar.
LEMMA TypeUpdateRollingBar ==
  ASSUME TypeOK, UpdateRollingBar
  PROVE  TypeOK'
<1>1. tick.sym \in Symbols /\ tick.ltp \in Nat
  BY TickSymbol DEF UpdateRollingBar, Then
<1>2. BarStart(clock) \in Moment
  <2>1. clock.tod \in Nat /\ BarLen \in Nat \ {0}
    BY OrchestratorAssumption DEF TypeOK, Moment
  <2>2. clock.tod \div BarLen \in Nat
    BY <2>1, DivisionBounds
  <2>3. (clock.tod \div BarLen) * BarLen \in Nat
    BY <2>1, <2>2
  <2> QED
    BY <2>3 DEF BarStart, TypeOK, Moment
<1>3. UpdatedBar(tick.sym, tick.ltp) \in Bar
  BY <1>1, <1>2 DEF UpdatedBar, Bar, TypeOK, IsDict
<1>4. IsDict(bars', Symbols, Bar)
  BY <1>1, <1>3, PutType DEF UpdateRollingBar, TypeOK
<1>5. pc' = "captureAnchor" /\ pc = "updateBar"
  BY DEF UpdateRollingBar, Then
<1> QED
  BY <1>4, <1>5 DEF UpdateRollingBar, TypeOK, Method, files

\* The anchors stay anchors, in memory and on file.
LEMMA TypeMaybeCaptureAnchor ==
  ASSUME TypeOK, MaybeCaptureAnchor
  PROVE  TypeOK'
<1> DEFINE s      == tick.sym
           rolled == RolledDay(anchors, anchorFile, clock.day)
           purged == PurgedFile(anchors, anchorFile, clock.day)
           taken  == CapturedAnchor(rolled, s, AnchorSource(s))
<1>1. s \in Symbols /\ pc = "captureAnchor" /\ pc' = "paperFills"
  BY TickSymbol DEF MaybeCaptureAnchor, Then
<1>2. clock.day \in Nat /\ AnchorSource(s) \in Nat
  BY DEF TypeOK, Moment, IsDict, Bar, AnchorSource
<1>3. IsAnchorRecord(rolled) /\ IsAnchorRecord(purged)
  BY <1>2, EmptyDictType DEF RolledDay, PurgedFile, IsAnchorRecord, TypeOK
<1>4. IsAnchorRecord(taken)
  <2>1. IsDict(Put(rolled.px, s, AnchorSource(s)), Symbols, Nat)
    BY <1>1, <1>2, <1>3, PutType DEF IsAnchorRecord
  <2>2. taken = [day |-> rolled.day, px |-> Put(rolled.px, s, AnchorSource(s))]
    BY <1>3 DEF CapturedAnchor, IsAnchorRecord
  <2> QED
    BY <1>3, <2>1, <2>2 DEF IsAnchorRecord
<1>5. IsAnchorRecord(anchors') /\ IsAnchorRecord(anchorFile')
  <2>1. CASE ShouldCapture(rolled, s, clock.tod)
    BY <1>4, <2>1 DEF MaybeCaptureAnchor
  <2>2. CASE ~ShouldCapture(rolled, s, clock.tod)
    BY <1>3, <2>2 DEF MaybeCaptureAnchor
  <2> QED
    BY <2>1, <2>2
<1> QED
  BY <1>1, <1>5 DEF MaybeCaptureAnchor, TypeOK, Method

\* What a fill finds and does, by name: used for types, pairing and the book.
LEMMA FillFacts ==
  ASSUME TypeOK, RestingOrdersArePaired, HandlePaperFills,
         Crossed(orders, tick.sym, tick.ltp) # {}
  PROVE  LET s      == tick.sym
             fills  == Crossed(orders, s, tick.ltp)
             id     == First(fills)
             side   == orders[id].side
             pair   == pairs[s]
         IN  /\ s \in Symbols /\ s \in DOMAIN pairs
             /\ pair \in Pair /\ side \in Side /\ pair.levels[side] \in Level
             /\ id \in fills /\ id = pair.leg[side]
             /\ orders[id].trigger \in Int
             /\ orders[id].trigger = pair.levels[side].entry
             /\ orders[id].qty = pair.qty
             /\ OnOrderFill(s, id, FilledOrders(orders, s, tick.ltp),
                            FilledBook(orders, book, s, tick.ltp))
<1> DEFINE s     == tick.sym
           fills == Crossed(orders, s, tick.ltp)
           id    == First(fills)
           side  == orders[id].side
           pair  == pairs[s]
<1>1. s \in Symbols /\ tick.ltp \in Nat
  BY TickSymbol DEF HandlePaperFills, Then
<1>2. s \in DOMAIN pairs /\ id \in fills /\ orders[id] \in Order(Symbols)
  BY <1>1, FillsAreLegs
<1>3. pair \in Pair
  BY <1>2 DEF TypeOK, IsDict
<1>4. side \in Side /\ orders[id].trigger \in Int
  BY <1>2 DEF Order
<1>5. pair.levels[side] \in Level
  BY <1>3, <1>4 DEF Pair
<1>6. /\ id = pair.leg[side]
      /\ orders[id].trigger = pair.levels[side].entry
      /\ orders[id].qty = pair.qty
  BY <1>1, <1>2, FillsAreLegs
<1>7. OnOrderFill(s, id, FilledOrders(orders, s, tick.ltp),
                  FilledBook(orders, book, s, tick.ltp))
  BY <1>2 DEF HandlePaperFills
<1> QED
  BY <1>1, <1>2, <1>3, <1>4, <1>5, <1>6, <1>7

\* Nothing crossed: the tick leaves broker and orchestrator as they are,
\* up to the orders being rebuilt unchanged.
LEMMA NoFillFacts ==
  ASSUME TypeOK, RestingOrdersArePaired, HandlePaperFills,
         Crossed(orders, tick.sym, tick.ltp) = {}
  PROVE  /\ orders' = FilledOrders(orders, tick.sym, tick.ltp)
         /\ UNCHANGED <<book, positions, pairs, pairFile>>
BY DEF HandlePaperFills, FilledBook

\* Fills keep the types.
LEMMA TypeHandlePaperFills ==
  ASSUME TypeOK, RestingOrdersArePaired, HandlePaperFills
  PROVE  TypeOK'
<1> DEFINE s      == tick.sym
           fills  == Crossed(orders, s, tick.ltp)
           filled == FilledOrders(orders, s, tick.ltp)
           opened == FilledBook(orders, book, s, tick.ltp)
<1>1. s \in Symbols /\ pc = "paperFills" /\ pc' = "placePair"
  BY TickSymbol DEF HandlePaperFills, Then
<1>2. filled \in Seq(Order(Symbols))
  BY FilledOrdersFacts DEF TypeOK
<1>3. /\ orders' \in Seq(Order(Symbols))
      /\ IsDict(book', Symbols, PaperPosition)
      /\ IsDict(positions', Symbols, Position)
      /\ IsDict(pairs', Symbols, Pair) /\ IsDict(pairFile', Symbols, Pair)
  <2>1. CASE fills = {}
    BY <2>1, <1>2, NoFillFacts DEF TypeOK
  <2>2. CASE fills # {}
    <3> DEFINE id    == First(fills)
               side  == orders[id].side
               pair  == pairs[s]
               level == pair.levels[side]
               peer  == IF id = pair.leg["LONG"] THEN pair.leg["SHORT"]
                                                 ELSE pair.leg["LONG"]
    <3>1. /\ pair \in Pair /\ side \in Side /\ level \in Level /\ id \in fills
          /\ orders[id].trigger \in Int
          /\ OnOrderFill(s, id, filled, opened)
      BY <2>2, FillFacts
    <3>2. pair.qty \in Nat /\ level.sl \in Int /\ level.tp \in Int
      BY <3>1 DEF Pair, Level
    <3>3. orders' = CancelOrders(filled, {peer})
      BY <3>1 DEF OnOrderFill
    <3>4. orders' \in Seq(Order(Symbols))
      BY <3>3, <1>2, CancelOrdersFacts
    <3>5. IsDict(opened, Symbols, PaperPosition)
      BY <1>1, <3>1, FilledBookFacts DEF TypeOK
    <3>6. book' = ModifyTp(ModifySl(opened, s, level.sl), s, level.tp)
      BY <3>1 DEF OnOrderFill
    <3>7. IsDict(book', Symbols, PaperPosition)
      BY <3>2, <3>5, <3>6, ModifyType
    <3>8. positions' = Put(positions, s,
                           OpenPosition(side, orders[id].trigger, level, pair.qty))
      BY <3>1 DEF OnOrderFill
    <3>9. IsDict(positions', Symbols, Position)
      BY <1>1, <3>1, <3>2, <3>8, OpenPositionType, PutType DEF TypeOK
    <3>10. IsDict(pairs', Symbols, Pair) /\ IsDict(pairFile', Symbols, Pair)
      BY <3>1, DelType DEF OnOrderFill, TypeOK
    <3> QED
      BY <3>4, <3>7, <3>9, <3>10
  <2> QED
    BY <2>1, <2>2
<1> QED
  BY <1>1, <1>3 DEF HandlePaperFills, TypeOK, Method

\* The product of two positive numbers is one.
LEMMA ProductPositive ==
  ASSUME NEW a \in Int, NEW b \in Int, a > 0, b > 0
  PROVE  a * b \in Nat \ {0}
<1>1. 1 * b <= a * b
  BY TimesMonotone
<1> QED BY <1>1

\* A quantity is a number of whole lots within the budget: what a lot risks at
\* the distance it is sized for, times the lots, is not more.
LEMMA SizeFacts ==
  ASSUME NEW distance \in Int, NEW perPoint \in Int, NEW lotSize \in Int
  PROVE  LET qty == Size(distance, perPoint, lotSize)
         IN  /\ qty \in Nat
             /\ qty # 0 => /\ distance > 0 /\ perPoint > 0
                           /\ (qty * perPoint) * distance <= RiskBudget
<1> DEFINE perLot == (distance * perPoint) * lotSize
           lots   == RiskBudget \div perLot
<1>1. RiskBudget \in Int
  BY SizerAssumption
<1>2. CASE RiskBudget <= 0 \/ distance <= 0 \/ perPoint <= 0 \/ lotSize <= 0
  BY <1>2 DEF Size
<1>3. CASE RiskBudget > 0 /\ distance > 0 /\ perPoint > 0 /\ lotSize > 0
  <2>1. Size(distance, perPoint, lotSize) = lots * lotSize
    BY <1>1, <1>3 DEF Size
  <2>2. perLot \in Nat \ {0}
    <3>1. distance * perPoint \in Nat \ {0}
      BY <1>3, ProductPositive
    <3> DEFINE area == distance * perPoint
    <3> HIDE DEF area
    <3>2. area * lotSize \in Nat \ {0}
      BY <1>3, <3>1, ProductPositive DEF area
    <3> QED BY <3>2 DEF area
  <2> HIDE DEF perLot
  <2>3. lots \in Nat /\ lots * perLot <= RiskBudget
    BY <1>1, <1>3, <2>2, DivisionBounds
  <2> HIDE DEF lots
  <2>4. lots * lotSize \in Nat
    BY <1>3, <2>3
  <2>5. ((lots * lotSize) * perPoint) * distance = lots * perLot
    BY <2>3 DEF perLot
  <2> QED BY <1>3, <2>1, <2>3, <2>4, <2>5
<1> QED BY <1>1, <1>2, <1>3

\* The same of a symbol, at the distance that it is sized for.
LEMMA SizeForFacts ==
  ASSUME NEW s \in Symbols
  PROVE  LET qty      == SizeFor(s, SlDist)
             distance == SizingDistance(s, SlDist)
         IN  /\ qty \in Nat /\ distance \in Int /\ MoneyPerPoint[s] \in Int
             /\ qty # 0 => /\ distance > 0 /\ MoneyPerPoint[s] > 0
                           /\ (qty * MoneyPerPoint[s]) * distance <= RiskBudget
<1>1. /\ LotSize[s] \in Int /\ MoneyPerPoint[s] \in Int /\ SizingSlDist[s] \in Int
      /\ SlDist \in Int
  BY SizerAssumption, LevelsAssumption
<1>2. SizingDistance(s, SlDist) \in Int
  BY <1>1 DEF SizingDistance
<1> QED BY <1>1, <1>2, SizeFacts DEF SizeFor

\* What placing a pair does, by name.
LEMMA PlaceFacts ==
  ASSUME TypeOK, NEW s \in Symbols, MayPlacePair(s), PlacePair(s)
  PROVE  LET n    == Len(orders)
             pair == NewPair(s, n)
         IN  /\ n \in Nat /\ DOMAIN orders = 1 .. n
             /\ pair \in Pair
             /\ pair.leg["LONG"] = n + 1 /\ pair.leg["SHORT"] = n + 2
             /\ orders' \in Seq(Order(Symbols))
             /\ DOMAIN orders' = 1 .. n + 2
             /\ \A i \in 1 .. n : orders'[i] = orders[i]
             /\ \A side \in Side :
                  orders'[pair.leg[side]] =
                    [sym |-> s, side |-> side, qty |-> pair.qty, kind |-> "STOP",
                     trigger |-> pair.levels[side].entry, status |-> "OPEN"]
             /\ pairs' = Put(pairs, s, pair) /\ pairFile' = Put(pairs, s, pair)
<1> DEFINE n    == Len(orders)
           pair == NewPair(s, n)
           long == PlaceStopOrder(orders, s, "LONG", pair.qty, pair.levels["LONG"].entry)
<1>1. n \in Nat /\ DOMAIN orders = 1 .. n /\ orders \in Seq(Order(Symbols))
  BY DEF TypeOK
<1>2. anchors.px[s] \in Int
  BY DEF MayPlacePair, TypeOK, IsAnchorRecord, IsDict
<1>3. BuildOrderLevels(anchors.px[s]) \in [Side -> Level]
  BY <1>2, BuildOrderLevelsType
<1>4. SizeFor(s, SlDist) \in Nat
  BY SizeForFacts
<1>5. pair.levels \in [Side -> Level] /\ pair.qty \in Nat
  BY <1>3, <1>4 DEF NewPair
<1>6. /\ pair \in Pair /\ pair.leg["LONG"] = n + 1 /\ pair.leg["SHORT"] = n + 2
  BY <1>1, <1>3, <1>4 DEF NewPair, Pair, Side
<1>7. "LONG" \in Side /\ "SHORT" \in Side
      /\ pair.levels["LONG"].entry \in Int /\ pair.levels["SHORT"].entry \in Int
  BY <1>5 DEF Side, Level
<1>8. /\ orders' = PlaceStopOrder(long, s, "SHORT", pair.qty, pair.levels["SHORT"].entry)
      /\ pairs' = Put(pairs, s, pair) /\ pairFile' = Put(pairs, s, pair)
  BY DEF PlacePair
<1> HIDE DEF pair
<1>9. /\ long \in Seq(Order(Symbols)) /\ Len(long) = n + 1
      /\ \A i \in DOMAIN orders : long[i] = orders[i]
      /\ long[n + 1] = [sym |-> s, side |-> "LONG", qty |-> pair.qty, kind |-> "STOP",
                        trigger |-> pair.levels["LONG"].entry, status |-> "OPEN"]
  BY <1>1, <1>5, <1>7, PlaceStopOrderFacts
<1> HIDE DEF long
<1>10. /\ orders' \in Seq(Order(Symbols)) /\ Len(orders') = Len(long) + 1
       /\ \A i \in DOMAIN long : orders'[i] = long[i]
       /\ orders'[Len(long) + 1] =
            [sym |-> s, side |-> "SHORT", qty |-> pair.qty, kind |-> "STOP",
             trigger |-> pair.levels["SHORT"].entry, status |-> "OPEN"]
  BY <1>5, <1>7, <1>8, <1>9, PlaceStopOrderFacts
<1>11. /\ DOMAIN orders' = 1 .. n + 2
       /\ \A i \in 1 .. n : orders'[i] = orders[i]
       /\ orders'[n + 1] = long[n + 1]
  BY <1>1, <1>9, <1>10
<1>12. ASSUME NEW side \in Side
       PROVE  orders'[pair.leg[side]] =
                [sym |-> s, side |-> side, qty |-> pair.qty, kind |-> "STOP",
                 trigger |-> pair.levels[side].entry, status |-> "OPEN"]
  <2>1. CASE side = "LONG"
    BY <2>1, <1>6, <1>9, <1>11
  <2>2. CASE side = "SHORT"
    <3>1. pair.leg[side] = Len(long) + 1
      BY <2>2, <1>1, <1>6, <1>9
    <3> QED
      BY <2>2, <3>1, <1>10
  <2> QED
    BY <2>1, <2>2 DEF Side
<1> QED
  BY <1>1, <1>6, <1>8, <1>10, <1>11, <1>12 DEF pair

\* Placing a pair keeps the types.
LEMMA TypeMaybePlaceOcoPair ==
  ASSUME TypeOK, MaybePlaceOcoPair
  PROVE  TypeOK'
<1>1. tick.sym \in Symbols /\ pc = "placePair" /\ pc' = "sweep"
  BY TickSymbol DEF MaybePlaceOcoPair, Then
<1>2. /\ orders' \in Seq(Order(Symbols)) /\ issued' \in [Symbols -> Nat]
      /\ IsDict(pairs', Symbols, Pair) /\ IsDict(pairFile', Symbols, Pair)
  <2>1. CASE MayPlacePair(tick.sym)
    <3>1. PlacePair(tick.sym)
      BY <2>1 DEF MaybePlaceOcoPair
    <3>2. /\ orders' \in Seq(Order(Symbols))
          /\ NewPair(tick.sym, Len(orders)) \in Pair
          /\ pairs' = Put(pairs, tick.sym, NewPair(tick.sym, Len(orders)))
          /\ pairFile' = Put(pairs, tick.sym, NewPair(tick.sym, Len(orders)))
      BY <1>1, <2>1, <3>1, PlaceFacts
    <3>3. issued' \in [Symbols -> Nat]
      BY <1>1, <3>1 DEF PlacePair, TypeOK
    <3> QED
      BY <1>1, <3>2, <3>3, PutType DEF TypeOK
  <2>2. CASE ~MayPlacePair(tick.sym)
    BY <2>2 DEF MaybePlaceOcoPair, TypeOK
  <2> QED
    BY <2>1, <2>2
<1> QED
  BY <1>1, <1>2 DEF MaybePlaceOcoPair, TypeOK, Method

\* The sweep keeps the types.
LEMMA TypePreSquareoffSweep ==
  ASSUME TypeOK, PreSquareoffSweep
  PROVE  TypeOK'
<1>1. pc = "sweep" /\ pc' = "squareOff"
  BY DEF PreSquareoffSweep, Then
<1>2. /\ orders' \in Seq(Order(Symbols)) /\ swept' \in BOOLEAN
      /\ IsDict(pairs', Symbols, Pair) /\ IsDict(pairFile', Symbols, Pair)
  <2>1. CASE SweepDue
    <3>1. CancelOrders(orders, AllLegs) \in Seq(Order(Symbols))
      BY CancelOrdersFacts DEF TypeOK
    <3> QED
      BY <2>1, <3>1, EmptyDictType DEF PreSquareoffSweep
  <2>2. CASE ~SweepDue
    BY <2>2 DEF PreSquareoffSweep, TypeOK
  <2> QED
    BY <2>1, <2>2
<1> QED
  BY <1>1, <1>2 DEF PreSquareoffSweep, TypeOK, Method

\* The square-off keeps the types.
LEMMA TypeSquareOffAtClose ==
  ASSUME TypeOK, SquareOffAtClose
  PROVE  TypeOK'
<1> DEFINE s == tick.sym
<1>1. s \in Symbols /\ tick.ltp \in Nat /\ pc' = "idle" /\ tick' = NoTick
  BY TickSymbol DEF SquareOffAtClose, Then
<1>2. tick' \in [sym : Symbols \cup {NoSymbol}, ltp : Nat] /\ tick'.sym = NoSymbol
  BY <1>1 DEF NoTick
<1>3. /\ dayPnl' \in Int /\ dayTrades' \in Nat /\ squaredOff' \in SUBSET Symbols
      /\ IsDict(positions', Symbols, Position) /\ IsDict(book', Symbols, PaperPosition)
  <2>1. CASE SquareOffDue(s) /\ s \in DOMAIN positions
    <3>1. positions[s].qty \in Int
      BY <2>1 DEF TypeOK, IsDict, Position
    <3>2. ForceClosePoints(book, s, tick.ltp) \in Int
      <4>1. CASE s \in DOMAIN book
        <5>1. book[s].side \in Side /\ book[s].entry \in Int
          BY <4>1 DEF TypeOK, IsDict, PaperPosition
        <5>2. tick.ltp - book[s].entry \in Int /\ Sign(book[s].side) \in Int
          BY <1>1, <5>1, SignValues
        <5> QED
          BY <4>1, <5>2 DEF ForceClosePoints
      <4>2. CASE s \notin DOMAIN book
        BY <4>2 DEF ForceClosePoints
      <4> QED
        BY <4>1, <4>2
    <3>3. ForceClosePoints(book, s, tick.ltp) * positions[s].qty \in Int
      BY <3>1, <3>2
    <3>4. IsDict(Del(positions, s), Symbols, Position)
          /\ IsDict(Del(book, s), Symbols, PaperPosition)
      BY DelType DEF TypeOK
    <3>5. /\ dayPnl' = dayPnl + ForceClosePoints(book, s, tick.ltp) * positions[s].qty
          /\ dayTrades' = dayTrades + 1
          /\ positions' = Del(positions, s) /\ book' = Del(book, s)
          /\ squaredOff' = squaredOff \cup {s}
      BY <2>1 DEF SquareOffAtClose, ForceClose
    <3>6. dayPnl' \in Int /\ dayTrades' \in Nat
      BY <3>3, <3>5 DEF TypeOK
    <3> QED
      BY <1>1, <3>4, <3>5, <3>6 DEF TypeOK
  <2>2. CASE ~(SquareOffDue(s) /\ s \in DOMAIN positions)
    BY <1>1, <2>2 DEF SquareOffAtClose, TypeOK
  <2> QED
    BY <2>1, <2>2
<1> QED
  BY <1>1, <1>2, <1>3 DEF SquareOffAtClose, TypeOK, Method, files

\* A restart, the clock and the pause flag keep the types.
LEMMA TypeEnvironment ==
  ASSUME TypeOK, Restart \/ AdvanceClock \/ SetPaused \/ UNCHANGED vars
  PROVE  TypeOK'
<1>1. CASE Restart
  <2>1. IsAnchorRecord(anchors') /\ IsAnchorRecord(anchorFile')
    BY <1>1, EmptyDictType DEF Restart, files, TypeOK, IsAnchorRecord, NoAnchors, NoDay
  <2>2. /\ tick' \in [sym : Symbols \cup {NoSymbol}, ltp : Nat]
        /\ pc' = "idle" /\ tick'.sym = NoSymbol
    BY <1>1 DEF Restart, NoTick
  <2>3. /\ IsDict(bars', Symbols, Bar) /\ IsDict(positions', Symbols, Position)
        /\ IsDict(book', Symbols, PaperPosition)
    BY <1>1, EmptyDictType DEF Restart
  <2>4. IsDict(pairs', Symbols, Pair) /\ IsDict(pairFile', Symbols, Pair)
    BY <1>1 DEF Restart, files, TypeOK
  <2>5. orders' \in Seq(Order(Symbols)) /\ crashes' \in Nat
    BY <1>1 DEF Restart, TypeOK
  <2>6. /\ dayPnl' \in Int /\ dayTrades' \in Nat /\ squaredOff' \in SUBSET Symbols
    BY <1>1 DEF Restart
  <2>7. swept' \in BOOLEAN /\ paused' \in BOOLEAN
    BY <1>1 DEF Restart
  <2>8. clock' \in Moment /\ issued' \in [Symbols -> Nat]
    BY <1>1 DEF Restart, TypeOK
  <2> QED
    BY <2>1, <2>2, <2>3, <2>4, <2>5, <2>6, <2>7, <2>8 DEF TypeOK, Method
<1>2. CASE AdvanceClock
  <2>1. clock \in Moment /\ issued \in [Symbols -> Nat]
    BY DEF TypeOK
  <2>2. clock' \in Moment /\ issued' \in [Symbols -> Nat]
    <3>1. CASE NextSlot
      BY <2>1, <3>1 DEF NextSlot, Moment
    <3>2. CASE NextDay
      BY <2>1, <3>2 DEF NextDay, Moment
    <3> QED
      BY <1>2, <3>1, <3>2 DEF AdvanceClock
  <2> QED
    BY <1>2, <2>2 DEF AdvanceClock, memory, files, TypeOK
<1>3. CASE SetPaused
  <2>1. paused' \in BOOLEAN
    BY <1>3 DEF SetPaused
  <2> QED
    BY <1>3, <2>1 DEF SetPaused, memory, files, TypeOK
<1>4. CASE UNCHANGED vars
  BY <1>4 DEF vars, memory, files, TypeOK
<1> QED
  BY <1>1, <1>2, <1>3, <1>4

-----------------------------------------------------------------------------
(* Orders, pairs, positions and the book *)

\* Initially nothing rests, nothing is held and nothing is on file.
LEMMA ExposureInit ==
  Init => /\ RestingOrdersArePaired /\ BookMirrorsBroker
          /\ ExposedOnce /\ DiskMirrorsPairs
BY EmptyDictType
   DEF Init, RestingOrdersArePaired, BookMirrorsBroker, ExposedOnce, DiskMirrorsPairs,
       OpenOrders

\* A fill leaves no open order of its symbol, and the others with their pair.
LEMMA RestingHandlePaperFills ==
  ASSUME TypeOK, RestingOrdersArePaired, HandlePaperFills
  PROVE  RestingOrdersArePaired'
<1> DEFINE s      == tick.sym
           fills  == Crossed(orders, s, tick.ltp)
           filled == FilledOrders(orders, s, tick.ltp)
<1>1. /\ filled \in Seq(Order(Symbols))
      /\ OpenOrders(filled) = OpenOrders(orders) \ fills
      /\ \A i \in OpenOrders(filled) : filled[i] = orders[i]
  BY FilledOrdersFacts DEF TypeOK
<1>2. CASE fills = {}
  <2>1. orders' = filled /\ pairs' = pairs
    BY <1>2, NoFillFacts
  <2> QED
    BY <1>1, <1>2, <2>1 DEF RestingOrdersArePaired
<1>3. CASE fills # {}
  <2> DEFINE id    == First(fills)
             side  == orders[id].side
             pair  == pairs[s]
             peer  == IF id = pair.leg["LONG"] THEN pair.leg["SHORT"]
                                               ELSE pair.leg["LONG"]
  <2>1. /\ s \in DOMAIN pairs /\ side \in Side /\ id \in fills /\ id = pair.leg[side]
        /\ orders' = CancelOrders(filled, {peer})
        /\ pairs' = Del(pairs, s)
    BY <1>3, FillFacts DEF OnOrderFill
  <2>2. /\ OpenOrders(orders') = OpenOrders(filled) \ {peer}
        /\ \A i \in OpenOrders(orders') : orders'[i] = filled[i]
    <3> HIDE DEF filled, peer
    <3> QED
      BY <1>1, <2>1, CancelOrdersFacts
  <2>3. \A i \in OpenOrders(orders') : i \in OpenOrders(orders) /\ orders'[i] = orders[i]
    BY <1>1, <2>2
  <2>4. ASSUME NEW i \in OpenOrders(orders')
        PROVE  orders[i].sym # s
    <3> SUFFICES ASSUME orders[i].sym = s PROVE FALSE
      OBVIOUS
    <3>1. i = pair.leg[orders[i].side] /\ orders[i] \in Order(Symbols)
      BY <2>3 DEF RestingOrdersArePaired, TypeOK, OpenOrders
    <3>2. i # id /\ i # peer
      BY <1>1, <2>1, <2>2
    <3>3. orders[i].side \in Side
      BY <3>1 DEF Order
    <3> QED
      BY <2>1, <3>1, <3>2, <3>3 DEF Side
  <2>5. /\ DOMAIN pairs' = DOMAIN pairs \ {s}
        /\ \A t \in DOMAIN pairs \ {s} : pairs'[t] = pairs[t]
    BY <2>1 DEF Del
  <2> QED
    BY <2>3, <2>4, <2>5 DEF RestingOrdersArePaired
<1> QED
  BY <1>2, <1>3

\* A new pair brings its own two legs and touches no other order.
LEMMA RestingMaybePlaceOcoPair ==
  ASSUME TypeOK, RestingOrdersArePaired, MaybePlaceOcoPair
  PROVE  RestingOrdersArePaired'
<1> DEFINE s    == tick.sym
           n    == Len(orders)
           pair == NewPair(s, n)
<1>1. CASE MayPlacePair(s)
  <2>1. s \in Symbols /\ PlacePair(s) /\ s \notin DOMAIN pairs
    BY <1>1, TickSymbol DEF MaybePlaceOcoPair, Then, MayPlacePair
  <2>2. /\ n \in Nat /\ DOMAIN orders = 1 .. n
        /\ pair.leg["LONG"] = n + 1 /\ pair.leg["SHORT"] = n + 2
        /\ DOMAIN orders' = 1 .. n + 2
        /\ \A i \in 1 .. n : orders'[i] = orders[i]
        /\ \A side \in Side :
             orders'[pair.leg[side]] =
               [sym |-> s, side |-> side, qty |-> pair.qty, kind |-> "STOP",
                trigger |-> pair.levels[side].entry, status |-> "OPEN"]
        /\ pairs' = Put(pairs, s, pair)
    BY <1>1, <2>1, PlaceFacts
  <2> HIDE DEF pair, n
  <2>3. /\ DOMAIN pairs' = DOMAIN pairs \cup {s} /\ pairs'[s] = pair
        /\ \A t \in DOMAIN pairs : t # s => pairs'[t] = pairs[t]
    BY <2>2 DEF Put
  <2> SUFFICES ASSUME NEW i \in OpenOrders(orders')
               PROVE  LET order == orders'[i]
                      IN  /\ order.sym \in DOMAIN pairs'
                          /\ i = pairs'[order.sym].leg[order.side]
                          /\ order.trigger = pairs'[order.sym].levels[order.side].entry
                          /\ order.qty = pairs'[order.sym].qty
    BY DEF RestingOrdersArePaired
  <2>4. i \in 1 .. n \/ i = n + 1 \/ i = n + 2
    BY <2>2 DEF OpenOrders
  <2>5. CASE i \in 1 .. n
    <3>1. i \in OpenOrders(orders) /\ orders'[i] = orders[i]
      BY <2>2, <2>5 DEF OpenOrders
    <3>2. orders[i].sym \in DOMAIN pairs /\ orders[i].sym # s
      BY <2>1, <3>1 DEF RestingOrdersArePaired
    <3> QED
      BY <2>3, <3>1, <3>2 DEF RestingOrdersArePaired
  <2>6. CASE i \in {n + 1, n + 2}
    <3>1. PICK side \in Side : pair.leg[side] = i
      BY <2>2, <2>6 DEF Side
    <3>2. orders'[i] = [sym |-> s, side |-> side, qty |-> pair.qty, kind |-> "STOP",
                        trigger |-> pair.levels[side].entry, status |-> "OPEN"]
      BY <2>2, <3>1
    <3> QED
      BY <2>3, <3>1, <3>2
  <2> QED
    BY <2>4, <2>5, <2>6
<1>2. CASE ~MayPlacePair(s)
  BY <1>2 DEF MaybePlaceOcoPair, RestingOrdersArePaired
<1> QED
  BY <1>1, <1>2

\* The sweep closes every leg of every pair, hence every open order.
LEMMA RestingPreSquareoffSweep ==
  ASSUME TypeOK, RestingOrdersArePaired, PreSquareoffSweep
  PROVE  RestingOrdersArePaired' /\ (SweepDue => OpenOrders(orders') = {})
<1>1. CASE SweepDue
  <2>1. OpenOrders(orders') = OpenOrders(orders) \ AllLegs
    BY <1>1, CancelOrdersFacts DEF PreSquareoffSweep, TypeOK
  <2>2. \A i \in OpenOrders(orders) : i \in AllLegs
    <3> SUFFICES ASSUME NEW i \in OpenOrders(orders) PROVE i \in AllLegs
      OBVIOUS
    <3>1. orders[i].sym \in DOMAIN pairs /\ i = pairs[orders[i].sym].leg[orders[i].side]
      BY DEF RestingOrdersArePaired
    <3>2. orders[i] \in Order(Symbols)
      BY DEF TypeOK, OpenOrders
    <3>3. orders[i].side \in Side
      BY <3>2 DEF Order
    <3> QED
      BY <3>1, <3>3 DEF AllLegs
  <2> QED
    BY <2>1, <2>2 DEF RestingOrdersArePaired
<1>2. CASE ~SweepDue
  BY <1>2 DEF PreSquareoffSweep, RestingOrdersArePaired
<1> QED
  BY <1>1, <1>2

\* No step leaves an order resting that its symbol's pair does not name.
LEMMA RestingStep ==
  ASSUME TypeOK, RestingOrdersArePaired, [Next]_vars
  PROVE  RestingOrdersArePaired'
<1>1. CASE Restart
  BY <1>1 DEF Restart, RestingOrdersArePaired, OpenOrders
<1>2. ASSUME UNCHANGED <<orders, pairs>>
      PROVE  RestingOrdersArePaired'
  BY <1>2 DEF RestingOrdersArePaired
<1>3. CASE HandlePaperFills
  BY <1>3, RestingHandlePaperFills
<1>4. CASE MaybePlaceOcoPair
  BY <1>4, RestingMaybePlaceOcoPair
<1>5. CASE PreSquareoffSweep
  BY <1>5, RestingPreSquareoffSweep
<1>6. CASE \/ \E s \in Symbols, ltp \in Prices : OnTick(s, ltp)
           \/ UpdateRollingBar \/ MaybeCaptureAnchor \/ SquareOffAtClose
           \/ AdvanceClock \/ SetPaused \/ UNCHANGED vars
  BY <1>2, <1>6
     DEF OnTick, UpdateRollingBar, MaybeCaptureAnchor, SquareOffAtClose, AdvanceClock,
         SetPaused, vars, memory
<1> QED
  BY <1>1, <1>3, <1>4, <1>5, <1>6 DEF Next, TickOf, Handle

\* No step breaks the types.
LEMMA TypeStep ==
  ASSUME TypeOK, RestingOrdersArePaired, [Next]_vars
  PROVE  TypeOK'
BY TypeOnTick, TypeUpdateRollingBar, TypeMaybeCaptureAnchor, TypeHandlePaperFills,
   TypeMaybePlaceOcoPair, TypePreSquareoffSweep, TypeSquareOffAtClose, TypeEnvironment
   DEF Next, TickOf, Handle

\* A symbol never has both a position and a pair: a fill swaps one for the
\* other, and a pair is placed only where there is neither.
LEMMA ExposedOnceStep ==
  ASSUME TypeOK, RestingOrdersArePaired, ExposedOnce, [Next]_vars
  PROVE  ExposedOnce'
<1>1. ASSUME DOMAIN positions' \subseteq DOMAIN positions,
             DOMAIN pairs' \subseteq DOMAIN pairs
      PROVE  ExposedOnce'
  BY <1>1 DEF ExposedOnce
<1>2. CASE Restart
  BY <1>2, EmptyDictType DEF Restart, ExposedOnce
<1>3. ASSUME NEW s \in Symbols, NEW ltp \in Prices, OnTick(s, ltp)
      PROVE  ExposedOnce'
  <2>1. DOMAIN positions' = DOMAIN positions
    BY <1>3 DEF OnTick, BarClosesOnPosition, Put
  <2> QED
    BY <1>1, <1>3, <2>1 DEF OnTick
<1>4. CASE HandlePaperFills
  <2>1. CASE Crossed(orders, tick.sym, tick.ltp) = {}
    BY <1>1, <1>4, <2>1, NoFillFacts
  <2>2. CASE Crossed(orders, tick.sym, tick.ltp) # {}
    <3>1. /\ DOMAIN positions' = DOMAIN positions \cup {tick.sym}
          /\ DOMAIN pairs' = DOMAIN pairs \ {tick.sym}
      BY <1>4, <2>2, FillFacts DEF OnOrderFill, Put, Del
    <3> QED
      BY <3>1 DEF ExposedOnce
  <2> QED
    BY <2>1, <2>2
<1>5. CASE MaybePlaceOcoPair
  <2>1. CASE MayPlacePair(tick.sym)
    <3>1. /\ DOMAIN pairs' = DOMAIN pairs \cup {tick.sym}
          /\ tick.sym \notin DOMAIN positions /\ positions' = positions
      BY <1>5, <2>1 DEF MaybePlaceOcoPair, PlacePair, MayPlacePair, Put
    <3> QED
      BY <3>1 DEF ExposedOnce
  <2>2. CASE ~MayPlacePair(tick.sym)
    BY <1>1, <1>5, <2>2 DEF MaybePlaceOcoPair
  <2> QED
    BY <2>1, <2>2
<1>6. CASE PreSquareoffSweep
  BY <1>1, <1>6, EmptyDictType DEF PreSquareoffSweep
<1>7. CASE SquareOffAtClose
  BY <1>1, <1>7 DEF SquareOffAtClose, Del
<1>8. CASE \/ UpdateRollingBar \/ MaybeCaptureAnchor \/ AdvanceClock \/ SetPaused
           \/ UNCHANGED vars
  BY <1>1, <1>8
     DEF UpdateRollingBar, MaybeCaptureAnchor, AdvanceClock, SetPaused, vars, memory
<1> QED
  BY <1>2, <1>3, <1>4, <1>5, <1>6, <1>7, <1>8 DEF Next, TickOf, Handle

\* The pairs on file are the pairs in memory, through every step and restart.
LEMMA DiskMirrorsPairsStep ==
  ASSUME TypeOK, RestingOrdersArePaired, DiskMirrorsPairs, [Next]_vars
  PROVE  DiskMirrorsPairs'
<1>1. ASSUME UNCHANGED <<pairs, pairFile>>
      PROVE  DiskMirrorsPairs'
  BY <1>1 DEF DiskMirrorsPairs
<1>2. CASE Restart
  BY <1>2 DEF Restart, files, DiskMirrorsPairs
<1>3. CASE HandlePaperFills
  <2>1. CASE Crossed(orders, tick.sym, tick.ltp) = {}
    BY <1>1, <1>3, <2>1, NoFillFacts
  <2>2. CASE Crossed(orders, tick.sym, tick.ltp) # {}
    BY <1>3, <2>2, FillFacts DEF OnOrderFill, DiskMirrorsPairs
  <2> QED
    BY <2>1, <2>2
<1>4. CASE MaybePlaceOcoPair
  BY <1>1, <1>4 DEF MaybePlaceOcoPair, PlacePair, DiskMirrorsPairs
<1>5. CASE PreSquareoffSweep
  BY <1>1, <1>5 DEF PreSquareoffSweep, DiskMirrorsPairs
<1>6. CASE \/ \E s \in Symbols, ltp \in Prices : OnTick(s, ltp)
           \/ UpdateRollingBar \/ MaybeCaptureAnchor \/ SquareOffAtClose
           \/ AdvanceClock \/ SetPaused \/ UNCHANGED vars
  BY <1>1, <1>6
     DEF OnTick, UpdateRollingBar, MaybeCaptureAnchor, SquareOffAtClose, AdvanceClock,
         SetPaused, vars, memory, files
<1> QED
  BY <1>2, <1>3, <1>4, <1>5, <1>6 DEF Next, TickOf, Handle

\* The entry of the book that mirrors a position.
MirrorOf(pos) == [side |-> pos.side, entry |-> pos.entry, qty |-> pos.qty,
                  sl |-> pos.sl, tp |-> pos.tp]

\* Trailing moves both copies of the stop, or neither.
LEMMA BookOnTick ==
  ASSUME TypeOK, BookMirrorsBroker, NEW s \in Symbols, NEW ltp \in Prices, OnTick(s, ltp)
  PROVE  BookMirrorsBroker'
<1>1. CASE BarClosesOnPosition(s)
  <2> DEFINE old == positions[s]
             new == UpdateTrailing(old, bars[s].close)
  <2>1. s \in DOMAIN positions /\ s \in DOMAIN book
        /\ old \in Position /\ bars[s].close \in Int
    BY <1>1 DEF BarClosesOnPosition, BookMirrorsBroker, TypeOK, IsDict, Bar
  <2>2. /\ new \in Position /\ new.side = old.side /\ new.entry = old.entry
        /\ new.qty = old.qty /\ new.tp = old.tp
    BY <2>1, UpdateTrailingType
  <2>3. positions' = Put(positions, s, new)
    BY <1>1 DEF OnTick
  <2>4. book' = IF new.sl # old.sl THEN ModifySl(book, s, new.sl) ELSE book
    BY <1>1 DEF OnTick
  <2>5. book[s] = MirrorOf(old)
    BY <2>1 DEF BookMirrorsBroker, MirrorOf
  <2> HIDE DEF old, new
  <2>6. /\ DOMAIN positions' = DOMAIN positions /\ positions'[s] = new
        /\ \A t \in DOMAIN positions : t # s => positions'[t] = positions[t]
    BY <2>1, <2>3 DEF Put
  <2>7. /\ DOMAIN book' = DOMAIN book
        /\ book'[s] = MirrorOf(new)
        /\ \A t \in DOMAIN book : t # s => book'[t] = book[t]
    <3>1. CASE new.sl # old.sl
      <4>1. book' = ModifySl(book, s, new.sl) /\ new.sl \in Int
        BY <2>2, <2>4, <3>1 DEF Position
      <4>2. DOMAIN book' = DOMAIN book
        BY <4>1, ModifyType DEF TypeOK
      <4>3. /\ book'[s] = [book[s] EXCEPT !.sl = new.sl]
            /\ \A t \in DOMAIN book \ {s} : book'[t] = book[t]
        BY <2>1, <4>1 DEF ModifySl, TypeOK, IsDict, PaperPosition
      <4>4. book'[s] = MirrorOf(new)
        BY <2>2, <2>5, <4>3 DEF MirrorOf
      <4> QED
        BY <4>2, <4>3, <4>4
    <3>2. CASE new.sl = old.sl
      BY <2>2, <2>4, <2>5, <3>2 DEF MirrorOf
    <3> QED
      BY <3>1, <3>2
  <2>8. \A t \in DOMAIN positions' : book'[t] = MirrorOf(positions'[t])
    BY <2>6, <2>7 DEF BookMirrorsBroker, MirrorOf
  <2> QED
    BY <2>6, <2>7, <2>8 DEF BookMirrorsBroker, MirrorOf
<1>2. CASE ~BarClosesOnPosition(s)
  BY <1>2 DEF OnTick, BookMirrorsBroker
<1> QED
  BY <1>1, <1>2

\* A fill opens the same position on both sides.
LEMMA BookHandlePaperFills ==
  ASSUME TypeOK, RestingOrdersArePaired, ExposedOnce, BookMirrorsBroker, HandlePaperFills
  PROVE  BookMirrorsBroker'
<1> DEFINE s      == tick.sym
           fills  == Crossed(orders, s, tick.ltp)
           opened == FilledBook(orders, book, s, tick.ltp)
           id     == First(fills)
           side   == orders[id].side
           pair   == pairs[s]
           level  == pair.levels[side]
           pos    == OpenPosition(side, orders[id].trigger, level, pair.qty)
           entry  == [side |-> side, entry |-> orders[id].trigger, qty |-> orders[id].qty,
                      sl |-> NoLevel, tp |-> NoLevel]
<1>1. CASE fills = {}
  BY <1>1, NoFillFacts DEF BookMirrorsBroker
<1>2. CASE fills # {}
  <2>1. /\ s \in Symbols /\ s \in DOMAIN pairs /\ side \in Side /\ level \in Level
        /\ id \in fills /\ orders[id].trigger \in Int /\ orders[id].qty = pair.qty
        /\ positions' = Put(positions, s, pos)
        /\ book' = ModifyTp(ModifySl(opened, s, level.sl), s, level.tp)
    BY <1>2, FillFacts DEF OnOrderFill
  <2>2. s \notin DOMAIN book
    BY <2>1 DEF ExposedOnce, BookMirrorsBroker
  <2>3. opened = Put(book, s, entry) /\ IsDict(opened, Symbols, PaperPosition)
    <3>1. orders \in Seq(Order(Symbols)) /\ IsDict(book, Symbols, PaperPosition)
      BY DEF TypeOK
    <3> QED
      BY <1>2, <2>1, <2>2, <3>1, OpenedBook
  <2>4. pos = [side |-> side, entry |-> orders[id].trigger, qty |-> pair.qty,
               tp |-> level.tp, sl |-> level.sl, lock |-> -1, best |-> 0]
    BY DEF OpenPosition
  <2>5. level.sl \in Int /\ level.tp \in Int
    BY <2>1 DEF Level
  <2> HIDE DEF opened, entry, pos, level
  <2>6. /\ DOMAIN opened = DOMAIN book \cup {s} /\ opened[s] = entry
        /\ \A t \in DOMAIN book : t # s => opened[t] = book[t]
    BY <2>3 DEF Put
  <2> DEFINE withSl == ModifySl(opened, s, level.sl)
  <2>7. /\ IsDict(withSl, Symbols, PaperPosition) /\ DOMAIN withSl = DOMAIN opened
        /\ withSl[s] = [opened[s] EXCEPT !.sl = level.sl]
        /\ \A t \in DOMAIN opened \ {s} : withSl[t] = opened[t]
    <3>1. IsDict(withSl, Symbols, PaperPosition) /\ DOMAIN withSl = DOMAIN opened
      BY <2>3, <2>5, ModifyType
    <3>2. /\ withSl[s] = [opened[s] EXCEPT !.sl = level.sl]
          /\ \A t \in DOMAIN opened \ {s} : withSl[t] = opened[t]
      BY <2>3, <2>6 DEF ModifySl, IsDict
    <3> QED
      BY <3>1, <3>2
  <2> HIDE DEF withSl
  <2>8. book' = ModifyTp(withSl, s, level.tp)
    BY <2>1 DEF withSl
  <2>9. /\ DOMAIN book' = DOMAIN withSl
        /\ book'[s] = [withSl[s] EXCEPT !.tp = level.tp]
        /\ \A t \in DOMAIN withSl \ {s} : book'[t] = withSl[t]
    BY <2>6, <2>7, <2>8 DEF ModifyTp, IsDict
  <2>10. book'[s] = MirrorOf(pos)
    <3>1. entry = [side |-> side, entry |-> orders[id].trigger, qty |-> pair.qty,
                   sl |-> NoLevel, tp |-> NoLevel]
      BY <2>1 DEF entry
    <3>2. book'[s] = [[entry EXCEPT !.sl = level.sl] EXCEPT !.tp = level.tp]
      BY <2>6, <2>7, <2>9
    <3> HIDE DEF entry
    <3>3. book'[s] = [side |-> side, entry |-> orders[id].trigger, qty |-> pair.qty,
                      sl |-> level.sl, tp |-> level.tp]
      BY <3>1, <3>2
    <3> QED
      BY <3>3, <2>4 DEF MirrorOf
  <2>11. /\ DOMAIN positions' = DOMAIN positions \cup {s} /\ positions'[s] = pos
         /\ \A t \in DOMAIN positions : t # s => positions'[t] = positions[t]
    BY <2>1 DEF Put
  <2>12. \A t \in DOMAIN positions' : book'[t] = MirrorOf(positions'[t])
    BY <2>2, <2>6, <2>7, <2>9, <2>10, <2>11 DEF BookMirrorsBroker, MirrorOf
  <2> QED
    BY <2>6, <2>7, <2>9, <2>11, <2>12 DEF BookMirrorsBroker, MirrorOf
<1> QED
  BY <1>1, <1>2

\* No step makes the positions and the broker's book disagree.
LEMMA BookStep ==
  ASSUME TypeOK, RestingOrdersArePaired, ExposedOnce, BookMirrorsBroker, [Next]_vars
  PROVE  BookMirrorsBroker'
<1>1. CASE Restart
  BY <1>1, EmptyDictType DEF Restart, BookMirrorsBroker
<1>2. ASSUME UNCHANGED <<positions, book>>
      PROVE  BookMirrorsBroker'
  BY <1>2 DEF BookMirrorsBroker
<1>3. CASE HandlePaperFills
  BY <1>3, BookHandlePaperFills
<1>4. CASE SquareOffAtClose
  <2>1. CASE SquareOffDue(tick.sym) /\ tick.sym \in DOMAIN positions
    BY <1>4, <2>1 DEF SquareOffAtClose, ForceClose, BookMirrorsBroker, Del
  <2>2. CASE ~(SquareOffDue(tick.sym) /\ tick.sym \in DOMAIN positions)
    BY <1>2, <1>4, <2>2 DEF SquareOffAtClose
  <2> QED
    BY <2>1, <2>2
<1>5. CASE \E s \in Symbols, ltp \in Prices : OnTick(s, ltp)
  BY <1>5, BookOnTick
<1>6. CASE \/ UpdateRollingBar \/ MaybeCaptureAnchor \/ MaybePlaceOcoPair
           \/ PreSquareoffSweep \/ AdvanceClock \/ SetPaused \/ UNCHANGED vars
  BY <1>2, <1>6
     DEF UpdateRollingBar, MaybeCaptureAnchor, MaybePlaceOcoPair, PreSquareoffSweep,
         AdvanceClock, SetPaused, vars, memory
<1> QED
  BY <1>1, <1>3, <1>4, <1>5, <1>6 DEF Next, TickOf, Handle

-----------------------------------------------------------------------------
(* The order of the day *)

\* The sweep empties the pairs, and in this order only.
LEMMA DayOrderPreSquareoffSweep ==
  ASSUME TypeOK, DayOrderKept, PreSquareoffSweep
  PROVE  DayOrderKept'
<1>1. /\ pc' = "squareOff" /\ clock' = clock /\ squaredOff' = squaredOff
      /\ positions' = positions
  BY DEF PreSquareoffSweep, Then
<1>2. CASE SweepDue
  <2>1. swept' = TRUE /\ DOMAIN pairs' = {}
    BY <1>2, EmptyDictType DEF PreSquareoffSweep
  <2>2. clock.tod >= SquareOffTime - PreSquareoffBuffer
    BY <1>2 DEF SweepDue
  <2> QED
    BY <1>1, <2>1, <2>2 DEF DayOrderKept
<1>3. CASE ~SweepDue
  <2>1. swept' = swept /\ pairs' = pairs
    BY <1>3 DEF PreSquareoffSweep
  <2>2. clock.tod >= SquareOffTime - PreSquareoffBuffer => swept
    BY <1>3 DEF SweepDue
  <2> QED
    BY <1>1, <2>1, <2>2 DEF DayOrderKept
<1> QED
  BY <1>2, <1>3

\* A symbol is squared off after the sweep, and is flat then.
LEMMA DayOrderSquareOffAtClose ==
  ASSUME TypeOK, DayOrderKept, SquareOffAtClose
  PROVE  DayOrderKept'
<1> DEFINE s == tick.sym
<1>1. /\ pc = "squareOff" /\ pc' = "idle" /\ clock' = clock /\ swept' = swept
      /\ pairs' = pairs
  BY DEF SquareOffAtClose, Then
<1>2. CASE SquareOffDue(s)
  <2>1. squaredOff' = squaredOff \cup {s}
    BY <1>2 DEF SquareOffAtClose
  <2>2. DOMAIN positions' = DOMAIN positions \ {s}
    BY <1>2 DEF SquareOffAtClose, Del
  <2>3. clock.tod >= SquareOffTime - PreSquareoffBuffer
    <3>1. clock.tod >= SquareOffTime /\ clock.tod \in Nat
      BY <1>2 DEF SquareOffDue, TypeOK, Moment
    <3>2. SquareOffTime \in Nat /\ PreSquareoffBuffer \in Nat
      BY RunnerAssumption, OrchestratorAssumption
    <3> QED
      BY <3>1, <3>2
  <2> QED
    BY <1>1, <2>1, <2>2, <2>3 DEF DayOrderKept
<1>3. CASE ~SquareOffDue(s)
  <2>1. squaredOff' = squaredOff /\ positions' = positions
    BY <1>3 DEF SquareOffAtClose
  <2> QED
    BY <1>1, <2>1 DEF DayOrderKept
<1> QED
  BY <1>2, <1>3

\* No step breaks the order of the day.
LEMMA DayOrderStep ==
  ASSUME TypeOK, RestingOrdersArePaired, DayOrderKept, [Next]_vars
  PROVE  DayOrderKept'
<1>1. CASE Restart
  <2>1. /\ clock' = clock /\ pc' = "idle" /\ squaredOff' = {} /\ swept' = FALSE
        /\ DOMAIN positions' = {}
    BY <1>1, EmptyDictType DEF Restart
  <2> QED
    BY <2>1 DEF DayOrderKept
<1>2. CASE AdvanceClock
  <2>1. /\ pc = "idle" /\ pc' = pc /\ UNCHANGED <<squaredOff, swept, pairs, positions>>
    BY <1>2 DEF AdvanceClock, memory
  <2>2. CASE NextSlot
    <3>1. clock'.day = clock.day /\ clock'.tod = clock.tod + 1
      BY <2>2 DEF NextSlot, TypeOK, Moment
    <3>2. clock.tod \in Nat /\ SquareOffTime - PreSquareoffBuffer \in Int
      BY RunnerAssumption, OrchestratorAssumption DEF TypeOK, Moment
    <3> QED
      BY <2>1, <3>1, <3>2 DEF DayOrderKept
  <2>3. CASE NextDay
    <3>1. clock'.day = clock.day + 1 /\ clock.day \in Nat
      BY <2>3 DEF NextDay, TypeOK, Moment
    <3> QED
      BY <3>1 DEF DayOrderKept
  <2> QED
    BY <1>2, <2>2, <2>3 DEF AdvanceClock
<1>3. ASSUME NEW s \in Symbols, NEW ltp \in Prices, OnTick(s, ltp)
      PROVE  DayOrderKept'
  <2>1. /\ pc' = "updateBar" /\ clock' = clock /\ squaredOff' = squaredOff
        /\ swept' = swept /\ pairs' = pairs
    BY <1>3 DEF OnTick, Then
  <2>2. DOMAIN positions' = DOMAIN positions
    BY <1>3 DEF OnTick, BarClosesOnPosition, Put
  <2> QED
    BY <2>1, <2>2 DEF DayOrderKept
<1>4. CASE HandlePaperFills
  <2> DEFINE s == tick.sym
  <2>1. /\ pc' = "placePair" /\ clock' = clock /\ squaredOff' = squaredOff
        /\ swept' = swept
    BY <1>4 DEF HandlePaperFills, Then
  <2>2. CASE Crossed(orders, s, tick.ltp) = {}
    <3>1. positions' = positions /\ pairs' = pairs
      BY <1>4, <2>2, NoFillFacts
    <3> QED
      BY <2>1, <3>1 DEF DayOrderKept
  <2>3. CASE Crossed(orders, s, tick.ltp) # {}
    <3>1. s \in DOMAIN pairs
      BY <1>4, <2>3, FillFacts
    <3>2. clock.day = 1 => ~swept /\ squaredOff = {}
      BY <3>1 DEF DayOrderKept
    <3> QED
      BY <2>1, <3>2 DEF DayOrderKept
  <2> QED
    BY <2>2, <2>3
<1>5. CASE MaybePlaceOcoPair
  <2>1. /\ pc' = "sweep" /\ clock' = clock /\ squaredOff' = squaredOff
        /\ swept' = swept /\ positions' = positions
    BY <1>5 DEF MaybePlaceOcoPair, Then
  <2>2. CASE MayPlacePair(tick.sym)
    <3>1. clock.tod < NoNewTradeAfter /\ clock.tod \in Nat
      BY <2>2 DEF MayPlacePair, TypeOK, Moment
    <3>2. /\ NoNewTradeAfter \in Nat /\ SquareOffTime \in Nat
          /\ PreSquareoffBuffer \in Nat
      BY RunnerAssumption, OrchestratorAssumption
    <3>3. ~ (clock.tod >= SquareOffTime - PreSquareoffBuffer)
      BY <3>1, <3>2, DayOrderAssumption
    <3>4. clock.day = 1 => ~swept /\ squaredOff = {}
      BY <3>3 DEF DayOrderKept
    <3> QED
      BY <2>1, <3>4 DEF DayOrderKept
  <2>3. CASE ~MayPlacePair(tick.sym)
    BY <1>5, <2>1, <2>3 DEF MaybePlaceOcoPair, DayOrderKept
  <2> QED
    BY <2>2, <2>3
<1>6. CASE PreSquareoffSweep
  BY <1>6, DayOrderPreSquareoffSweep
<1>7. CASE SquareOffAtClose
  BY <1>7, DayOrderSquareOffAtClose
<1>8. CASE UpdateRollingBar \/ MaybeCaptureAnchor
  BY <1>8 DEF UpdateRollingBar, MaybeCaptureAnchor, Then, DayOrderKept
<1>9. CASE SetPaused \/ UNCHANGED vars
  BY <1>9 DEF SetPaused, vars, memory, DayOrderKept
<1> QED
  BY <1>1, <1>2, <1>3, <1>4, <1>5, <1>6, <1>7, <1>8, <1>9 DEF Next, TickOf, Handle

-----------------------------------------------------------------------------
(* Theorems *)

\* What every reachable state satisfies: the inductive invariant.  Types and
\* pairing need each other (a fill must be a leg to be typed), the book needs
\* pairing and single exposure, the order of the day needs pairing.
Safe ==
  /\ TypeOK
  /\ RestingOrdersArePaired
  /\ ExposedOnce
  /\ DiskMirrorsPairs
  /\ BookMirrorsBroker
  /\ DayOrderKept

\* Init implies the invariant and every step keeps it.
THEOREM Safety == Spec => []Safe
<1>1. Init => Safe
  <2> SUFFICES ASSUME Init PROVE Safe
    OBVIOUS
  <2>1. DayOrderKept
    <3>1. /\ clock.day = 1 /\ swept = FALSE /\ squaredOff = {} /\ pc = "idle"
      BY DEF Init
    <3> QED
      BY <3>1 DEF DayOrderKept
  <2> QED
    BY <2>1, TypeInit, ExposureInit DEF Safe
<1>2. Safe /\ [Next]_vars => Safe'
  BY TypeStep, RestingStep, ExposedOnceStep, DiskMirrorsPairsStep, BookStep, DayOrderStep
     DEF Safe
<1> QED
  BY <1>1, <1>2, PTL DEF Spec

\* The state is well typed: every dictionary holds what the code puts there.
THEOREM TypeCorrect == Spec => []TypeOK
<1>1. Safe => TypeOK
  BY DEF Safe
<1> QED
  BY <1>1, Safety, PTL

\* No order rests at the broker outside its symbol's tracked pair.
THEOREM NoOrphanOrders == Spec => []RestingOrdersArePaired
<1>1. Safe => RestingOrdersArePaired
  BY DEF Safe
<1> QED
  BY <1>1, Safety, PTL

\* The orchestrator and the broker agree on every position.
THEOREM BookAgreement == Spec => []BookMirrorsBroker
<1>1. Safe => BookMirrorsBroker
  BY DEF Safe
<1> QED
  BY <1>1, Safety, PTL

\* No symbol has a position and a pair at once.
THEOREM SingleExposure == Spec => []ExposedOnce
<1>1. Safe => ExposedOnce
  BY DEF Safe
<1> QED
  BY <1>1, Safety, PTL

\* The pairs on file are the pairs in memory.
THEOREM PairsPersisted == Spec => []DiskMirrorsPairs
<1>1. Safe => DiskMirrorsPairs
  BY DEF Safe
<1> QED
  BY <1>1, Safety, PTL

\* A symbol that was squared off stays flat for the rest of the first day.
THEOREM FlatAfterClose == Spec => []FlatAfterSquareOff
<1>1. Safe => FlatAfterSquareOff
  BY DEF Safe, FlatAfterSquareOff, DayOrderKept, RestingOrdersArePaired
<1> QED
  BY <1>1, Safety, PTL
=============================================================================
