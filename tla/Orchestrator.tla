---------------------------- MODULE Orchestrator ----------------------------
(***************************************************************************)
(* engine/orchestrator.py in PAPER mode, composed with the AnchorEngine,   *)
(* the PaperBroker, the StrategyRunner, the GuardRails, the PositionSizer  *)
(* and the two StateStore files it writes.                                 *)
(*                                                                         *)
(* on_tick runs to completion on the feed's thread, one method after the   *)
(* other.  Each method is an action here and pc names the next one, so     *)
(* that what really interleaves with a tick can: the Telegram thread sets  *)
(* and clears "paused" between any two of them, and the process may die    *)
(* between any two of them.  Each method writes its file at its end, so a  *)
(* death inside one loses what a death before it loses.  on_tick reads the *)
(* time once, hence the clock moves between ticks only.                    *)
(*                                                                         *)
(* A moment is [day, tod].  tod counts slots of a trading day; a rolling   *)
(* bar covers BarLen of them.                                              *)
(***************************************************************************)
EXTENDS StrategyRunner, PaperBroker, AnchorEngine, PositionSizer, FiniteSets

CONSTANTS
  Symbols,             \* the symbols of the session
  NoSymbol,            \* the symbol of no tick
  Prices,              \* the quotes the feed may deliver
  BarLen,              \* length of a rolling bar (5 minutes)
  NoNewTradeAfter,     \* no_new_trade_after
  PreSquareoffBuffer,  \* pre_squareoff_buffer
  MaxTradesPerDay,     \* GuardRails.max_trades_per_day
  MaxDailyLoss,        \* abs(GuardRails.max_daily_loss)
  LastTod,             \* bound: the last slot of a day
  Days,                \* bound: the days explored
  MaxCrashes           \* bound: the restarts of the process

ASSUME OrchestratorAssumption ==
  /\ NoSymbol \notin Symbols
  /\ Prices \subseteq Nat
  /\ BarLen \in Nat \ {0}
  /\ NoNewTradeAfter \in Nat
  /\ PreSquareoffBuffer \in Nat
  /\ MaxTradesPerDay \in Nat
  /\ MaxDailyLoss \in Nat
  /\ LastTod \in Nat
  /\ Days \in Nat \ {0}
  /\ MaxCrashes \in Nat

ASSUME SizerAssumption ==
  /\ RiskBudget \in Int
  /\ \A s \in Symbols :
       LotSize[s] \in Int /\ MoneyPerPoint[s] \in Int /\ SizingSlDist[s] \in Int

\* The order of the day that strategy_config.py configures (14:30, 15:10,
\* 15:15): after the sweep no pair is placed any more.
ASSUME DayOrderAssumption == NoNewTradeAfter <= SquareOffTime - PreSquareoffBuffer

VARIABLES
  clock,       \* now_ist()
  pc,          \* the next method of on_tick, or "idle" between ticks
  tick,        \* the tick being handled
  bars,        \* rolling_bars (high and low are never read)
  pairs,       \* oco_pairs
  positions,   \* positions
  dayPnl,      \* day_pnl
  dayTrades,   \* day_trades
  squaredOff,  \* _squared_off_today
  swept,       \* _pre_squareoff_cancelled
  paused,      \* paused, set by the Telegram thread
  anchors,     \* the AnchorEngine's memory
  orders,      \* the PaperBroker's orders
  book,        \* the PaperBroker's positions
  anchorFile,  \* anchors.json
  pairFile,    \* orchestrator_state.json, key "oco_pairs"
  issued,      \* history: pairs placed today, over all processes
  crashes      \* history: restarts so far

\* What a dying process loses, what survives it, and what is not its own.
memory  == <<bars, pairs, positions, dayPnl, dayTrades, squaredOff, swept,
             anchors, orders, book>>
files   == <<anchorFile, pairFile>>
vars    == <<clock, pc, tick, memory, paused, files, issued, crashes>>

-----------------------------------------------------------------------------
(* Types *)

Moment == [day : Nat, tod : Nat]

Method == {"idle", "updateBar", "captureAnchor", "paperFills", "placePair",
           "sweep", "squareOff"}

NoTick == [sym |-> NoSymbol, ltp |-> 0]

\* _RollingBar
Bar == [start : Moment, open : Nat, close : Nat]

\* _OcoPair: the ids of its two legs, their levels and their quantity
\* (filled_side is set only on the way out of oco_pairs).
Pair == [leg : [Side -> Nat], levels : [Side -> Level], qty : Nat]

IsAnchorRecord(r) == r = [day |-> r.day, px |-> r.px] /\ r.day \in Nat /\ IsDict(r.px, Symbols, Nat)

TypeOK ==
  /\ clock \in Moment
  /\ pc \in Method
  /\ tick \in [sym : Symbols \cup {NoSymbol}, ltp : Nat]
  /\ pc = "idle" <=> tick.sym = NoSymbol
  /\ IsDict(bars, Symbols, Bar)
  /\ IsDict(pairs, Symbols, Pair)
  /\ IsDict(positions, Symbols, Position)
  /\ dayPnl \in Int
  /\ dayTrades \in Nat
  /\ squaredOff \in SUBSET Symbols
  /\ swept \in BOOLEAN
  /\ paused \in BOOLEAN
  /\ IsAnchorRecord(anchors)
  /\ orders \in Seq(Order(Symbols))
  /\ IsDict(book, Symbols, PaperPosition)
  /\ IsAnchorRecord(anchorFile)
  /\ IsDict(pairFile, Symbols, Pair)
  /\ issued \in [Symbols -> Nat]
  /\ crashes \in Nat

-----------------------------------------------------------------------------
(* Start and environment *)

\* A first start: no files.
Init ==
  /\ clock = [day |-> 1, tod |-> 0]
  /\ pc = "idle" /\ tick = NoTick
  /\ bars = EmptyDict /\ pairs = EmptyDict /\ positions = EmptyDict
  /\ dayPnl = 0 /\ dayTrades = 0
  /\ squaredOff = {} /\ swept = FALSE /\ paused = FALSE
  /\ anchors = NoAnchors
  /\ orders = <<>> /\ book = EmptyDict
  /\ anchorFile = NoAnchors /\ pairFile = EmptyDict
  /\ issued = [s \in Symbols |-> 0]
  /\ crashes = 0

\* The process dies and is started again: the broker, the anchor engine and
\* the orchestrator are new, and _reload_oco_pairs reads the pairs back.
Restart ==
  /\ crashes < MaxCrashes
  /\ crashes' = crashes + 1
  /\ pc' = "idle" /\ tick' = NoTick
  /\ bars' = EmptyDict /\ positions' = EmptyDict
  /\ pairs' = pairFile
  /\ dayPnl' = 0 /\ dayTrades' = 0
  /\ squaredOff' = {} /\ swept' = FALSE /\ paused' = FALSE
  /\ anchors' = NoAnchors
  /\ orders' = <<>> /\ book' = EmptyDict
  /\ UNCHANGED <<clock, files, issued>>

NextSlot ==
  /\ clock.tod < LastTod
  /\ clock' = [clock EXCEPT !.tod = clock.tod + 1]
  /\ UNCHANGED issued

NextDay ==
  /\ clock.tod = LastTod /\ clock.day < Days
  /\ clock' = [day |-> clock.day + 1, tod |-> 0]
  /\ issued' = [s \in Symbols |-> 0]

AdvanceClock ==
  /\ pc = "idle"
  /\ NextSlot \/ NextDay
  /\ UNCHANGED <<pc, tick, memory, paused, files, crashes>>

\* TelegramPoller's /pause and /resume, on its own thread.
SetPaused ==
  /\ paused' = ~paused
  /\ UNCHANGED <<clock, pc, tick, memory, files, issued, crashes>>

-----------------------------------------------------------------------------
(* on_tick *)

\* _bar_start
BarStart(now) == [now EXCEPT !.tod = (now.tod \div BarLen) * BarLen]

\* The method m ends and n is next.
Then(m, n) == pc = m /\ pc' = n

\* The position whose stop _maybe_close_bar trails: the bar has just closed.
BarClosesOnPosition(s) ==
  /\ s \in DOMAIN bars
  /\ bars[s].start # BarStart(clock)
  /\ s \in DOMAIN positions

\* on_tick for a known symbol, and _maybe_close_bar: the close of the bar
\* that ended before this tick drives the trailing stop.
OnTick(s, ltp) ==
  /\ Then("idle", "updateBar")
  /\ tick' = [sym |-> s, ltp |-> ltp]
  /\ \/ /\ BarClosesOnPosition(s)
        /\ LET old == positions[s]
               new == UpdateTrailing(old, bars[s].close)
           IN  /\ positions' = Put(positions, s, new)
               /\ book' = IF new.sl # old.sl THEN ModifySl(book, s, new.sl) ELSE book
     \/ /\ ~BarClosesOnPosition(s)
        /\ UNCHANGED <<positions, book>>
  /\ UNCHANGED <<clock, bars, pairs, dayPnl, dayTrades, squaredOff, swept, paused,
                 anchors, orders, files, issued, crashes>>

\* _update_rolling_bar
UpdatedBar(s, ltp) ==
  IF s \in DOMAIN bars /\ bars[s].start = BarStart(clock)
  THEN [bars[s] EXCEPT !.close = ltp]
  ELSE [start |-> BarStart(clock), open |-> ltp, close |-> ltp]

UpdateRollingBar ==
  /\ Then("updateBar", "captureAnchor")
  /\ bars' = Put(bars, tick.sym, UpdatedBar(tick.sym, tick.ltp))
  /\ UNCHANGED <<clock, tick, pairs, positions, dayPnl, dayTrades, squaredOff, swept,
                 paused, anchors, orders, book, files, issued, crashes>>

\* The price _maybe_capture_anchor takes: the open of the rolling bar.
AnchorSource(s) == IF s \in DOMAIN bars THEN bars[s].open ELSE tick.ltp

\* _maybe_capture_anchor, which reaches the engine's day roll on every tick.
MaybeCaptureAnchor ==
  LET s      == tick.sym
      rolled == RolledDay(anchors, anchorFile, clock.day)
      purged == PurgedFile(anchors, anchorFile, clock.day)
      taken  == CapturedAnchor(rolled, s, AnchorSource(s))
  IN  /\ Then("captureAnchor", "paperFills")
      /\ \/ /\ ShouldCapture(rolled, s, clock.tod)
            /\ anchors' = taken
            /\ anchorFile' = taken
         \/ /\ ~ShouldCapture(rolled, s, clock.tod)
            /\ anchors' = rolled
            /\ anchorFile' = purged
      /\ UNCHANGED <<clock, tick, bars, pairs, positions, dayPnl, dayTrades, squaredOff,
                     swept, paused, orders, book, pairFile, issued, crashes>>

\* _on_order_fill, after process_tick has left filled and opened behind it:
\* cancel the peer, open the position, hand its exits to the broker, drop
\* and persist the pair.
OnOrderFill(s, id, filled, opened) ==
  LET pair  == pairs[s]
      side  == orders[id].side
      peer  == IF id = pair.leg["LONG"] THEN pair.leg["SHORT"] ELSE pair.leg["LONG"]
      level == pair.levels[side]
  IN  /\ orders' = CancelOrders(filled, {peer})
      /\ positions' = Put(positions, s,
                          OpenPosition(side, orders[id].trigger, level, pair.qty))
      /\ book' = ModifyTp(ModifySl(opened, s, level.sl), s, level.tp)
      /\ pairs' = Del(pairs, s)
      /\ pairFile' = Del(pairs, s)

\* _handle_paper_fills.  _on_order_fill returns early when the symbol has no
\* pair, and its first call drops the pair: only the first fill counts.
HandlePaperFills ==
  LET s      == tick.sym
      fills  == Crossed(orders, s, tick.ltp)
      filled == FilledOrders(orders, s, tick.ltp)
      opened == FilledBook(orders, book, s, tick.ltp)
  IN  /\ Then("paperFills", "placePair")
      /\ \/ /\ fills # {} /\ s \in DOMAIN pairs
            /\ OnOrderFill(s, First(fills), filled, opened)
         \/ /\ fills = {} \/ s \notin DOMAIN pairs
            /\ orders' = filled
            /\ book' = opened
            /\ UNCHANGED <<positions, pairs, pairFile>>
      /\ UNCHANGED <<clock, tick, bars, dayPnl, dayTrades, squaredOff, swept, paused,
                     anchors, anchorFile, issued, crashes>>

\* GuardRails.validate_trade_count and validate_daily_loss
GuardsAllow == dayTrades < MaxTradesPerDay /\ dayPnl > -MaxDailyLoss

\* Seeded fault: the test for an open position is dropped.
MayPlacePairIgnoringPosition(s) ==
  /\ s \notin DOMAIN pairs
  /\ clock.tod < NoNewTradeAfter
  /\ ~paused
  /\ s \in DOMAIN anchors.px
  /\ GuardsAllow
  /\ SizeFor(s, SlDist) # 0

\* Seeded fault: no_new_trade_after is not looked at.
MayPlacePairAnyTime(s) ==
  /\ s \notin DOMAIN pairs
  /\ s \notin DOMAIN positions
  /\ ~paused
  /\ s \in DOMAIN anchors.px
  /\ GuardsAllow
  /\ SizeFor(s, SlDist) # 0

\* The early returns of _maybe_place_oco_pair.
MayPlacePair(s) ==
  /\ s \notin DOMAIN pairs
  /\ s \notin DOMAIN positions
  /\ clock.tod < NoNewTradeAfter
  /\ ~paused
  /\ s \in DOMAIN anchors.px
  /\ GuardsAllow
  /\ SizeFor(s, SlDist) # 0

\* Seeded fault: the ids of the legs are one too low.
NewPairOffByOne(s, n) ==
  [leg    |-> [side \in Side |-> IF side = "LONG" THEN n ELSE n + 1],
   levels |-> BuildOrderLevels(anchors.px[s]),
   qty    |-> SizeFor(s, SlDist)]

\* The pair that PlacePair issues when the broker's counter stands at n.
NewPair(s, n) ==
  [leg    |-> [side \in Side |-> IF side = "LONG" THEN n + 1 ELSE n + 2],
   levels |-> BuildOrderLevels(anchors.px[s]),
   qty    |-> SizeFor(s, SlDist)]

\* Seeded fault: the new pair is not persisted.
PlacePairUnsaved(s) ==
  LET pair     == NewPair(s, Len(orders))
      withLong == PlaceStopOrder(orders, s, "LONG", pair.qty, pair.levels["LONG"].entry)
  IN  /\ orders' = PlaceStopOrder(withLong, s, "SHORT", pair.qty,
                                  pair.levels["SHORT"].entry)
      /\ pairs' = Put(pairs, s, pair)
      /\ issued' = [issued EXCEPT ![s] = issued[s] + 1]
      /\ UNCHANGED pairFile

\* Place both legs, remember and persist the pair.
PlacePair(s) ==
  LET pair     == NewPair(s, Len(orders))
      withLong == PlaceStopOrder(orders, s, "LONG", pair.qty, pair.levels["LONG"].entry)
  IN  /\ orders' = PlaceStopOrder(withLong, s, "SHORT", pair.qty,
                                  pair.levels["SHORT"].entry)
      /\ pairs' = Put(pairs, s, pair)
      /\ pairFile' = Put(pairs, s, pair)
      /\ issued' = [issued EXCEPT ![s] = issued[s] + 1]

\* _maybe_place_oco_pair
MaybePlaceOcoPair ==
  /\ Then("placePair", "sweep")
  /\ \/ MayPlacePair(tick.sym) /\ PlacePair(tick.sym)
     \/ ~MayPlacePair(tick.sym) /\ UNCHANGED <<orders, pairs, pairFile, issued>>
  /\ UNCHANGED <<clock, tick, bars, positions, dayPnl, dayTrades, squaredOff, swept,
                 paused, anchors, book, anchorFile, crashes>>

\* Every order id that some tracked pair names.
AllLegs == {pairs[s].leg[side] : s \in DOMAIN pairs, side \in Side}

SweepDue == ~swept /\ clock.tod >= SquareOffTime - PreSquareoffBuffer

\* _pre_squareoff_sweep: once per process, for all symbols.
PreSquareoffSweep ==
  /\ Then("sweep", "squareOff")
  /\ \/ /\ SweepDue
        /\ swept' = TRUE
        /\ orders' = CancelOrders(orders, AllLegs)
        /\ pairs' = EmptyDict
        /\ pairFile' = EmptyDict
     \/ /\ ~SweepDue
        /\ UNCHANGED <<swept, orders, pairs, pairFile>>
  /\ UNCHANGED <<clock, tick, bars, positions, dayPnl, dayTrades, squaredOff, paused,
                 anchors, book, anchorFile, issued, crashes>>

\* Seeded fault: the flag is one for the process, as that of the sweep is.
SquareOffDueOnce(s) == clock.tod >= SquareOffTime /\ squaredOff = {}

SquareOffDue(s) == clock.tod >= SquareOffTime /\ s \notin squaredOff

\* _squareoff_at_close, the last method that changes state: only the symbol
\* that ticks is squared off, and only here is a trade counted.
SquareOffAtClose ==
  LET s == tick.sym
  IN  /\ Then("squareOff", "idle")
      /\ tick' = NoTick
      /\ \/ /\ SquareOffDue(s) /\ s \in DOMAIN positions
            /\ dayPnl' = dayPnl + ForceClosePoints(book, s, tick.ltp) * positions[s].qty
            /\ dayTrades' = dayTrades + 1
            /\ positions' = Del(positions, s)
            /\ book' = ForceClose(book, s)
            /\ squaredOff' = squaredOff \cup {s}
         \/ /\ SquareOffDue(s) /\ s \notin DOMAIN positions
            /\ squaredOff' = squaredOff \cup {s}
            /\ UNCHANGED <<dayPnl, dayTrades, positions, book>>
         \/ /\ ~SquareOffDue(s)
            /\ UNCHANGED <<dayPnl, dayTrades, positions, book, squaredOff>>
      /\ UNCHANGED <<clock, bars, pairs, swept, paused, anchors, orders, files, issued,
                     crashes>>

Handle ==
  \/ UpdateRollingBar
  \/ MaybeCaptureAnchor
  \/ HandlePaperFills
  \/ MaybePlaceOcoPair
  \/ PreSquareoffSweep
  \/ SquareOffAtClose

TickOf(s) == \E ltp \in Prices : OnTick(s, ltp)

Next ==
  \/ \E s \in Symbols : TickOf(s)
  \/ Handle
  \/ AdvanceClock
  \/ SetPaused
  \/ Restart

Spec == Init /\ [][Next]_vars

\* The feed's thread finishes the tick it handles; the day goes on; and
\* every symbol keeps being quoted, however busy the handler is.
Fairness ==
  /\ WF_vars(Handle)
  /\ SF_vars(AdvanceClock)
  /\ \A s \in Symbols : SF_vars(TickOf(s))

FairSpec == Spec /\ Fairness

-----------------------------------------------------------------------------
(* Safety *)

\* The orchestrator's positions and the broker's book are two copies of one
\* thing, written by different methods (fill, trailing, square-off): they
\* agree on every symbol, side, price, quantity, stop and target.
BookMirrorsBroker ==
  /\ DOMAIN book = DOMAIN positions
  /\ \A s \in DOMAIN positions :
       book[s] = [side |-> positions[s].side, entry |-> positions[s].entry,
                  qty |-> positions[s].qty, sl |-> positions[s].sl,
                  tp |-> positions[s].tp]

\* Whatever rests at the broker is a leg of its symbol's tracked pair, on
\* the leg's side, at its trigger and quantity: no path through fills, peer
\* cancels, sweeps and restarts leaves an order that nothing would cancel.
RestingOrdersArePaired ==
  \A i \in OpenOrders(orders) :
    LET order == orders[i]
    IN  /\ order.sym \in DOMAIN pairs
        /\ i = pairs[order.sym].leg[order.side]
        /\ order.trigger = pairs[order.sym].levels[order.side].entry
        /\ order.qty = pairs[order.sym].qty

\* A symbol is exposed once: it has a position or a pair that may fill, and
\* never both, so that a fill can only open a position, never add to one.
ExposedOnce == DOMAIN positions \cap DOMAIN pairs = {}

\* Both legs of a tracked pair are resting at the broker: a pair never waits
\* for a fill that cannot come.  (In the first process of the session: a
\* restarted one tracks the pairs on file, whose orders died with the broker.)
PairsAreLive ==
  crashes = 0 =>
    \A s \in DOMAIN pairs, side \in Side : pairs[s].leg[side] \in OpenOrders(orders)

\* The file that a restart reads never lags behind the pairs in memory.
DiskMirrorsPairs == pairFile = pairs

\* A pair placed today hangs off the anchor that the file holds for today, on
\* every day: neither place, persist, restart, reload nor the roll of the day
\* pairs an old anchor's levels with a new anchor.  (A pair of yesterday that
\* nothing swept is not spoken of: it is reloaded with its levels.)
PairUsesTodaysAnchor ==
  \A s \in DOMAIN pairs :
    issued[s] > 0 =>
      /\ anchorFile.day = clock.day
      /\ s \in DOMAIN anchorFile.px
      /\ pairs[s].levels = BuildOrderLevels(anchorFile.px[s])

\* Once the square-off has dealt with a symbol, the symbol stays flat for
\* the rest of the day: no position, no pair, nothing resting.
FlatAfterSquareOff ==
  clock.day = 1 =>
    \A s \in squaredOff :
      /\ s \notin DOMAIN positions
      /\ s \notin DOMAIN pairs
      /\ \A i \in OpenOrders(orders) : orders[i].sym # s

\* Why it does: on the first day the sweep has run before anything is squared
\* off, no pair is placed after the sweep, and without a pair nothing fills.
\* (The strengthening that makes FlatAfterSquareOff inductive.)
DayOrderKept ==
  /\ clock.day >= 1
  /\ clock.day = 1 =>
       /\ swept => /\ clock.tod >= SquareOffTime - PreSquareoffBuffer
                   /\ DOMAIN pairs = {}
       /\ squaredOff # {} => swept
       /\ pc = "squareOff" /\ clock.tod >= SquareOffTime - PreSquareoffBuffer => swept
       /\ squaredOff \cap DOMAIN positions = {}

\* Every fill at the broker is accounted for: it is an open position or a
\* closed trade that day_trades counts.
FillsAccounted ==
  Cardinality(FilledIds(orders)) = dayTrades + Cardinality(DOMAIN positions)

\* The points that a position may still lose at its stop.
PointsAtRisk(position) == Sign(position.side) * (position.entry - position.sl)

\* "the budget is the contract" (position_sizer.py): no position risks more
\* than the budget at its stop, through rounding, fills, restarts and trailing.
\* The stop hangs off the one SlDist and the quantity off the symbol's own
\* distance: the budget holds where the stop is no wider than that, and a stop
\* is never wider than SlDist and half a tick.
RiskWithinBudget ==
  \A s \in DOMAIN positions :
    LET risked == PointsAtRisk(positions[s])
    IN  /\ 2 * risked <= 2 * SlDist + TickSize
        /\ risked <= SizingDistance(s, SlDist) =>
             positions[s].qty * MoneyPerPoint[s] * risked <= RiskBudget

\* A process that was not restarted places one pair per symbol and day.
OnePairPerProcessDay == crashes = 0 => \A s \in Symbols : issued[s] <= 1

-----------------------------------------------------------------------------
(* Action properties *)

\* "the anchor must survive a mid-session restart" (anchor_engine.py): an
\* anchor on file changes on a new day only, whatever dies in between.
AnchorStable ==
  [][\A s \in Symbols :
       s \in DOMAIN anchorFile.px /\ anchorFile.day = clock.day
         => /\ anchorFile'.day = clock.day
            /\ s \in DOMAIN anchorFile'.px
            /\ anchorFile'.px[s] = anchorFile.px[s]]_vars

\* A stop only ever moves towards profit.
SlRatchets ==
  [][\A s \in DOMAIN positions \cap DOMAIN positions' :
       Sign(positions[s].side) * (positions'[s].sl - positions[s].sl) >= 0]_vars

\* "Path-safe ratchet": a stop moves only when a bar has closed, and then
\* stays at least one LockStep behind the close that moved it.
TrailBehindClosedBar ==
  [][\A s \in DOMAIN positions \cap DOMAIN positions' :
       positions'[s].sl # positions[s].sl
         => /\ BarStart(clock) # bars[s].start
            /\ Sign(positions[s].side) * (bars[s].close - positions'[s].sl) >= LockStep]_vars

-----------------------------------------------------------------------------
(* Liveness *)

\* The day ends flat: no position, no tracked pair, nothing resting.
EndOfDayFlat ==
  <>[](DOMAIN positions = {} /\ DOMAIN pairs = {} /\ OpenOrders(orders) = {})

-----------------------------------------------------------------------------
(* What docs and tests say and the code does not do; see the README. *)

\* tests/test_orchestrator.py, docstring: a restart "does not double-issue
\* orders" - one pair per symbol and day, over all the day's processes.
OnePairPerDay == \A s \in Symbols : issued[s] <= 1

\* StrategyRunner: PAPER uses "this class for signal, TP/SL, trailing-lock,
\* and square-off rules" - a position whose stop the last tick crossed is
\* closed by the end of that tick.
StopIsHonoured ==
  pc = "idle" =>
    \A s \in DOMAIN positions \cap DOMAIN bars :
      Sign(positions[s].side) * (bars[s].close - positions[s].sl) > 0

\* on_tick step 6, "square-off: close any open position": after a tick at or
\* past square-off time, on any day, the symbol has no position.
SquareOffEveryDay ==
  pc = "idle" =>
    \A s \in DOMAIN positions \cap DOMAIN bars :
      ~ (bars[s].start.day = clock.day /\ bars[s].start.tod >= SquareOffTime)
=============================================================================
