----------------------------- MODULE BarReplay -----------------------------
(***************************************************************************)
(* The two bar-driven engines on one OHLC stream, as                       *)
(* tests/test_runner_parity.py drives them: the levels of a session hang   *)
(* off the open of its anchor bar, and every later bar of the session goes *)
(* to BacktestEngine and to ExecutionEngine.  A session may end at any bar *)
(* (a truncated file, a half day).                                         *)
(***************************************************************************)
EXTENDS ExecutionEngine, BacktestEngine, FiniteSetsExt

CONSTANTS
  Opens,    \* the opens an anchor bar may have
  Quotes,   \* the prices a bar may be made of
  LastBar,  \* bound: the bars of a symbol's session after its anchor bar
  Days      \* bound: the sessions

ASSUME ReplayAssumption ==
  /\ Opens \subseteq Nat
  /\ Quotes \subseteq Nat
  /\ LastBar \in [Symbols -> Nat]
  /\ Days \in Nat
  /\ IsFiniteSet(Symbols)

\* The driver hands both engines one quantity (tests/test_runner_parity.py),
\* and the stop does not round onto the entry (strategy_config.py: SL_DIST
\* 40.0, TICK_SIZE 0.05).
ASSUME SameQuantityAssumption == Quantity = BtQuantity
ASSUME StopApartAssumption == 2 * SlDist > TickSize

VARIABLES
  day,      \* the session being replayed
  seen,     \* the slot of the last bar of each symbol
  levels,   \* the levels of each symbol's session
  apart     \* history: symbols that PAPER began the session with a position of,
            \* or was not let into before their first trade

vars == <<engine, backtest, day, seen, levels, apart>>

Bar == {bar \in [low : Quotes, close : Quotes, high : Quotes] :
          bar.low <= bar.close /\ bar.close <= bar.high}

At(bar, tod) == [low |-> bar.low, close |-> bar.close, high |-> bar.high,
                 day |-> day, tod |-> tod]

Init ==
  /\ EngineInit
  /\ BacktestInit
  /\ day = 0
  /\ seen = LastBar
  /\ levels = [s \in Symbols |-> BuildOrderLevels(0)]
  /\ apart = {}

\* The anchor bars of the next day.
NextSession ==
  /\ day < Days
  /\ day' = day + 1
  /\ seen' = [s \in Symbols |-> 0]
  /\ \E open \in [Symbols -> Opens] :
       levels' = [s \in Symbols |-> BuildOrderLevels(open[s])]
  /\ apart' = DOMAIN positions
  /\ StartSession
  /\ UNCHANGED engine

TradesOf(trades, s) == {trade \in trades : trade.sym = s /\ trade.day = day}

\* The guard rails keep PAPER out of s before its first trade of the session.
TurnedAway(s, bar) ==
  s \notin DOMAIN positions /\ ~EntryAllowed(bar) /\ TradesOf(closed, s) = {}

\* The next bar of symbol s.
Deliver(s) ==
  /\ day > 0 /\ seen[s] < LastBar[s]
  /\ \E bar \in Bar :
       LET row == At(bar, seen[s] + 1)
       IN  /\ OnBar(s, levels[s], row)
           /\ SessionBar(s, levels[s], row)
           /\ apart' = IF TurnedAway(s, row) THEN apart \cup {s} ELSE apart
  /\ seen' = [seen EXCEPT ![s] = seen[s] + 1]
  /\ UNCHANGED <<day, levels>>

Next == NextSession \/ \E s \in Symbols : Deliver(s)

Spec == Init /\ [][Next]_vars

-----------------------------------------------------------------------------
(* Properties *)

TypeOK ==
  /\ EngineTypeOK
  /\ IsDict(btPosition, Symbols, Position)
  /\ btTrades \subseteq TradeRecord
  /\ btEquity \in [BtSymbols -> Tracker]
  /\ day \in Nat
  /\ seen \in [Symbols -> Nat]
  /\ levels \in [Symbols -> [Side -> Level]]
  /\ apart \subseteq Symbols

\* The first trade of s today: the backtest's, if the parity holds.
FirstOf(trades, s) ==
  {trade \in TradesOf(trades, s) :
     \A other \in TradesOf(trades, s) : trade.tod <= other.tod}

\* "BACKTEST and PAPER produce identical trade-by-trade results" as far as it
\* goes: in a session that PAPER starts flat and is let into, bar for bar the
\* two engines hold the same position up to the first exit, and that first
\* trade is the same.
SameSession ==
  \A s \in Symbols \ apart :
    /\ FirstOf(closed, s) = FirstOf(btTrades, s)
    /\ FirstOf(closed, s) = {} =>
         /\ s \in DOMAIN positions <=> s \in DOMAIN btPosition
         /\ s \in DOMAIN positions => positions[s] = btPosition[s]

\* The whole of that sentence (README.md, Strategy): it does not hold.
SameTrades == \A s \in Symbols : TradesOf(closed, s) = TradesOf(btTrades, s)

\* No trade loses more than the stop distance and half a tick of rounding,
\* whatever the trailing stop did before (both engines).
LossBounded ==
  \A trade \in closed \cup btTrades : 2 * Points(trade) >= -(2 * SlDist + TickSize)

\* What a lock step bought is never given back: a trade that closes at lock
\* index k keeps k lock steps, whichever exit closed it, and a TRAIL exit
\* does not lose.
LockedProfitKept ==
  \A trade \in closed \cup btTrades :
    /\ trade.lock >= 0 => Points(trade) >= LockStep * trade.lock
    /\ trade.reason = "TRAIL" => trade.lock >= 0

\* "persisted ... on every change so a crash mid-session can recover": the
\* file has every closed trade and every open position with the stop in
\* force; only the best move of an unmoved stop may lag.
FileIsRecoverable ==
  /\ file.closed = closed
  /\ DOMAIN file.positions = DOMAIN positions
  /\ \A s \in DOMAIN positions :
       [file.positions[s] EXCEPT !.best = 0] = [positions[s] EXCEPT !.best = 0]

\* The best move that may be lost decides nothing: the lock index on file is
\* the one that the full history of closes has bought.
LockIsCurrent ==
  \A s \in DOMAIN positions :
    positions[s].lock = IF positions[s].best < LockStep THEN -1 ELSE LockIndex(positions[s].best)

\* day_trades and day_pnl are today's closed trades, over day rolls, exits
\* and rejections.
CountersMatchToday ==
  LET today == {trade \in closed : trade.day = counters.day}
  IN  /\ counters.trades = Cardinality(today)
      /\ counters.pnl = MapThenSumSet(LAMBDA trade : Points(trade) * trade.qty, today)

\* The drawdown that a backtest reports is the worst fall of the equity, from
\* any moment to a later one, over all its sessions ("maximum peak-to-trough
\* drawdown observed", engine/metrics.py).  The equity of 0 that a backtest
\* begins with is one of the moments (tests/test_drawdown.py: "Initial capital
\* is the implicit peak"); see also PeakFromFirstTrade.
DrawdownIsWorst == \A s \in BtSymbols : IsWorstDrop(btEquity[s])

\* Positions already open when the cap is reached still close: the trades of
\* a day exceed the cap by less than one per symbol.
CapOvershoot ==
  MaxTradesPerDay > 0 =>
    LET today == {trade \in closed : trade.day = counters.day}
    IN  Cardinality(today) + Cardinality(DOMAIN positions)
          < MaxTradesPerDay + Cardinality(Symbols)

-----------------------------------------------------------------------------
(* What a doc says and the code does not do; see the README. *)

\* "The first trade establishes the initial peak" (engine/metrics.py): one
\* trade is no drawdown yet, whether it wins or loses.
PeakFromFirstTrade ==
  \A s \in BtSymbols : Len(btEquity[s].curve) = 1 => btEquity[s].worst = 0
=============================================================================
