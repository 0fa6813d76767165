--------------------------- MODULE BacktestEngine ---------------------------
(***************************************************************************)
(* backtest/backtest_engine.py: _run_session over M5 bars, one row a step, *)
(* for every symbol's own file.  The first exit of a session ends it; what *)
(* is open after its last row is dropped.  _summarize walks the trades of  *)
(* a symbol in the order of its sessions once they are all replayed; here  *)
(* each is recorded as it closes, which is the same order.                 *)
(***************************************************************************)
EXTENDS StrategyRunner, Dicts, Drawdown

CONSTANTS
  BtSymbols,      \* the symbols that are backtested
  BtQuantity,     \* --quantity
  MoneyPerPoint,  \* --money-per-point
  RoundTripCost   \* what the cost model charges a trade (0: none attached)

ASSUME BacktestAssumption ==
  /\ BtQuantity \in Nat
  /\ MoneyPerPoint \in Nat
  /\ RoundTripCost \in Nat

VARIABLES
  btPosition,  \* position, by symbol
  btTrades,    \* trades, over all symbols and sessions
  btEquity     \* dd of _summarize, by symbol

backtest == <<btPosition, btTrades, btEquity>>

BacktestInit ==
  /\ btPosition = EmptyDict
  /\ btTrades = {}
  /\ btEquity = [s \in BtSymbols |-> NewTracker]

\* Seeded fault: the position of the last session is kept.
StartSessionKept == UNCHANGED backtest

\* _run_session starts: position = None, whatever the last session left.
StartSession == btPosition' = EmptyDict /\ UNCHANGED <<btTrades, btEquity>>

\* The session of s on day returned at its first exit.
SessionOver(s, day) == \E trade \in btTrades : trade.sym = s /\ trade.day = day

\* _apply_money, less the costs: net of _summarize.
Net(trade) == Points(trade) * trade.qty * MoneyPerPoint - RoundTripCost

\* The loop body of _summarize for one trade.
Summarize(s, trade) == btEquity' = [btEquity EXCEPT ![s] = Record(@, Net(trade))]

\* The loop body of _run_session for one row.
SessionBar(s, levels, bar) ==
  \/ /\ SessionOver(s, bar.day)
     /\ UNCHANGED backtest
  \/ /\ ~SessionOver(s, bar.day) /\ s \notin DOMAIN btPosition
     /\ IF EntrySides(levels, bar) = {} THEN UNCHANGED btPosition
        ELSE \E side \in EntrySides(levels, bar) :
               btPosition' = Put(btPosition, s, OpenPosition(side, levels[side].entry,
                                                             levels[side], BtQuantity))
     /\ UNCHANGED <<btTrades, btEquity>>
  \/ /\ ~SessionOver(s, bar.day) /\ s \in DOMAIN btPosition
     /\ \/ /\ ExitOf(btPosition[s], bar) = {}
           /\ btPosition' = Put(btPosition, s, UpdateTrailing(btPosition[s], bar.close))
           /\ UNCHANGED <<btTrades, btEquity>>
        \/ \E exit \in ExitOf(btPosition[s], bar) :
             /\ btTrades' = btTrades \cup {Trade(s, btPosition[s], exit, bar)}
             /\ Summarize(s, Trade(s, btPosition[s], exit, bar))
             /\ btPosition' = Del(btPosition, s)
=============================================================================
