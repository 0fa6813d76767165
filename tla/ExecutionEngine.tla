-------------------------- MODULE ExecutionEngine --------------------------
(***************************************************************************)
(* engine/execution_engine.py: the bar-driven PAPER executor.  One call of *)
(* on_bar is one step; GuardRails sit in front of an entry.                *)
(*                                                                         *)
(* closed_trades is a set: a trade is named by its symbol, day and slot.   *)
(* The rejections are counted, their texts are left out.                   *)
(***************************************************************************)
EXTENDS StrategyRunner, Dicts

CONSTANTS
  Symbols,          \* the symbols of the session
  Quantity,         \* the quantity the driver passes
  MaxTradesPerDay,  \* GuardRails.max_trades_per_day
  MaxDailyLoss      \* abs(GuardRails.max_daily_loss)

ASSUME EngineAssumption ==
  /\ Quantity \in Nat
  /\ MaxTradesPerDay \in Nat
  /\ MaxDailyLoss \in Nat

VARIABLES
  positions,  \* positions
  closed,     \* closed_trades
  counters,   \* current_day, day_pnl, day_trades and rejections
  file        \* execution_state.json

engine == <<positions, closed, counters, file>>

Counters == [day : Nat, pnl : Int, trades : Nat, rejections : Nat]

TradeRecord ==
  [sym : Symbols, side : Side, entry : Int, qty : Nat, lock : Int, price : Int,
   reason : {"SL", "TRAIL", "TP", "SQUARE_OFF"}, day : Nat, tod : Nat]

EngineTypeOK ==
  /\ IsDict(positions, Symbols, Position)
  /\ closed \subseteq TradeRecord
  /\ counters \in Counters
  /\ file = [positions |-> file.positions, closed |-> file.closed,
             counters |-> file.counters]
  /\ IsDict(file.positions, Symbols, Position)
  /\ file.closed \subseteq TradeRecord
  /\ file.counters \in Counters

EngineInit ==
  /\ positions = EmptyDict
  /\ closed = {}
  /\ counters = [day |-> 0, pnl |-> 0, trades |-> 0, rejections |-> 0]
  /\ file = [positions |-> positions, closed |-> closed, counters |-> counters]

\* Seeded fault: a new day keeps the counters of the old one.
KeptCounters(bar) == [counters EXCEPT !.day = bar.day]

\* _roll_day_if_needed
RolledCounters(bar) ==
  IF counters.day = bar.day THEN counters
  ELSE [day |-> bar.day, pnl |-> 0, trades |-> 0, rejections |-> 0]

\* Seeded fault: validate_trade_count admits one trade too many.
EntryAllowedOffByOne(bar) ==
  /\ RolledCounters(bar).trades <= MaxTradesPerDay
  /\ RolledCounters(bar).pnl > -MaxDailyLoss

\* validate_trade_count and validate_daily_loss
EntryAllowed(bar) ==
  /\ RolledCounters(bar).trades < MaxTradesPerDay
  /\ RolledCounters(bar).pnl > -MaxDailyLoss

\* _persist
Persist == file' = [positions |-> positions', closed |-> closed', counters |-> counters']

\* _maybe_enter, turned away by the guard rails: _record_rejection.
Reject(s, bar) ==
  /\ s \notin DOMAIN positions /\ ~EntryAllowed(bar)
  /\ counters' = [RolledCounters(bar) EXCEPT !.rejections = @ + 1]
  /\ UNCHANGED <<positions, closed>>
  /\ Persist

\* _maybe_enter, with a position to open ...
Enter(s, levels, bar) ==
  /\ s \notin DOMAIN positions /\ EntryAllowed(bar)
  /\ \E side \in EntrySides(levels, bar) :
       positions' = Put(positions, s,
                        OpenPosition(side, levels[side].entry, levels[side], Quantity))
  /\ counters' = RolledCounters(bar)
  /\ UNCHANGED closed
  /\ Persist

\* ... and with nothing to do: only the day may have rolled, unpersisted.
StayFlat(s, levels, bar) ==
  /\ s \notin DOMAIN positions /\ EntryAllowed(bar)
  /\ EntrySides(levels, bar) = {}
  /\ counters' = RolledCounters(bar)
  /\ UNCHANGED <<positions, closed, file>>

\* _evaluate_open, with an exit.
Exit(s, bar) ==
  /\ s \in DOMAIN positions
  /\ \E exit \in ExitOf(positions[s], bar) :
       LET trade == Trade(s, positions[s], exit, bar)
       IN  /\ closed' = closed \cup {trade}
           /\ counters' = [RolledCounters(bar) EXCEPT
                             !.pnl = @ + Points(trade) * trade.qty,
                             !.trades = @ + 1]
  /\ positions' = Del(positions, s)
  /\ Persist

\* Seeded fault: a stop that moved is not persisted.
HoldUnsaved(s, bar) ==
  /\ s \in DOMAIN positions /\ ExitOf(positions[s], bar) = {}
  /\ positions' = Put(positions, s, UpdateTrailing(positions[s], bar.close))
  /\ counters' = RolledCounters(bar)
  /\ UNCHANGED <<closed, file>>

\* _evaluate_open, without one: the close trails the stop for the next bar,
\* and only a stop that moved is persisted.
Hold(s, bar) ==
  /\ s \in DOMAIN positions /\ ExitOf(positions[s], bar) = {}
  /\ positions' = Put(positions, s, UpdateTrailing(positions[s], bar.close))
  /\ counters' = RolledCounters(bar)
  /\ UNCHANGED closed
  /\ IF positions'[s].sl # positions[s].sl THEN Persist ELSE UNCHANGED file

OnBar(s, levels, bar) ==
  \/ Reject(s, bar)
  \/ Enter(s, levels, bar)
  \/ StayFlat(s, levels, bar)
  \/ Exit(s, bar)
  \/ Hold(s, bar)
=============================================================================
