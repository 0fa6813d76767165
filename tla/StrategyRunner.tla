--------------------------- MODULE StrategyRunner ---------------------------
(***************************************************************************)
(* engine/strategy_runner.py: the rules of the anchor breakout, as pure    *)
(* operators on a position.  The Orchestrator uses BuildOrderLevels and    *)
(* UpdateTrailing; the bar-driven engines use all of them.                 *)
(***************************************************************************)
EXTENDS Levels

CONSTANTS
  LockStep,        \* StrategyConfig.lock_step
  LockStepsCount,  \* StrategyConfig.lock_steps_count
  SquareOffTime    \* StrategyConfig.square_off_time

ASSUME RunnerAssumption ==
  /\ LockStep \in Nat \ {0}
  /\ LockStepsCount \in Nat
  /\ SquareOffTime \in Nat

\* StrategyPosition: lock is lock_idx, best is max_favorable_move.
Position == [side : Side, entry : Int, qty : Nat, tp : Int, sl : Int,
             lock : Int, best : Int]

OpenPosition(side, entry, level, qty) ==
  [side |-> side, entry |-> entry, qty |-> qty,
   tp |-> level.tp, sl |-> level.sl, lock |-> -1, best |-> 0]

\* Points by which price is ahead of the position's entry.
Favorable(pos, price) == Sign(pos.side) * (price - pos.entry)

\* Seeded fault: the "- 1" is forgotten.
LockIndexOffByOne(best) ==
  IF best \div LockStep < LockStepsCount - 1
  THEN best \div LockStep ELSE LockStepsCount - 1

\* new_idx of update_trailing_from_close, from the best move seen so far.
LockIndex(best) ==
  IF best \div LockStep < LockStepsCount
  THEN best \div LockStep - 1 ELSE LockStepsCount - 1

\* Seeded fault: the sign of the short side's locked profit on both sides.
LockedStopWrongSign(pos, idx) == pos.entry - Sign(pos.side) * (LockStep * idx)

\* The stop that lock step idx buys: break-even at 0, then one LockStep each.
LockedStop(pos, idx) == pos.entry + Sign(pos.side) * (LockStep * idx)

\* Seeded fault: the best move is overwritten by the last one.
UpdateTrailingLastMove(pos, close) ==
  LET best == Favorable(pos, close)
      idx  == LockIndex(best)
  IN  CASE best < LockStep -> pos
        [] best >= LockStep /\ idx <= pos.lock -> [pos EXCEPT !.best = best]
        [] best >= LockStep /\ idx > pos.lock ->
             [pos EXCEPT !.best = best, !.lock = idx, !.sl = LockedStop(pos, idx)]

\* update_trailing_from_close
UpdateTrailing(pos, close) ==
  LET best == IF Favorable(pos, close) > pos.best
              THEN Favorable(pos, close) ELSE pos.best
      idx  == LockIndex(best)
  IN  CASE Favorable(pos, close) < LockStep -> pos
        [] Favorable(pos, close) >= LockStep /\ idx <= pos.lock ->
             [pos EXCEPT !.best = best]
        [] Favorable(pos, close) >= LockStep /\ idx > pos.lock ->
             [pos EXCEPT !.best = best, !.lock = idx, !.sl = LockedStop(pos, idx)]

\* detect_entry: the side a bar enters on; a bar that crosses both triggers
\* enters on neither, because OHLC cannot tell which was first.
EntrySides(levels, bar) ==
  LET hit == {side \in Side : IF side = "LONG" THEN bar.high >= levels["LONG"].entry
                                               ELSE bar.low <= levels["SHORT"].entry}
  IN  IF hit = Side THEN {} ELSE hit

SlHit(pos, bar) == IF pos.side = "LONG" THEN bar.low <= pos.sl ELSE bar.high >= pos.sl

TpHit(pos, bar) == IF pos.side = "LONG" THEN bar.high >= pos.tp ELSE bar.low <= pos.tp

\* Seeded fault: the result goes out without its reason.
SlReasonMissing(pos) == "NONE"

\* _sl_reason
SlReason(pos) ==
  IF pos.lock >= 0 /\ Sign(pos.side) * (pos.sl - pos.entry) >= 0 THEN "TRAIL" ELSE "SL"

\* evaluate_exit: the set of results, empty when the position survives the
\* bar (sl_first_on_ambiguous_bar is TRUE in every configuration: the stop
\* is looked at first).  The exits are those carried into the bar: trailing
\* by the bar's own close comes after.
ExitOf(pos, bar) ==
  CASE SlHit(pos, bar) -> {[price |-> pos.sl, reason |-> SlReason(pos)]}
    [] ~SlHit(pos, bar) /\ TpHit(pos, bar) -> {[price |-> pos.tp, reason |-> "TP"]}
    [] ~SlHit(pos, bar) /\ ~TpHit(pos, bar) /\ bar.tod >= SquareOffTime ->
         {[price |-> bar.close, reason |-> "SQUARE_OFF"]}
    [] OTHER -> {}

\* StrategyTradeResult, as _result builds it.
Trade(s, pos, exit, bar) ==
  [sym |-> s, side |-> pos.side, entry |-> pos.entry, qty |-> pos.qty, lock |-> pos.lock,
   price |-> exit.price, reason |-> exit.reason, day |-> bar.day, tod |-> bar.tod]

\* points_pnl of a trade.
Points(trade) == Sign(trade.side) * (trade.price - trade.entry)
=============================================================================
