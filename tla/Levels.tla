------------------------------- MODULE Levels -------------------------------
(***************************************************************************)
(* strategy/levels.py: the entry, stop-loss and take-profit levels of the  *)
(* two legs of an anchor breakout.                                         *)
(*                                                                         *)
(* Prices are integers, in paise (0.01): Dhan quotes decode to multiples   *)
(* of a paisa once rounded, so round(x, 2) changes nothing, and TickSize   *)
(* is the exchange tick (0.05 = 5 paise).  What rounding to a tick does is *)
(* modelled, with Python's ties-to-even.                                   *)
(***************************************************************************)
EXTENDS Integers

CONSTANTS
  TickSize,     \* StrategyConfig.tick_size
  TriggerDist,  \* StrategyConfig.trigger_dist
  TpDist,       \* StrategyConfig.tp_dist
  SlDist        \* StrategyConfig.sl_dist

ASSUME LevelsAssumption ==
  /\ TickSize \in Nat \ {0}
  /\ TriggerDist \in Nat
  /\ TpDist \in Nat
  /\ SlDist \in Nat

Side == {"LONG", "SHORT"}

Opposite(side) == IF side = "LONG" THEN "SHORT" ELSE "LONG"

\* The direction in which a side profits.
Sign(side) == IF side = "LONG" THEN 1 ELSE -1

Level == [entry : Int, sl : Int, tp : Int]

\* round_to_tick: the nearest multiple of TickSize, ties to the even one.
RoundToTick(price) ==
  LET q    == price \div TickSize
      rest == price % TickSize
      up   == \/ 2 * rest > TickSize
              \/ 2 * rest = TickSize /\ q % 2 = 1
  IN  IF up THEN (q + 1) * TickSize ELSE q * TickSize

\* Seeded fault: the exits hang off the anchor.
LegLevelsFromAnchor(anchor, side) ==
  [entry |-> RoundToTick(anchor + Sign(side) * TriggerDist),
   sl    |-> RoundToTick(anchor - Sign(side) * SlDist),
   tp    |-> RoundToTick(anchor + Sign(side) * TpDist)]

\* One leg of build_order_levels: both exits hang off the ROUNDED entry.
LegLevels(anchor, side) ==
  LET entry == RoundToTick(anchor + Sign(side) * TriggerDist)
  IN  [entry |-> entry,
       sl    |-> RoundToTick(entry - Sign(side) * SlDist),
       tp    |-> RoundToTick(entry + Sign(side) * TpDist)]

\* build_order_levels (the rounded anchor it also returns is only logged).
BuildOrderLevels(anchor) == [side \in Side |-> LegLevels(anchor, side)]
=============================================================================
