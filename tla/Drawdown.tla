------------------------------ MODULE Drawdown ------------------------------
(***************************************************************************)
(* engine/metrics.py: DrawdownTracker, the running statistics over closed  *)
(* trades.  An entry of the equity curve is its equity; the exit time that *)
(* labels it is left out, and so is max_drawdown_pct, a ratio of two       *)
(* fields.                                                                 *)
(***************************************************************************)
EXTENDS Integers, Sequences

\* cumulative_net, peak, max_drawdown_money, equity_curve
Tracker == [cumulative : Int, peak : Int, worst : Int, curve : Seq(Int)]

NewTracker == [cumulative |-> 0, peak |-> 0, worst |-> 0, curve |-> <<>>]

\* Seeded fault: every trade starts a new peak.
RecordLastPeak(tracker, net) ==
  LET cumulative == tracker.cumulative + net
      drop       == tracker.cumulative - cumulative
  IN  [cumulative |-> cumulative, peak |-> cumulative,
       worst |-> IF drop > tracker.worst THEN drop ELSE tracker.worst,
       curve |-> Append(tracker.curve, cumulative)]

\* record
Record(tracker, net) ==
  LET cumulative == tracker.cumulative + net
      peak       == IF cumulative > tracker.peak THEN cumulative ELSE tracker.peak
      drop       == peak - cumulative
  IN  [cumulative |-> cumulative, peak |-> peak,
       worst |-> IF drop > tracker.worst THEN drop ELSE tracker.worst,
       curve |-> Append(tracker.curve, cumulative)]

\* The equity after the first i trades.
Equity(tracker, i) == IF i = 0 THEN 0 ELSE tracker.curve[i]

\* What the worst drawdown is, by its definition over all pairs of moments.
IsWorstDrop(tracker) ==
  LET moments == 0 .. Len(tracker.curve)
  IN  /\ \A i, j \in moments :
           i <= j => Equity(tracker, i) - Equity(tracker, j) <= tracker.worst
      /\ \E i, j \in moments :
           i <= j /\ Equity(tracker, i) - Equity(tracker, j) = tracker.worst
=============================================================================
