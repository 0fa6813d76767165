---------------------------- MODULE MCBarReplay ----------------------------
(***************************************************************************)
(* An instance of BarReplay for TLC.                                       *)
(***************************************************************************)
EXTENDS BarReplay

CONSTANTS nifty, bank  \* symbols (model values)

OneSymbol == {nifty}
FiveBars == [s \in OneSymbol |-> 5]

\* bank has one bar a session: what it loses there keeps PAPER out of nifty.
TwoSymbols == {nifty, bank}
UnevenBars == [s \in TwoSymbols |-> IF s = nifty THEN 4 ELSE 1]
=============================================================================
