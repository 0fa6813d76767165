--------------------------- MODULE MCOrchestrator ---------------------------
(***************************************************************************)
(* Instances of Orchestrator for TLC: the per-symbol constants, which a    *)
(* .cfg cannot write, and the small sets of quotes.                        *)
(***************************************************************************)
EXTENDS OrchestratorRefinement

CONSTANTS nifty, gold  \* two symbols (model values)

OneSymbol  == {nifty}
TwoSymbols == {nifty, gold}

\* The second symbol trades in lots of two.
McLotSize == [s \in Symbols |-> IF s = nifty THEN 1 ELSE 2]
McMoneyPerPoint == [s \in Symbols |-> 1]
McSizingSlDist  == [s \in Symbols |-> IF s = nifty THEN 0 ELSE 1]

\* Lots of two, sized for a stop closer than the strategy's.
TwoLots      == [s \in Symbols |-> 2]
TightSlDist  == [s \in Symbols |-> 3]
=============================================================================
