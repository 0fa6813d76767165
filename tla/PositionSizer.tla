--------------------------- MODULE PositionSizer ---------------------------
(***************************************************************************)
(* risk/position_sizer.py and Orchestrator._size_for: how many units one   *)
(* order leg may carry.                                                    *)
(***************************************************************************)
EXTENDS Integers

CONSTANTS
  RiskBudget,   \* capital * max_risk_pct / 100
  LotSize,      \* _SymbolMeta.lot_size, by symbol
  MoneyPerPoint,\* _SymbolMeta.money_per_point, by symbol
  SizingSlDist  \* _SymbolMeta.sl_dist, by symbol; 0 when the entry has none

\* Seeded fault: per_lot_risk is the risk of one contract.
SizeByContract(slDist, perPoint, lotSize) ==
  IF RiskBudget <= 0 \/ slDist <= 0 \/ perPoint <= 0 \/ lotSize <= 0 THEN 0
  ELSE (RiskBudget \div (slDist * perPoint)) * lotSize

\* PositionSizer.size: whole lots within the budget, 0 when not even one fits.
Size(slDist, perPoint, lotSize) ==
  IF RiskBudget <= 0 \/ slDist <= 0 \/ perPoint <= 0 \/ lotSize <= 0 THEN 0
  ELSE (RiskBudget \div (slDist * perPoint * lotSize)) * lotSize

\* The stop distance that s is sized for: "meta.sl_dist or self.config.sl_dist".
SizingDistance(s, configSlDist) ==
  IF SizingSlDist[s] = 0 THEN configSlDist ELSE SizingSlDist[s]

\* Orchestrator._size_for with a sizer attached, as run_dhan.py always does;
\* without one the order is one lot, whatever it risks.
SizeFor(s, configSlDist) ==
  Size(SizingDistance(s, configSlDist), MoneyPerPoint[s], LotSize[s])
=============================================================================
