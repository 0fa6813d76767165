\* One session of the same instance: do the two engines make the same trades?
SPECIFICATION Spec
CONSTANTS
  nifty = nifty
  bank = bank
  Symbols <- OneSymbol
  BtSymbols <- OneSymbol
  Quantity = 2
  BtQuantity = 2
  MoneyPerPoint = 3
  RoundTripCost = 1
  MaxTradesPerDay = 2
  MaxDailyLoss = 6
  Opens = {20, 21}
  Quotes = {16, 20, 22, 24, 26}
  LastBar <- FiveBars
  Days = 1
  TickSize = 2
  TriggerDist = 2
  TpDist = 6
  SlDist = 2
  LockStep = 2
  LockStepsCount = 2
  SquareOffTime = 4
INVARIANTS
  SameTrades
CHECK_DEADLOCK FALSE
