\* One session of the same instance: is the first trade no drawdown?
SPECIFICATION Spec
CONSTANTS
  nifty = nifty
  bank = bank
  Symbols <- OneSymbol
  BtSymbols <- OneSymbol
  Quantity = 2
  BtQuantity = 2
  MoneyPerPoint = 3
  RoundTripCost = 1
  MaxTradesPerDay = 2
  MaxDailyLoss = 6
  Opens = {20, 21}
  Quotes = {16, 20, 22, 24, 26}
  LastBar <- FiveBars
  Days = 1
  TickSize = 2
  TriggerDist = 2
  TpDist = 6
  SlDist = 2
  LockStep = 2
  LockStepsCount = 2
  SquareOffTime = 4
INVARIANTS
  PeakFromFirstTrade
CHECK_DEADLOCK FALSE
