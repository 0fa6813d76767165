\* One symbol, one restart: how many pairs does a day see?
SPECIFICATION Spec
CONSTANTS
  nifty = nifty
  gold = gold
  NoSymbol = NoSymbol
  Symbols <- OneSymbol
  Prices = {20, 22}
  TickSize = 1
  TriggerDist = 2
  TpDist = 4
  SlDist = 2
  LockStep = 2
  LockStepsCount = 2
  BarLen = 2
  TradingOpen = 0
  TradingClose = 3
  AnchorTime = 0
  CaptureWindow = 0
  NoNewTradeAfter = 2
  SquareOffTime = 3
  PreSquareoffBuffer = 1
  LastTod = 3
  Days = 1
  MaxCrashes = 1
  MaxTradesPerDay = 2
  MaxDailyLoss = 6
  RiskBudget = 4
  LotSize <- McLotSize
  MoneyPerPoint <- McMoneyPerPoint
  SizingSlDist <- McSizingSlDist
INVARIANTS
  OnePairPerDay
