\* One symbol, one process over two days.
SPECIFICATION Spec
CONSTANTS
  nifty = nifty
  gold = gold
  NoSymbol = NoSymbol
  Symbols <- OneSymbol
  Prices = {17, 20, 23, 26}
  TickSize = 3
  TriggerDist = 2
  TpDist = 7
  SlDist = 4
  LockStep = 3
  LockStepsCount = 2
  BarLen = 2
  TradingOpen = 1
  TradingClose = 6
  AnchorTime = 2
  CaptureWindow = 1
  NoNewTradeAfter = 4
  SquareOffTime = 6
  PreSquareoffBuffer = 1
  LastTod = 6
  Days = 2
  MaxCrashes = 0
  MaxTradesPerDay = 2
  MaxDailyLoss = 6
  RiskBudget = 4
  LotSize <- McLotSize
  MoneyPerPoint <- McMoneyPerPoint
  SizingSlDist <- McSizingSlDist
INVARIANTS
  SquareOffEveryDay
