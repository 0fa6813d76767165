\* Two symbols, one day, one restart, pause and resume at any moment;
\* under fairness the day ends flat.
SPECIFICATION FairSpec
CONSTANTS
  nifty = nifty
  gold = gold
  NoSymbol = NoSymbol
  Symbols <- TwoSymbols
  Prices = {20, 22}
  TickSize = 1
  TriggerDist = 2
  TpDist = 4
  SlDist = 2
  LockStep = 2
  LockStepsCount = 2
  BarLen = 4
  TradingOpen = 0
  TradingClose = 3
  AnchorTime = 0
  CaptureWindow = 0
  NoNewTradeAfter = 2
  SquareOffTime = 3
  PreSquareoffBuffer = 1
  LastTod = 3
  Days = 1
  MaxCrashes = 1
  MaxTradesPerDay = 2
  MaxDailyLoss = 6
  RiskBudget = 4
  LotSize <- McLotSize
  MoneyPerPoint <- McMoneyPerPoint
  SizingSlDist <- McSizingSlDist
INVARIANTS
  TypeOK
  RestingOrdersArePaired
  ExposedOnce
  PairsAreLive
  DiskMirrorsPairs
  FlatAfterSquareOff
  FillsAccounted
PROPERTIES
  EndOfDayFlat
