\* Two symbols, two sessions of up to four bars (one of bank) after the anchor,
\* an anchor off the tick: a long enters at 24, a short at 20 with its target at 14,
\* 16 locks once and 17 is a step back; one lost trade, or two trades, and the day is over.
SPECIFICATION Spec
CONSTANTS
  nifty = nifty
  bank = bank
  Symbols <- TwoSymbols
  BtSymbols <- TwoSymbols
  Quantity = 2
  BtQuantity = 2
  MoneyPerPoint = 3
  RoundTripCost = 1
  MaxTradesPerDay = 2
  MaxDailyLoss = 4
  Opens = {21}
  Quotes = {14, 16, 17, 22, 24, 26}
  LastBar <- UnevenBars
  Days = 2
  TickSize = 2
  TriggerDist = 2
  TpDist = 6
  SlDist = 2
  LockStep = 2
  LockStepsCount = 2
  SquareOffTime = 4
INVARIANTS
  TypeOK
  SameSession
  LossBounded
  LockedProfitKept
  FileIsRecoverable
  LockIsCurrent
  CountersMatchToday
  CapOvershoot
  DrawdownIsWorst
CHECK_DEADLOCK FALSE
