\* Two intents, two attempts a call, three accepted orders, one restart.
SPECIFICATION Spec
CONSTANTS
  longStop = longStop
  shortStop = shortStop
  Intents <- PairIntents
  NoOrder = NoOrder
  Blank = Blank
  MaxAttempts = 2
  MaxOrders = 3
  MaxCrashes = 1
SYMMETRY Interchangeable
INVARIANTS
  TypeOK
  WriteAhead
  LostAckSurfaced
  TerminalIsTrue
PROPERTIES
  ImplementsOrderJournal
  NoRepostAfterAck
CHECK_DEADLOCK FALSE
