\* Three updates of two senders, one restart, under fairness.
\* A stopped poller does nothing more: no deadlock check.
SPECIFICATION FairSpec
CONSTANTS
  owner = owner
  stranger = stranger
  Senders <- McSenders
  Authorized <- McAuthorized
  MaxUpdates = 3
  MaxCrashes = 1
INVARIANTS
  TypeOK
  AckedIsExecuted
  ExecutedInOrder
  PauseFollowsOrder
PROPERTIES
  ImplementsCommandQueue
  CommandsAreExecuted
CHECK_DEADLOCK FALSE
