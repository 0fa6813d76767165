\* The same instance: is a /kill executed again after a restart?
\* A stopped poller does nothing more: no deadlock check.
SPECIFICATION Spec
CONSTANTS
  owner = owner
  stranger = stranger
  Senders <- McSenders
  Authorized <- McAuthorized
  MaxUpdates = 3
  MaxCrashes = 1
INVARIANTS
  KillOnce
CHECK_DEADLOCK FALSE
