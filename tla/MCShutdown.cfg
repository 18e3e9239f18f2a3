SPECIFICATION Spec
CONSTANTS
  Adapter = {mqtt, poller}
  MaxQueue = 2
INVARIANTS
  GracefulShutdown
CHECK_DEADLOCK FALSE
