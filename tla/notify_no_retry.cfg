\* A message the provider rejects.
SPECIFICATION FairSpec
CONSTANTS
  Notif = {1}
  Dispatcher = {w1}
  Instant = {0, 1}
  Horizon = 1
  Limit = 1
  Faults = {"reject"}
  IndexLag = FALSE
  Nil = Nil
CHECK_DEADLOCK FALSE
PROPERTY FailedIsRetried
