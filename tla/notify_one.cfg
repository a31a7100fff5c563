\* A dispatcher that is called again and again, a list of one, an index that trails.
SPECIFICATION FairSpec
CONSTANTS
  Notif = {1, 2, 3}
  Dispatcher = {w1}
  Instant = {0, 1}
  Horizon = 1
  Limit = 1
  Faults = {"reject", "lost"}
  IndexLag = TRUE
  Nil = Nil
CHECK_DEADLOCK FALSE
PROPERTY DueIsSettled
