\* Racing dispatchers, every fault, an index that trails.
SPECIFICATION Spec
CONSTANTS
  Notif = {1, 2}
  Dispatcher = {w1, w2}
  Instant = {0, 1}
  Horizon = 1
  Limit = 2
  Faults = {"reject", "lost", "read", "save", "kill"}
  IndexLag = TRUE
  Nil = Nil
SYMMETRY DispatcherSymmetry
CHECK_DEADLOCK FALSE
INVARIANTS
  TypeOK
  SentWasDelivered
  AtMostOnce
PROPERTY SettledSticks
