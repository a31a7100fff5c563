\* Two dispatchers that list the same row.
SPECIFICATION Spec
CONSTANTS
  Notif = {1}
  Dispatcher = {w1, w2}
  Instant = {0, 1}
  Horizon = 1
  Limit = 1
  Faults = {}
  IndexLag = FALSE
  Nil = Nil
CHECK_DEADLOCK FALSE
INVARIANT OneMessageEach
