\* A create that succeeded is retried with its key.
SPECIFICATION Spec
CONSTANTS
  Request = {1, 2}
  Key = {k1}
  Staff = {s1}
  Instant = {0, 2}
  Ops = {}
  PageSize = 2
  MaxPages = 2
  MaxInFlight = 1
  IndexLag = FALSE
  Nil = Nil
PROPERTY ReplayNotRejected
