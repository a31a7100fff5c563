\* Two creates of one slot race between the overlap check and the transaction.
SPECIFICATION Spec
CONSTANTS
  Request = {1, 2}
  Key = {k1, k2}
  Staff = {s1}
  Instant = {0, 2}
  Ops = {}
  PageSize = 2
  MaxPages = 2
  MaxInFlight = 2
  IndexLag = FALSE
  Nil = Nil
INVARIANT NoDoubleBooking
