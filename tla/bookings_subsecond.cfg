\* A window that ends half a second into the second another booking starts at.
SPECIFICATION Spec
CONSTANTS
  Request = {1, 2}
  Key = {k1, k2}
  Staff = {s1}
  Instant = {0, 2, 3, 4}
  Ops = {}
  PageSize = 1
  MaxPages = 2
  MaxInFlight = 1
  IndexLag = FALSE
  Nil = Nil
INVARIANT NoDoubleBooking
