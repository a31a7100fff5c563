\* More bookings than the overlap check reads pages of.
SPECIFICATION Spec
CONSTANTS
  Request = {1, 2, 3}
  Key = {k1, k2, k3}
  Staff = {s1}
  Instant = {0, 2, 4}
  Ops = {}
  PageSize = 1
  MaxPages = 1
  MaxInFlight = 1
  IndexLag = FALSE
  Nil = Nil
INVARIANT NoDoubleBooking
