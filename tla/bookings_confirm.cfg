\* Racing creates and confirms of one slot over an index that trails.
SPECIFICATION HSpec
CONSTANTS
  Request = {1, 2, 3, 4, 5}
  Key = {k1, k2}
  Staff = {s1}
  Instant = {0, 2}
  Ops = {"confirm", "cancel"}
  PageSize = 1
  MaxPages = 2
  MaxInFlight = 3
  IndexLag = TRUE
  Nil = Nil
SYMMETRY KeySymmetry
INVARIANT NoDoubleConfirmed
CONSTRAINTS
  OneOutcome
  Cast
