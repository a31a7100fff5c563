\* Racing requests of any kind over an index that trails, sorts by text and is cut.
SPECIFICATION HSpec
CONSTANTS
  Request = {1, 2, 3}
  Key = {k1, k2}
  Staff = {s1}
  Instant = {0, 2, 3}
  Ops = {"confirm", "cancel", "complete"}
  PageSize = 1
  MaxPages = 1
  MaxInFlight = 3
  IndexLag = TRUE
  Nil = Nil
SYMMETRY KeySymmetry
PROPERTY ImplementsCalendar
CONSTRAINT OneOutcome
