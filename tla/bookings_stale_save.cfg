\* A confirm and a cancel of one booking race between Get and Save.
SPECIFICATION Spec
CONSTANTS
  Request = {1, 2, 3}
  Key = {k1}
  Staff = {s1}
  Instant = {0, 2}
  Ops = {"confirm", "cancel"}
  PageSize = 2
  MaxPages = 2
  MaxInFlight = 2
  IndexLag = FALSE
  Nil = Nil
PROPERTY LegalTransitions
