\* Three racing requests of any kind over an index that trails.
SPECIFICATION FairSpec
CONSTANTS
  Request = {1, 2, 3}
  Key = {k1, k2}
  Staff = {s1}
  Instant = {0, 2}
  Ops = {"confirm", "cancel", "complete", "no_show"}
  PageSize = 1
  MaxPages = 2
  MaxInFlight = 3
  IndexLag = TRUE
  Nil = Nil
PROPERTIES
  ImplementsIdempotentCreate
  EveryRequestAnswered
INVARIANTS
  TypeOK
  KeysMatchBookings
  SameKeySameBooking
  RemindedOnce
  ConfirmedPassedGate
