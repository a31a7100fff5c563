\* Racing patches, deletes and pages over reads that may be behind.
SPECIFICATION Spec
CONSTANTS
  Item = {1, 2}
  Request = {r1, r2, r3}
  Reader = {c1}
  PageSize = 1
  MaxInFlight = 2
  ReplicaLag = TRUE
  Nil = Nil
SYMMETRY Symmetry
CHECK_DEADLOCK FALSE
INVARIANTS
  TypeOK
  LostOnlyToOverlap
  ListingComplete
