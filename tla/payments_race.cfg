\* Racing creates and webhooks over an index that trails.
SPECIFICATION Spec
CONSTANTS
  PayRequest = {1, 2, 3}
  PayKey = {k1, k2}
  BookingId = {b1}
  Kinds = {"full"}
  Amount = {a1}
  PayMaxInFlight = 3
  IndexLag = TRUE
  Signed = FALSE
  Nil = Nil
SYMMETRY PayKeySymmetry
INVARIANTS
  TypeOK
  StatusWasReported
PROPERTY ImplementsIdempotentCreate
