\* A create that succeeded is retried after its booking ended.
SPECIFICATION Spec
CONSTANTS
  PayRequest = {1, 2}
  PayKey = {k1, k2}
  BookingId = {b1}
  Kinds = {"full"}
  Amount = {a1}
  PayMaxInFlight = 1
  IndexLag = FALSE
  Signed = TRUE
  Nil = Nil
PROPERTY ReplayNotRejected
