\* A report delivered again after a newer one was applied.
SPECIFICATION Spec
CONSTANTS
  PayRequest = {1, 2, 3}
  PayKey = {k1, k2}
  BookingId = {b1}
  Kinds = {"full"}
  Amount = {a1}
  PayMaxInFlight = 1
  IndexLag = FALSE
  Signed = TRUE
  Nil = Nil
PROPERTY SettlementSticks
