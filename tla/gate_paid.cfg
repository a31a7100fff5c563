\* A create and a confirm race with a payment, its webhooks and price changes.
SPECIFICATION ComposedSpec
CONSTANTS
  Request = {1, 2}
  Key = {k1}
  Staff = {s1}
  Instant = {0, 2}
  Ops = {"confirm"}
  PageSize = 2
  MaxPages = 1
  MaxInFlight = 1
  IndexLag = FALSE
  PayRequest = {1, 2}
  PayKey = {q1}
  Kinds = {"full", "deposit"}
  Amount = {a1}
  PayIndexLag = TRUE
  PayMaxInFlight = 1
  NoPrice = NoPrice
  Price = {NoPrice, a1}
  GateLimit = 2
  Signed = FALSE
  Nil = Nil
INVARIANT ConfirmedWasPaid
