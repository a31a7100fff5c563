\* A refund between the gate and the save.
SPECIFICATION ComposedSpec
CONSTANTS
  Request = {1, 2}
  Key = {k1}
  Staff = {s1}
  Instant = {0, 2}
  Ops = {"confirm"}
  PageSize = 2
  MaxPages = 1
  MaxInFlight = 1
  IndexLag = FALSE
  PayRequest = {1, 2, 3}
  PayKey = {q1}
  Kinds = {"full"}
  Amount = {a1}
  PayIndexLag = FALSE
  PayMaxInFlight = 1
  NoPrice = NoPrice
  Price = {NoPrice}
  GateLimit = 2
  Signed = TRUE
  Nil = Nil
PROPERTY ConfirmsWhilePaid
