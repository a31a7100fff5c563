\* Deliveries, redeliveries and API requests racing, with every fault.
SPECIFICATION Spec
CONSTANTS
  Request = {r1, r2, r3}
  Customer = {c1, c2}
  Phone = {p1, p2}
  IndexLag = TRUE
  Faults = TRUE
  p1 = p1
  p2 = p2
  book = book
  chat = chat
  blank = blank
  Msg <- Messages
  Sender <- SenderOf
  Text <- TextOf
  Named = {book, chat}
  Nil = Nil
SYMMETRY Symmetry
CHECK_DEADLOCK FALSE
INVARIANTS
  TypeOK
  OneConversation
  ProcessedOnce
  LossNeedsFailure
  DuplicateNeedsOverlap
PROPERTIES
  EnsureImplementsCreate
