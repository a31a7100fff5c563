\* Two creates of one phone, each looking before the other has written.
SPECIFICATION Spec
CONSTANTS
  Request = {r1, r2}
  Customer = {c1, c2}
  Phone = {p1, p2}
  IndexLag = FALSE
  Faults = FALSE
  p1 = p1
  p2 = p2
  book = book
  chat = chat
  blank = blank
  Msg <- Messages
  Sender <- SenderOf
  Text <- TextOf
  Named = {book, chat}
  Nil = Nil
CHECK_DEADLOCK FALSE
INVARIANT PhoneIsUnique
