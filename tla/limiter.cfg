\* Requests of two clients race for the locks while the clock goes on.
SPECIFICATION Spec
CONSTANTS
  Request = {r1, r2, r3, r4, r5}
  Client = {c1, c2}
  Max = 2
  Window = 2
  Lag = 1
  MaxTime = 5
  Nil = Nil
SYMMETRY Symmetry
CHECK_DEADLOCK FALSE
INVARIANTS
  TypeOK
  PassesBounded
  RefusalEarned
