\* Twice the limit within the length of one window.
SPECIFICATION Spec
CONSTANTS
  Request = {r1, r2, r3, r4, r5}
  Client = {c1, c2}
  Max = 2
  Window = 2
  Lag = 1
  MaxTime = 3
  Nil = Nil
SYMMETRY Symmetry
CHECK_DEADLOCK FALSE
INVARIANTS
  SlidingWindow
