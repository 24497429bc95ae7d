\* Four subtasks, two at a time, and a client that may leave.
SPECIFICATION Spec
CONSTANTS
  t1 = t1
  t2 = t2
  t3 = t3
  t4 = t4
  Task = {t1, t2, t3, t4}
  Dep <- Needs
  Position <- Listed
  MaxParallel = 2
  TheCrew = TheCrew
  Streamed = TRUE
INVARIANTS TypeOK SuccessBacked
PROPERTY KeepsOrder
CHECK_DEADLOCK FALSE
