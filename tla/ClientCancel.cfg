SPECIFICATION Spec
CONSTANTS
  t1 = t1  t2 = t2  t3 = t3
  Tasks = {t1, t2, t3}
  QueueCap = 1
  MaxConns = 1
  MaxSent = 3
  Env = {"break", "stop", "timeout"}
  None = None
SYMMETRY TaskSymmetry
INVARIANTS
  QueuedCancelHonoured
PROPERTIES
  UntouchedByOthers
CHECK_DEADLOCK FALSE
