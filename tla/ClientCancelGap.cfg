SPECIFICATION Spec
CONSTANTS
  t1 = t1  t2 = t2  t3 = t3
  Tasks = {t1}
  QueueCap = 1
  MaxConns = 1
  MaxSent = 1
  Env = {}
  None = None
INVARIANTS
  CancelHonoured
CHECK_DEADLOCK FALSE
