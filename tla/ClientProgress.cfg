SPECIFICATION FewerSpec
CONSTANTS
  t1 = t1  t2 = t2  t3 = t3
  Tasks = {t1, t2, t3}
  QueueCap = 1
  MaxConns = 2
  MaxSent = 3
  Env = {"break"}
  None = None
INVARIANT OneMeasurement
PROPERTIES
  LostIsReplaced
  ServerNeverWaits
CHECK_DEADLOCK FALSE
