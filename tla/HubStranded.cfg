SPECIFICATION Spec
CONSTANTS
  t1 = t1  t2 = t2  c1 = c1  c2 = c2
  k1 = k1  k2 = k2  k3 = k3  p1 = p1  p2 = p2
  None = None
  Tasks = {t1}
  Clients = {c1}
  Conns = {k1, k2}
  Proxies = {p1}
  Owner <- OwnerOneTwo
  Targets <- AllTargets
  Plan <- FullPlan
  MaxWork = 2
  Env = {"drop"}
INVARIANT QueuedHasWorkLeft
CHECK_DEADLOCK FALSE
