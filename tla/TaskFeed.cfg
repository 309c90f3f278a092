SPECIFICATION MCSpec
CONSTANTS
  t1 = t1  c1 = c1  c2 = c2  x = x  y = y
  Tasks = {t1}
  Clients = {c1, c2}
  Targets <- BothTargets
  Followed = t1
  Reporter = c1
  Keys = {x, y}
  Limit = 1
  MaxRows = 1
  Room = 1
  MaxUnsure = 1
INVARIANTS
  FeedTypeOK
  RowsAgreeAcrossCrashes
  EndsAreTrue
  QuotaKept
PROPERTIES
  TerminalIsFinal
  RestartEndsEveryTask
  PageOnlyAdvances
  EndIsLearnt
