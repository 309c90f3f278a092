SPECIFICATION MCSpec
CONSTANTS
  None = None
  r1 = r1  r2 = r2 mine = mine  other = other
  Requests = {r1, r2}
  Bots = {mine, other}
  Followed = mine
  AtStart = {other}
  MaxUpdate = 2
  MaxStarts = 2
  MaxTries = 1
  Env = {"store", "stop", "crash"}
  Faults = {"write", "timeout"}
INVARIANTS
  OnePoller
  HandledOnce
  OneLostPerCut
PROPERTIES
  SoleRequestSettles
  EveryUpdateHandled
  EveryRequestAnswered
CHECK_DEADLOCK FALSE
