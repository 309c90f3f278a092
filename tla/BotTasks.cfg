SPECIFICATION FairSpec
CONSTANTS
  Chats = {u1}
  None = None
  Messages <- MCMessages
  Chat <- MCChat
  MaxCommands = 4
  Slots = 2
  TextSlots = 1
  Env = {"submit", "cancel", "stop"}
INVARIANTS
  OneTaskPerUser
  OneCancelInFlight
  TextSlotsExact
PROPERTIES
  SentInOrder
  NoAddAfterWait
  RunReturns
CHECK_DEADLOCK FALSE
