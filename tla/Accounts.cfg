SPECIFICATION Spec
CONSTANTS
  Requests = {r1, r2}
  Tokens = {k1, k2}
  MaxAccounts = 3
  MaxInvites = 1
  MaxPassword = 2
  None = None
  Env = {"store", "expire", "restart"}
SYMMETRY RequestSymmetry
INVARIANTS
  TypeOK
  NoSessionOutlivesRevocation
  OneChangePerPassword
  InviteOnce
CHECK_DEADLOCK FALSE
