SPECIFICATION Spec
CONSTANTS
  Login = {l1, l2}
  User = {u1}
  NoUser = NoUser
  Ip = {a1}
  Whitelist = {}
  AntiBruteForce = TRUE
  Max <- MCMax
  LockTime <- MCLock
  ResetTime <- MCReset
  Expiration = 3
  MaxTime = 4
  MaxCount = 6
  NULL = NULL
SYMMETRY Symmetric
INVARIANTS TypeOK LockIffLimit AttemptsBounded
PROPERTY LockKept
