SPECIFICATION Spec
CONSTANTS
  Login = {l1, l2, l3}
  User = {u1}
  OtpUser = {u1}
  Temp = {x1, x2}
  Window = 2
  OtpExpire = 4
  MaxTime = 6
  MaxSess = 3
  NULL = NULL
SYMMETRY Symmetric
INVARIANTS TypeOK SessionsNeedCodes
PROPERTY TempUsedUp
