SPECIFICATION Spec
CONSTANTS
  c1 = c1  c2 = c2  c3 = c3  m1 = m1  m2 = m2  m3 = m3  u1 = u1  u2 = u2
  Client = {c1, c2, c3}
  MacOf <- MCShared
  UniqueOf <- MCSharedUnique
  UserOf <- MCOneUser
  Mac = {m1, m3}
  User = {u1, u2}
  Ip = {1, 2}
  Lo = 1
  Hi = 1
  Lease = 0
  RowId = {d1, d2, d3, d4}
  Page = 1
  EditsInCall = TRUE
  Fault = {"read", "write"}
  NULL = NULL
SYMMETRY SharedSymmetry
INVARIANTS TypeOK ActiveIsHeld
