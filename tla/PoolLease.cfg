SPECIFICATION Spec
CONSTANTS
  c1 = c1  c2 = c2  c3 = c3  m1 = m1  m2 = m2  m3 = m3  u1 = u1  u2 = u2
  Client = {c1, c2}
  MacOf <- MCTwoMacs
  UniqueOf <- MCUnique
  UserOf <- MCTwoUsers
  Mac = {m1, m2, m3}
  User = {u1, u2}
  Ip = {1, 2}
  Lo = 1
  Hi = 2
  Lease = 1
  RowId = {d1, d2, d3}
  Page = 1
  EditsInCall = FALSE
  Fault = {}
  NULL = NULL
SYMMETRY IdSymmetry
PROPERTIES ReturnsToOwn ReservedKept TakesEldest RefusesOnlyFull
