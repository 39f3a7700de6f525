SPECIFICATION Spec
CONSTANTS
  t1 = t1  t2 = t2  u1 = u1  u2 = u2
  Token = {t1, t2}
  User = {u1, u2}
  UserOf <- MCTwoUsers
  Req = {r1, r2}
  Admin = {a1}
  Reaper = {w1}
  Expirer = {e1}
  Ip = {i1, i2}
  MaxClient = 2
  MaxUserClient = 1
  Fault = {"group", "hijack", "link", "sleepers"}
  AllKey = AllKey
  NULL = NULL
SYMMETRY MCSymmetry
INVARIANTS TypeOK PublishedIsOpen IpExclusive SlotAccount
PROPERTY ImplementsAdmission
\* A list that shows a session which sleeps leaves its mux locked, and the next list stops
\* with sessMux locked: the system does stop.
CHECK_DEADLOCK FALSE
