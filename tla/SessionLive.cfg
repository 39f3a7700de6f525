SPECIFICATION FairSpec
CONSTANTS
  t1 = t1  t2 = t2  u1 = u1  u2 = u2
  Token = {t1}
  User = {u1, u2}
  UserOf <- MCOneSession
  Req = {r1, r2}
  Admin = {a1}
  Reaper = {w1}
  Expirer = {}
  Ip = {i1, i2}
  MaxClient = 2
  MaxUserClient = 2
  Fault = {}
  AllKey = AllKey
  NULL = NULL
PROPERTIES CallsReturn RequestsReturn DisconnectReleases ListsReturn
