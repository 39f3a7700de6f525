SPECIFICATION FairSpec
CONSTANTS
  Worker = {w1, w2}
  Dest = {d1}
  Buf = {b1, b2, b3}
  Interval = 1
  Cap = 1
  Limit = 2
  MaxTime = 1
  MaxMade = 4
  NULL = NULL
INVARIANTS TypeOK KeysIntact Conserved RecordsBounded
PROPERTY Written
