SPECIFICATION FairSpec
CONSTANTS
  d1 = d1  b1 = b1  b2 = b2
  Dtls <- MCDtls
  Payload <- MCPayload
  Cap = 1
  Jobs = 1
  Tap = TRUE
  NULL = NULL
INVARIANTS TypeOK Exclusive KindsKept
PROPERTY TunnelEnds
\* Everything may have ended.
CHECK_DEADLOCK FALSE
