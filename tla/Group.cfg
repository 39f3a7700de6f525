SPECIFICATION Spec
CONSTANTS
  Conn = {c1}
  Host <- MCHost
  Word <- MCWord
  Net <- MCNet
  Route <- MCRoute
  GroupForm <- MCGroupForm
  PolicyForm <- MCPolicyForm
  MaxPort = 65535
  MaxEdits = 2
  NULL = NULL
INVARIANTS TypeOK Stable DnsReachable DefaultRoute FirstMatch
\* The group may be gone, and no edit left.
CHECK_DEADLOCK FALSE
