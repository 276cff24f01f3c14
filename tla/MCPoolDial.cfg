SPECIFICATION Spec
CONSTANTS
  Caller = {c1, c2}
  Origin = {o1, o2}
  NoOrigin = NoOrigin
  MaxConnections = 2
  MaxKeepalive = 1
  MaxQueue = 1
INVARIANT
  DialEntryStays
