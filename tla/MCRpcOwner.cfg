CONSTANTS
  Caller = {c1, c2}
  Endpoint = {e1}
  p1 = p1
  Peer = {p1}
  PeerOf <- OnePeer
  Greater = {p1}
  Link = {l1, l2}
  None = none
  MaxSessions = 2
  MaxConnections = 1
SPECIFICATION Spec
SYMMETRY Symmetry
INVARIANTS OwnerBounded OwnerSettles
CHECK_DEADLOCK FALSE
