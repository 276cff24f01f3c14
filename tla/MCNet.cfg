CONSTANTS
  Byte = {b1, b2}
  NoByte = NoByte
  RingBytes = 2
  MaxTotalBytes = 5
  MaxSegments = 2
  MaxMerged = 2
  Reader = {a1, a2}
  Owner = Owner
  Nobody = Nobody
  Call = {"read"}
  MaxInbound = 2
  Chunk = 1
  ReadBudget = 1
  MaxWaiters = 1
  StreamLen = 2
  Conn = {a1, a2}
  Thread = {t1, t2}
  ReactorOwner = Owner
  None = None
  Dial = {a1, a2}
  ConnectLimit = 1
  Peer = {a1, a2}
  Receiver = {v1}
  Capacity = 1
SPECIFICATION MCSpec
SYMMETRY Symmetry
INVARIANTS
  InboundExact NobodyStranded ListsExact NoLostTurn DialExact NoOrphan
  HandoffExact AcceptanceExact
PROPERTY QueueCorrect
CHECK_DEADLOCK FALSE
