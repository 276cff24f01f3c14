CONSTANTS
  Caller = {a1, a2}
  Origin = {o1, o2}
  NoOrigin = NoOrigin
  MaxConnections = 2
  MaxKeepalive = 1
  MaxQueue = 1
  Command = {a1, a2}
  Worker = {w1}
  Closer = {x1}
  Starter = s
  Strand = strand
  MaxCommands = 1
  None = None
  Op = {a1, a2}
  Dials = 2
  Handshake = 2
  Borrower = {a1, a2, b3}
  Size = 2
  MaxWaiters = 2
  Builds = 3
  Interims = 1
SPECIFICATION MCSpec
SYMMETRY Symmetry
INVARIANTS
  PoolExact PoolEnds RedisExact ClientsKept ExchangeExact
PROPERTY MongoExact
CHECK_DEADLOCK FALSE
