SPECIFICATION MCSpec
CONSTANTS
  a = a
  b = b
  c = c
  r = r
  Calls <- MCCalls
  Tells <- MCTells
  Replies <- MCReplies
  Nobody = Nobody
  Lane <- MCLane
  LaneCap = 1
  ServiceWeight = 1
  ActorWeight = 1
  Session = {s1, s2}
  ServerCaller = {n1}
  MaxConnections = 1
  MaxInflight = 1
  Streaming = TRUE
CHECK_DEADLOCK FALSE
INVARIANTS
  OutstandingExact ClosedMeansUnsent SessionsExact CloseReachesSources
PROPERTY
  CallsDecided
