CONSTANTS
  Chunk = 3
  MaxData = 2
  Calls = {q1, q2}
  AckedSends = {q3}
  PlainSends = {q4}
  MaxInflight = 2
  MaxHandlerItems = 1
  Nobody = none
  Visitor = {v1, v2}
  MaxGeneration = 3
  Frame = {f1, f2}
  Cancel = {c1}
  Session = {s1, s2}
  Id = {i1}
  MaxPlaces = 2
  MaxPublish = 1
  Parts = 2
  MaxPending = 1
  MaxFrames = 3
  MaxEvents = 2
  MaxChanges = 3
  Keys <- MCKeys
  MaxRegistrations = 2
  SizeMax = 7
SPECIFICATION MCSpec
SYMMETRY Symmetry
INVARIANTS
  HandshakeExact RequestsAccounted HookExact FramesAccounted HttpExact RequestsExact
PROPERTY CoreCorrect
CHECK_DEADLOCK FALSE
