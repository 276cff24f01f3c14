CONSTANTS
  Caller = {c1}
  Sizes = {0, 1, 2}
  Reason = {NoError}
  NoError = NoError
  Canceled = Canceled
  IoError = IoError
  NoByte = NoByte
  MaxOps = 2
  OutboundMax = 3
  RingCap = 1
  MaxMerged = 1
  MaxViews = 2
  MaxWaiters = 0
  WriteRounds = 2
  ByteBudget = 2
  MaxWrites = 3
SPECIFICATION Spec
INVARIANTS
  TypeOK
  ResponsibilityBounded
  ExactlyOnce
  DoneMeansSent
  WritesExact
PROPERTY FirstReasonWins
