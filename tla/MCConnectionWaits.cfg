CONSTANTS
  Caller = {c1, c2}
  Sizes = {1}
  Reason = {NoError}
  NoError = NoError
  Canceled = Canceled
  IoError = IoError
  NoByte = NoByte
  MaxOps = 1
  OutboundMax = 1
  RingCap = 1
  MaxMerged = 1
  MaxViews = 2
  MaxWaiters = 1
  WriteRounds = 1
  ByteBudget = 2
  MaxWrites = 2
SPECIFICATION FairSpec
INVARIANTS
  NobodyForgotten
PROPERTIES
  CloseCompletes
  WaitersServed
