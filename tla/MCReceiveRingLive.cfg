SPECIFICATION FairSpec
CONSTANTS
  Reader = {r1}
  Owner = Owner
  Nobody = Nobody
  Call = {"read", "try", "guard"}
  MaxInbound = 2
  Chunk = 2
  ReadBudget = 1
  MaxWaiters = 1
  StreamLen = 3
PROPERTIES
  ResumesWhenDrained CloseReleasesReaders
