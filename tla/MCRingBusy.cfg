SPECIFICATION FairSpec
CONSTANTS
  Reader = {r1}
  Owner = Owner
  Nobody = Nobody
  Call = {"read", "try", "guard"}
  MaxInbound = 2
  Chunk = 1
  ReadBudget = 1
  MaxWaiters = 1
  StreamLen = 2
PROPERTIES
  BusyReaderServed
