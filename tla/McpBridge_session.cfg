SPECIFICATION FairBridgeSpec
CONSTANTS
  Ids = {i1}
  MaxMessages = 3
  MaxUnderWay = 2
INVARIANTS NobodyWaitsOnTheDead OneSessionAtATime
PROPERTIES CloseReleasesWaiters
