SPECIFICATION FairSpec
CONSTANTS
  Styles = {"receive", "stream"}
  Bodies <- Says
  Result <- ResultFrame
  HostState <- StateFrame
  AskKinds <- AllAsks
  WireCap = 1
  RawCap = 1
  OutCap = 1
  MaxPrompts = 2
  MaxBody = 1
  MaxAsks = 1
  MaxFollowUps = 1
INVARIANTS ResponseIsOneTurn GrantedByTheHost
PROPERTIES ResponseEnds
CHECK_DEADLOCK FALSE
