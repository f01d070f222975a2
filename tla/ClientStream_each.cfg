SPECIFICATION FairSpec
CONSTANTS
  Styles = {"each"}
  Bodies <- Silent
  Result <- ResultFrame
  HostState <- StateFrame
  AskKinds <- NoAsks
  WireCap = 1
  RawCap = 1
  OutCap = 1
  MaxPrompts = 2
  MaxBody = 1
  MaxAsks = 0
  MaxFollowUps = 0
PROPERTIES EachQueryAnswered
CHECK_DEADLOCK FALSE
