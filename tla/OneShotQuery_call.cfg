SPECIFICATION FairQuerySpec
CONSTANTS
  Writers <- NoWriters
  LineKinds = {"message", "malformed", "result"}
  MessagesCap = 1
  ErrorsCap = 2
  BufferCap = 2
  StdinCap = 1
  StdoutCap = 1
  MaxLines = 2
  MaxWrites = 0
  RawCap = 1
  QErrorsCap = 2
  OutCap = 1
  ErrsCap = 1
  BidirectionalNeeds = TRUE
  MayCancel = TRUE
  MayCrash = TRUE
INVARIANTS EveryFrameDelivered FailureReported
PROPERTY QueryEnds
