SPECIFICATION FairSpec
CONSTANTS
  Writers = {w1}
  LineKinds = {"message", "head", "tail", "noise", "long"}
  MessagesCap = 1
  ErrorsCap = 1
  BufferCap = 2
  StdinCap = 1
  StdoutCap = 1
  MaxLines = 3
  MaxWrites = 2
INVARIANTS NoFrameLost
PROPERTIES CloseCompletes
