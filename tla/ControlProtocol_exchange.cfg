SPECIFICATION FairSpec
CONSTANTS
  Calls = {c1, c2}
  Requests = {r1}
  ErrorsCap = 1
  RawCap = 1
  MaxFrames = 3
  MaxErrors = 1
INVARIANTS AnswerNotLost NoRequestDropped FailureNamesResult
PROPERTIES FailsFast EveryRequestHandled
