SPECIFICATION WriterSpec
CONSTANTS
  FreshBase = 100
  MaxCost = 8
  PageSizes = {2}
INVARIANTS ReadsTheConversation AnswersFollowCalls ForkReadsTheSame StoreShowsNoOther
CHECK_DEADLOCK FALSE
