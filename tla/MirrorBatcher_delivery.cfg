SPECIFICATION FairSpec
CONSTANTS
  QueueCap = 2
  MaxAttempts = 2
  MaxBatches = 3
  MaxResults = 2
  EntryCount <- MCEntryCount
INVARIANTS ResultAfterMirror AtMostOneLeftBehind
PROPERTIES DeliversInOrder  
