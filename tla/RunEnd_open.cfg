SPECIFICATION FairSpec
CONSTANTS
  Tasks = {t1, t2}
  TaskTypes <- McTaskTypes
  DeferringTaskTypes <- McDeferring
  Statuses <- McStatuses
  TerminalStatuses <- McTerminal
  MaxTrackedTasks = 1
  BidirectionalNeeds = TRUE
  CeilingOn = TRUE
  MaxFrames = 4
  MaxPrompts = 1
PROPERTIES EndsOnlyWhenDue WaiterReleased CeilingBoundsQuietRun
