SPECIFICATION FairSessionSpec
CONSTANTS
  Tasks = {t1, t2}
  TaskTypes <- McTaskTypes
  DeferringTaskTypes <- McDeferring
  Statuses <- McStatuses
  TerminalStatuses <- McTerminal
  MaxTrackedTasks = 1
  BidirectionalNeeds = TRUE
  CeilingOn = FALSE
  MaxFrames = 99
  MaxPrompts = 1
  StateReports = {TRUE, FALSE}
  MaxAsks = 1
INVARIANTS ControlChannelOpen StdinOutlivesTheWork
PROPERTY StdinClosedAtLast
