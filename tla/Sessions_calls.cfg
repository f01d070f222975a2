SPECIFICATION Spec
CONSTANTS
  Window = 3
  ForkBase = 100
  Dirs = {"main", "tree", "other"}
  DirOrder <- Listed
  WorktreeOrder <- Worktrees
  StoreDirs = {"main"}
  Sids = {"s1", "s2"}
  Prepared <- Starts
  BatchSize = 3
  Written = {"prompt", "ai-title"}
  MaxCalls = 3
INVARIANTS RenameShows SidecarAgrees ContinueIsLastWritten ImportComplete
PROPERTIES ForkNamedAsShown
CHECK_DEADLOCK FALSE
