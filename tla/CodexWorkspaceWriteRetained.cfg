\* A worker that rolls back while its resume is still on its way.
SPECIFICATION CodexSpec
CONSTANTS
  Actions = {w}
  WorkspaceWrite = {w}
  Threads = {t1, t2}
  NoAction = NoAction
  Workers = {k1}
  NoThread = NoThread
  MaxDecisions = 1
INVARIANTS
  DiffIsRetained
CHECK_DEADLOCK FALSE
