\* Two workers and two human decisions on one action.
SPECIFICATION CodexSpec
CONSTANTS
  Actions = {w}
  WorkspaceWrite = {w}
  Threads = {t1, t2}
  NoAction = NoAction
  Workers = {k1, k2}
  NoThread = NoThread
  MaxDecisions = 2
SYMMETRY Symmetry
INVARIANTS
  SuccessIsTrue
  FailureIsFinal
PROPERTIES
  ImplementsOneAttempt
CHECK_DEADLOCK FALSE
