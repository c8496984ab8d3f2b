\* Types and liveness of one worker; no symmetry.
SPECIFICATION FairCodexSpec
CONSTANTS
  Actions = {w}
  WorkspaceWrite = {w}
  Threads = {t1, t2}
  NoAction = NoAction
  Workers = {k1}
  NoThread = NoThread
  MaxDecisions = 1
INVARIANTS
  CodexTypeOK
PROPERTIES
  AttemptsEnd
  LeaseIsSettled
CHECK_DEADLOCK FALSE
