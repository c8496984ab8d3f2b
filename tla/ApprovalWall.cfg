\* One workspace-write action and two concurrent requests.
SPECIFICATION Spec
CONSTANTS
  Actions = {w}
  WorkspaceWrite = {w}
  Threads = {t1, t2}
  NoAction = NoAction
SYMMETRY Symmetry
INVARIANTS
  TypeOK
  AtMostOnce
  CompletedMeansConsumed
  FailureBlocks
PROPERTIES
  OutcomeIsFinal
  ClosedStaysClosed
  DeadStaysDead
  ImplementsContract
