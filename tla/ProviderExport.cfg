\* One exported action and two concurrent requests of any kind.
SPECIFICATION ProviderSpec
CONSTANTS
  Actions = {n}
  WorkspaceWrite = {}
  Threads = {t1, t2}
  NoAction = NoAction
  MaxEffects = 2
SYMMETRY Symmetry
INVARIANTS
  ProviderTypeOK
  EffectsAreAuthorised
PROPERTIES
  DrainedStaysDrained
