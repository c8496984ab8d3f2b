\* Two confirmations of the same approved export.
SPECIFICATION ProviderSpec
CONSTANTS
  Actions = {n}
  WorkspaceWrite = {}
  Threads = {t1, t2}
  NoAction = NoAction
  MaxEffects = 2
SYMMETRY Symmetry
INVARIANTS
  EffectAtMostOnce
