\* A payload produced before a write and stored after its clear.
SPECIFICATION CacheSpec
CONSTANTS
  Keys = {k1}
  NoKey = NoKey
  Readers = {r1, r2}
  Ttl = 2
  MaxItems = 1
  MaxTime = 3
  MaxVersion = 2
SYMMETRY Symmetry
INVARIANTS
  ReflectsImmediately
