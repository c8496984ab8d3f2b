\* Three keys, one item, two readers, and a clock that outlives the TTL.
SPECIFICATION CacheSpec
CONSTANTS
  Keys = {k1, k2, k3}
  NoKey = NoKey
  Readers = {r1, r2}
  Ttl = 2
  MaxItems = 1
  MaxTime = 3
  MaxVersion = 2
SYMMETRY Symmetry
INVARIANTS
  CacheTypeOK
  BoundedSize
  FreshWithinTtl
  ClearIsSeen
