\* No symmetry: it is not sound for the liveness properties.
SPECIFICATION FairSpec

CONSTANTS
  Threads = {t1, t2}
  Locs = {x, y}
  Vals = {0, 1}
  Written = {1}
  InitVal = 0
  None = None
  HasRTM = TRUE
  Attempts = 2
  MaxDepth = 2
  UIntSize = 4

INVARIANTS
  TypeOK
  FallbackExcludesSpeculation
  CounterMatchesMutex
  MemoryIsSerial

PROPERTIES
  BlocksAreAtomic
  LockChangesHandsUnannounced
  BeginDecides
  LockIsHandedOn
