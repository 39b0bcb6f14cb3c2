SPECIFICATION FairSpec
CONSTANTS
  k1 = k1
  k2 = k2
  k3 = k3
  t1 = t1
  None = None
  Chunks = {k1, k2, k3}
  Held = {k2, k3}
  Threads = {t1}
  BatchSize = 2
  MaxChanges = 3
  MaxCrashes = 1
  MaxLoads = 1
  Cares = {"turns", "accepts", "one load"}
INVARIANTS TypeOK DirtyIsListed CleanIsSent
PROPERTIES ImplementsDurable SavesGetThrough
CHECK_DEADLOCK FALSE
