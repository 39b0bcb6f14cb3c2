CONSTANTS
  k1 = k1  k2 = k2  k3 = k3  k4 = k4
  a1 = a1  a2 = a2  b1 = b1  c1 = c1  d1 = d1
  x = x  y = y
  Keys = {k1, k2, k3}
  Buckets = {x, y}
  Chunks = {a1, a2, b1, c1}
  Hash <- MCHash
  KeyOf <- MCKeyOf
  NoChunk = NoChunk
  Capacity = 2
  SaveBatchSize = 1
  MaxRefs = 1
  MaxLoads = 2
SPECIFICATION Spec
CONSTRAINT MCBusy
VIEW MCView
INVARIANTS TypeOK NoSlotLost OneChunkPerKey
