SPECIFICATION FairSpec
CONSTANTS
  g1 = g1
  g2 = g2
  a1 = a1
  a2 = a2
  a3 = a3
  t1 = t1
  t2 = t2
  Graphs = {g1, g2}
  Attempts = {a1, a2, a3}
  Owner <- MCOwner
  Threads = {t1, t2}
  NoAttempt = NoAttempt
  MaxPrefix = 1
  KeyLimit = 2
  Cares = {"connects", "locks", "limit"}
INVARIANTS TypeOK KeysUnique OwnPrefix KeysInRange
PROPERTY ConnectAnswered
