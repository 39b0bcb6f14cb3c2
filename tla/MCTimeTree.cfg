CONSTANTS
  Times = {0, 1, 2, 3, 4, 5, 6, 7}
  Careless = {}
  Batches <- MCBatches
  MaxLate = 3
SPECIFICATION Spec
VIEW MCView
INVARIANTS TypeOK RedBlack ReadsAsSet
PROPERTY ImplementsTimeSet
