CONSTANTS
  Worlds = {w0, w1, w2}
  Root = w0
  NoWorld = NoWorld
  MaxTime = 5
  Handles = {h1, h2}
  Scales <- MCFine
  Careless = {}
  MaxOff = 0
SPECIFICATION Spec
SYMMETRY MCSymmetry
VIEW MCView
CONSTRAINT MCLongOrWide
INVARIANTS TypeOK MarksBalanced TreesPartStates SameIsCurrent TreesSplit
PROPERTY KeepsPromises
