CONSTANTS
  Worlds = {w0, w1}
  Root = w0
  NoWorld = NoWorld
  MaxTime = 3
  Handles = {h1, h2}
  Scales <- MCHalf
  Careless = {"stale reads", "split reads", "stale writes", "early writes", "small times"}
  MaxOff = 4
SPECIFICATION Spec
SYMMETRY MCSymmetry
VIEW MCView
CONSTRAINT MCFewStates
INVARIANTS FirstKept LockKept MarksFollowSplits
