CONSTANTS
  Worlds = {w0, w1}
  Root = w0
  NoWorld = NoWorld
  MaxTime = 2
  Handles = {h1, h2}
  Scales <- MCScales
  Careless = {"stale reads"}
  MaxOff = 0
SPECIFICATION Spec
SYMMETRY MCSymmetry
VIEW MCView
PROPERTY LatestReturned
