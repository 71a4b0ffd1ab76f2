\* N*dim odd: N = 1 point in 3-D, or 3 points in 3-D
CONSTANTS
  Engines = {e1, e2}
  NoEngine = NoEngine
  Draws <- MCDraws
  Sizes = {3, 9}
  MaxInits = 2

SPECIFICATION Spec

INVARIANT Determinism
