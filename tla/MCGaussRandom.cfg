\* N*dim even: N = 2 points in 2-D, or 2 in 3-D
CONSTANTS
  Engines = {e1, e2}
  NoEngine = NoEngine
  Draws <- MCDraws
  Sizes = {4, 6}
  MaxInits = 2

SPECIFICATION Spec

INVARIANT TypeOK
INVARIANT CacheConservesDraws
INVARIANT CacheEmptyBetweenCalls
INVARIANT Determinism
