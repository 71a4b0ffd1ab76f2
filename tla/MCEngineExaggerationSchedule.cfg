CONSTANTS
  Dims = {2, 4}
  Tables <- MCTables
  ExagIters = 2
  MaxIter = 3
  Undef = Undef

SPECIFICATION Spec

INVARIANT ExaggerationSchedule
