CONSTANTS
  MaxTries = 5
  Scale = 32
  Tables <- MCTables
  Windows <- MCWindows
  NegInf = NegInf
  PosInf = PosInf

SPECIFICATION Spec

INVARIANT InvalidNeighborsRejected
