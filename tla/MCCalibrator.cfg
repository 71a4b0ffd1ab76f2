CONSTANTS
  MaxTries = 5
  Scale = 32
  Tables <- MCTables
  Windows <- MCWindows
  NegInf = NegInf
  PosInf = PosInf

SPECIFICATION Spec

INVARIANT TypeOK
INVARIANT SearchBracketsTarget
INVARIANT BetaInBracket
INVARIANT PSupport
INVARIANT PMassOne
INVARIANT ThrowsAsPredicted
PROPERTY ImplementsNearest2P
PROPERTY Terminates
