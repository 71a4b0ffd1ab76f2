CONSTANTS
  OpTypes = {"PyFunc", "MatMul"}
  NoOp = NoOp
  NoDevice = NoDevice
  Ids = {"n1", "n2", "n3", "n4"}
  Attr <- MCAttr
  Graphs <- MCGraphs
  Tpu = Tpu
  Null = Null
  Unset = Unset
  MaxCalls = 4
SPECIFICATION Spec
INVARIANT MarksCurrent
PROPERTY ImplementsAtomicCheck
