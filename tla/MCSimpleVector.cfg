CONSTANTS
  x = x
  y = y
  Vectors = {v1, v2}
  Buffers = {b1, b2, b3}
  Items <- MCItems
  Inputs <- MCInputs
  MaxSize = 3
  Null = Null
  Free = Free
  NoGuard = NoGuard
  Dead = Dead

SPECIFICATION Spec

INVARIANTS
  TypeOK
  Owned

PROPERTIES
  OnlyMoveMisfrees
  ImplementsVector

\* an abort or an undefined deletion ends the program
CHECK_DEADLOCK FALSE
