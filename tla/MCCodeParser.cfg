CONSTANTS
  Block = Block
  Loop = Loop
  If = If
  Else = Else
  End = End
  Br = Br
  BrTable = BrTable
  Call = Call
  CallIndirect = CallIndirect
  F32Const = F32Const
  Plain = Plain
  Signature = Signature
  Reserved = Reserved
  Operand = Operand
  NoLabel = NoLabel
  W = 2
  MaxCode = 20
  Bodies <- MCBodies

SPECIFICATION Spec

INVARIANTS
  OpenLabels
  ScanAligned
  CodeKept
  LabelsBound

PROPERTIES
  Terminates

\* a parse ends
CHECK_DEADLOCK FALSE
