SPECIFICATION Spec
CONSTANTS
  W = 2
  TableLen = 1
  Bodies <- MCBodies
INVARIANTS
  WalkAligned
  OperandsKept
  InstructionsBuilt
  ExecutesWhatWasBuilt
PROPERTIES
  HandlerEffect
CHECK_DEADLOCK FALSE
