CONSTANTS
  Functions <- MCFunctions
  LocalsCount <- MCLocalsCount
  Sizes <- MCSizes
  Values = {Zero, one}
  Zero = Zero
  Body = Body
  Unset = Unset
  BaseSize = 2
  FrameAlign = 2
  SizeMod = 16
  CodeMax = 2
  MaxReleased = 12

SPECIFICATION Spec

INVARIANTS
  TypeOK
  FrameChain
  CheckSoundUntilWrap

PROPERTIES
  CallerFrozen
  ImplementsCallStack

\* after a write past the block nothing more is said of the program
CHECK_DEADLOCK FALSE
