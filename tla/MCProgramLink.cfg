CONSTANTS
  Programs <- MCPrograms
  Page = 2
  A = A
  B = B

SPECIFICATION Spec

INVARIANTS
  EntitiesKept
  CallsResolve
  CreatedIfLinkable

\* The linker stops, with a program, an exception or in an endless loop.
CHECK_DEADLOCK FALSE
