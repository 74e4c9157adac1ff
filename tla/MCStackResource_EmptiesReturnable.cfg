CONSTANTS
  \* Aligned and not; room for no granule, and for three and a rest.
  Bases = {4, 6}
  Capacities = {0, 3, 14}
  Sizes = {0, 1, 4, 6}
  Alignments = {1, 4, 8}
  max_alignment = 4
  MaxLive = 3

SPECIFICATION Spec

INVARIANT EmptiesReturnable

\* A program stops at the first assert that fails.
CHECK_DEADLOCK FALSE
