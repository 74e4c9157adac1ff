CONSTANTS
  Group = 3
  DestBits = 8
  Widths <- MCWidths
  Types <- MCTypes
  MaxBytes = 4

SPECIFICATION Spec

INVARIANTS
  ShiftDefined
  Decoded
  RoundTrip
  NothingLeaks

\* a call returns
CHECK_DEADLOCK FALSE
