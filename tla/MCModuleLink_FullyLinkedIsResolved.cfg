CONSTANTS
  a = a
  b = b
  c = c
  d = d
  own = own
  outside = outside
  imported = imported
  long = long
  f = f
  g = g
  h = h
  k = k
  t = t
  nope = nope
  sig1 = sig1
  sig2 = sig2
  NoSlot = NoSlot
  NoSegment = NoSegment
  Null = Null
  NoModule = NoModule
  Modules <- MCModules
  ImportsOf <- MCImportsOf
  DefsOf <- MCDefsOf
  ExportsOf <- MCExportsOf
  SegmentOf <- MCSegmentOf

SPECIFICATION Spec

INVARIANT FullyLinkedIsResolved

\* the program may stop linking, and ends when an assert fails
CHECK_DEADLOCK FALSE
