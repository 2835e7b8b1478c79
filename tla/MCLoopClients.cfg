SPECIFICATION Spec
CONSTANTS
  a1 = a1
  a2 = a2
  a3 = a3
  s1 = s1
  s2 = s2
  l1 = l1
  l2 = l2
  l3 = l3
  k1 = k1
  k2 = k2
  AsyncCalls = {a1, a2, a3}
  SyncCalls = {s1, s2}
  Casts <- MCCasts
  Loops = {l1, l2, l3}
  PinLoop = l1
  Closers = {k1, k2}
  Pin = Pin
  None = None
INVARIANTS
  TypeOK
  OwnLoop
  ServedUnlessClosed
  NoneForgotten
PROPERTIES
  NothingAccumulates
SYMMETRY MCSymmetry
CHECK_DEADLOCK FALSE
