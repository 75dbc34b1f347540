CONSTANTS
  t1 = t1
  t2 = t2
  s1 = s1
  s2 = s2
  Threads = {t1, t2}
  Segments = {s1, s2}
  BlocksPerSegment = 2
  NoThread = NoThread
  NoBlock = NoBlock
  NoSegment = NoSegment
  NumReserveSegments = 0
  NeverFree = FALSE
  OsMayRefuse = TRUE
  RegisterMayThrow = TRUE
  MaxConsumed = 3
SYMMETRY Symmetric
SPECIFICATION MCSpec
INVARIANTS
  IsEmptyReadsLiveSegment
CHECK_DEADLOCK FALSE
