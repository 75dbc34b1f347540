CONSTANTS
  t1 = t1
  t2 = t2
  t3 = t3
  s1 = s1
  s2 = s2
  Threads = {t1, t2, t3}
  Segments = {s1, s2}
  BlocksPerSegment = 2
  NoThread = NoThread
  NoBlock = NoBlock
  NoSegment = NoSegment
  NumReserveSegments = 0
  NeverFree = FALSE
  OsMayRefuse = TRUE
  RegisterMayThrow = TRUE
  MaxConsumed = 3
SYMMETRY Symmetric
SPECIFICATION MCSpec
INVARIANTS
  TypeOK
  BlocksInOnePlace
  NoBlockLost
  NoDanglingBlock
  SegmentInUseIsLive
  CounterAgrees
  SpinningFreeHasCollector
  Inv
PROPERTIES
  DestroysOnlyEmptySegments
  PoolKeepsPromise
CHECK_DEADLOCK FALSE
