CONSTANTS
  t1 = t1
  t2 = t2
  s4 = s4
  s1 = s1
  s2 = s2
  s3 = s3
  Threads = {t1, t2}
  Segments = {s1, s2, s3, s4}
  BlocksPerSegment = 2
  NoThread = NoThread
  NoBlock = NoBlock
  NoSegment = NoSegment
  NumReserveSegments = 0
  NeverFree = FALSE
  OsMayRefuse = FALSE
  RegisterMayThrow = FALSE
  MaxCalls = 8
SPECIFICATION CallsSpec
INVARIANTS
  NoMemoryForgotten
  GrowsOnlyWhenExhausted
  EmptySegmentsAreReclaimed
PROPERTIES
  CallsReturn
