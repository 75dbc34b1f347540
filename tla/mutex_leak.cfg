CONSTANTS
  t1 = t1
  t2 = t2
  t3 = t3
  s1 = s1
  s2 = s2
  s3 = s3
  Threads = {t1, t2}
  Segments = {s1, s2, s3}
  BlocksPerSegment = 2
  NoThread = NoThread
  NoBlock = NoBlock
  NoSegment = NoSegment
  NumReserveSegments = 0
  NeverFree = FALSE
  OsMayRefuse = TRUE
  RegisterMayThrow = FALSE
  MaxCalls = 6
SPECIFICATION CallsSpec
PROPERTIES
  WaitersGetTheMutex
CHECK_DEADLOCK FALSE
