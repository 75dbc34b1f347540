CONSTANTS
  p1 = p1
  p2 = p2
  c1 = c1
  u1 = u1
  u2 = u2
  x1 = x1
  Variables = {p1, p2}
  ConstVariables = {c1}
  UniquePtrs = {u1, u2}
  Allocators = {a1, a2}
  a1 = a1
  a2 = a2
  h1 = h1
  h2 = h2
  Pools = {h1, h2}
  PoolOf <- PoolOfBlock
  NumBlocks = 2
  BlockElements = 1
  Distances <- SmallDistances
  DeviceBlocks = {1}
  UserAllocations = {x1}
  NoSegment = NoSegment
  NoUserAllocation = NoUserAllocation
  FreesReset = FALSE
  FreesMoved = FALSE
  MayThrow = TRUE
SYMMETRY Symmetric
SPECIFICATION Spec
INVARIANTS
  TypeOK
  PoolsGetBackWhatTheyGave
  OnlyExceptionsLeak
  DevicePtrFollowsPtr
  PointersInv
