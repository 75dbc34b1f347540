CONSTANTS
  Threads = {t1}
  t1 = t1
  NoThread = NoThread
  OutOfRange = OutOfRange
  SizeBits = 12
  UIntBits = 10
  PageSize = 64
  Contexts = {c1}
  c1 = c1
  NoContext = NoContext
  NoConfig = NoConfig
  Unset = Unset
  Unparsable = Unparsable
  Defaults <- SmallDefaults
  Environments <- AllEnvironments
  Requests <- AllRequests
  MakeMayThrow = FALSE
SPECIFICATION Spec
INVARIANTS
  BlockFitsRequest
  SmallestFit
  SegmentsHoldBlocks
