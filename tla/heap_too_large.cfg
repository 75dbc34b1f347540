CONSTANTS
  Threads = {t1}
  t1 = t1
  NoThread = NoThread
  OutOfRange = OutOfRange
  SizeBits = 12
  UIntBits = 10
  PageSize = 64
  Contexts = {c1, c2}
  c1 = c1
  c2 = c2
  NoContext = NoContext
  NoConfig = NoConfig
  Unset = Unset
  Unparsable = Unparsable
  Defaults <- SmallDefaults
  Environments <- OneEnvironment
  Requests <- LargerRequests
  MakeMayThrow = FALSE
SPECIFICATION Spec
INVARIANTS
  BlockFitsRequest
