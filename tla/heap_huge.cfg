CONSTANTS
  Threads = {t1, t2, t3}
  t1 = t1
  t2 = t2
  t3 = t3
  NoThread = NoThread
  OutOfRange = OutOfRange
  SizeBits = 12
  UIntBits = 10
  PageSize = 64
  Contexts = {c1, c2}
  c1 = c1
  c2 = c2
  NoContext = NoContext
  NoConfig = NoConfig
  Unset = Unset
  Unparsable = Unparsable
  Defaults <- SmallDefaults
  Environments <- ValidAndInvalid
  Requests <- HugeRequests
  MakeMayThrow = TRUE
SYMMETRY Symmetric
SPECIFICATION Spec
INVARIANTS
  TypeOK
  OneHeapPerSize
  MutexIsReleased
  OneInstance
  InstanceHasContext
  InitMutexIsReleased
  HeapInv
PROPERTIES
  HugeHeapsStay
