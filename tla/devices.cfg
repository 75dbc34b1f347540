CONSTANTS
  t1 = t1
  t2 = t2
  x1 = x1
  x2 = x2
  x3 = x3
  Threads = {t1, t2}
  NoThread = NoThread
  NumNodes = 2
  NodeIndices = {1}
  NumDevices = 2
  DeviceMemory = {x1, x2, x3}
  NoMemory = NoMemory
  MayThrow = TRUE
SYMMETRY Symmetric
SPECIFICATION Spec
INVARIANTS
  TypeOK
  ServedOnDeviceAskedFor
  ClientsKeepTheirDevice
  DeviceMemoryIsAccountedFor
  DeviceInv
CHECK_DEADLOCK FALSE
