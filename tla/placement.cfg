CONSTANTS
  t1 = t1
  t2 = t2
  x1 = x1
  x2 = x2
  Threads = {t1, t2}
  Addresses = {x1, x2}
  Machines <- SmallMachines
  Nodes <- AllNodes
  NoAllocation = NoAllocation
  NoThread = NoThread
  NumaForLocal = FALSE
SYMMETRY Symmetric
SPECIFICATION Spec
INVARIANTS
  TypeOK
  NodeMapIsExact
  ServedOnNodeAskedFor
  MemoryIsAccountedFor
  PlacementInv
