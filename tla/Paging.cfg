SPECIFICATION Spec
CONSTANTS
  PerTable = 6
  NumFrames = 15
  MmapFrame = 0
  StackFrame = 1
  DirFrame = 2
  LowTable = 3
  KernelTable = 4
  VgaFrame = 5
  KernelFrame = 6
  KernelSlot = 2
  KernelPages = 2
  Pools <- MCPools
  Leftovers <- MCLeftovers
  CallerPages <- MCCallerPages
  CallerFrames = {5}
CHECK_DEADLOCK FALSE
INVARIANTS NeedsMapped MappedAsAsked NothingFreeInUse
