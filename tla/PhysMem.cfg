SPECIFICATION Spec
CONSTANTS
  WordBits = 4
  NumWords = 4
  BlockSize = 2
  KernelStart = 8
  KernelSize = 8
  Maps <- MCMaps
INVARIANTS TypeOK PoolConserved HeldIsMarked
PROPERTY ImplementsPool
