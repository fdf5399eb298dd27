SPECIFICATION PagesSpec
CONSTANTS
  MemoryFrames = 2
  Algorithms = {"FIFO", "LRU", "CLOCK", "OPTIMAL"}
  Workloads <- MCWorkloads
  TimeLimit = 8
CHECK_DEADLOCK FALSE
INVARIANTS PagesConserved
PROPERTIES PagePresent VictimOrder
