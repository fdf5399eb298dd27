SPECIFICATION Spec
CONSTANTS
  MaxMultiprogramming = {1, 2}
  Algorithms = {"RR", "HRRN", "PRIORITY", "LOTTERY", "SD", "FEEDBACK"}
  Workloads <- MCWorkloads
  LongQuantum = 12
  TimeLimit = 24
INVARIANTS TypeOK OnePlaceEach MultiprogrammingBound SliceBound TimeAddsUp EndsComplete TurnaroundCoversWork
PROPERTIES GridlockIsForever EndsOrGridlocks
CHECK_DEADLOCK FALSE
