SPECIFICATION Spec
CONSTANTS
  Disks <- MCDisks
  Leftovers <- MCLeftovers
  Descriptors <- MCDescriptors
  SegmentSectors = 3
  StackSectors = 2
  SectorsPerTrack = 2
  Heads = 2
  Cylinders = 2
  ReservedSectors = 1
  NumberOfFATs = 2
  SectorsPerFAT = 1
  RootSectors = 2
  Beyond <- MCBeyond
  CountSize = 8
  MaxEntries = 4
  MaxFailures = 1
CHECK_DEADLOCK FALSE
INVARIANTS KernelIsTheFile ParametersHandedOn
PROPERTIES BootEnds
