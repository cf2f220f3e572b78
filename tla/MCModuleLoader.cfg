SPECIFICATION FairSpec
CONSTANTS
  Names <- MCNames
  RootArg <- MCRootArg
  Unreadable = Unreadable
  Disks <- MCDisks
CHECK_DEADLOCK FALSE
INVARIANT TypeOK
INVARIANT TopologicalOrder
INVARIANT LoadedOnce
INVARIANT ImportsReachTheirFiles
INVARIANT CycleIsReal
PROPERTY Terminates
PROPERTY ImplementsLoadOrder
