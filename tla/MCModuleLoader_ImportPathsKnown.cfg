SPECIFICATION Spec
CONSTANTS
  Names <- MCNames
  RootArg <- MCRootArg
  Unreadable = Unreadable
  Disks <- NestedDisks
CHECK_DEADLOCK FALSE
INVARIANT ImportPathsKnown
