SPECIFICATION Spec
CONSTANTS
  Names <- MCNames
  RootArg <- MCRootArg
  Unreadable = Unreadable
  Disks <- MCDisks
CHECK_DEADLOCK FALSE
INVARIANT NoAliasChains
INVARIANT PathsIdentifyModules
