SPECIFICATION Spec
CONSTANTS
  Names = {"x", "y"}
  Param = "y"
  NumBuffers = 3
  NumCells = 2
  MaxLen = 1
  MaxTemps = 2
  MaxFrames = 1
CHECK_DEADLOCK FALSE
VIEW CanonicalView
INVARIANT TypeOK
PROPERTY NewBindingsAreOwn
PROPERTY AliasesEnterByStores
