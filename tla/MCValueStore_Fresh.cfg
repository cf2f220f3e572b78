SPECIFICATION FreshSpec
CONSTANTS
  Names = {"x", "y"}
  Param = "y"
  NumBuffers = 5
  NumCells = 3
  MaxLen = 1
  MaxTemps = 2
  MaxFrames = 1
CHECK_DEADLOCK FALSE
VIEW CanonicalView
INVARIANT NoAliasing
PROPERTY ImplementsValueSemantics
PROPERTY BindingsCopyTheValue
